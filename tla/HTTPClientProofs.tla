--------------------------- MODULE HTTPClientProofs ---------------------------
(***************************************************************************)
(* Theorems about HTTPClient for any number of requests and of parts.      *)
(***************************************************************************)
EXTENDS HTTPClient, FiniteSetTheorems, SequenceTheorems, TLAPS

(***************************************************************************)
(* The inductive invariant.  Two parts hold whatever the application does  *)
(* and are what the refinement rests on: the requests that were begun are  *)
(* the first ones (Numbers), and a request's result and the handler it     *)
(* waits for fit the place it is at (Results).                             *)
(*                                                                         *)
(* The others hold for an application that begins no request in a gap of   *)
(* another, until a handler throws at DONE.  At most one request is        *)
(* active, and it has the client's handle from Initialize to CleanupCurl   *)
(* (Held): so what the client has received is its own (Owned), and so are  *)
(* the headers (Headed).                                                   *)
(***************************************************************************)
Numbers == \E n \in Nat : n <= MaxRequests /\ Begun = 1..n

\* A block of headers that is no redirection is the last one.
Blocks == \A r \in Request : r \notin final => blocks[r] <= 1

Results ==
    \A r \in Request :
        /\ pc[r] \in {"new", "begun", "performing"} => result[r] = "none"
        /\ pc[r] = "result" => result[r] \in {"ok", "error", "timeout", "aborted"}
        /\ pc[r] = "headers" => result[r] = "ok"
        /\ pc[r] \in {"clean", "done"} => result[r] \in {"ok", "failed"}
        /\ call[r] # "no" => /\ pc[r] \in {"performing", "headers", "clean", "ending"}
                             /\ result[r] # "thrown"

\* A request here has the handle of the client.
Holding(r) == pc[r] \in {"performing", "result", "headers", "clean", "caught"}

\* A request is active until its DONE is shown.
Active(r) == Holding(r) \/ pc[r] \in {"begun", "done"} \/ AboutToShow(r)

Held ==
    ~lateThrow =>
        \A r \in Request :
            /\ Holding(r) => curlHandle = r
            /\ Active(r) => \A q \in Request : Active(q) => q = r
            /\ Holding(r) \/ pc[r] \in {"new", "begun"} => r \notin freed

\* A request that has not begun has received nothing.
Fresh == \A r \in Request : pc[r] \in {"new", "begun"} => parts[r] = 0 /\ blocks[r] = 0

Owned ==
    ~lateThrow =>
        \A r \in Request :
            /\ pc[r] \in {"begun", "performing", "result", "headers", "clean"} =>
                  responseData = Received(r) /\ shownData = <<>>
            /\ pc[r] = "done" \/ AboutToShow(r) => shownData = Received(r)

Headed ==
    ~lateThrow /\ ~cut =>
        /\ nextHeaders # {} => \E r \in Request : pc[r] = "performing"
        /\ \A r \in Request :
              /\ pc[r] = "performing" => nextHeaders \subseteq {<<r, blocks[r] + 1>>}
              /\ Active(r) /\ blocks[r] > 0 => headers = {<<r, blocks[r]>>}

Part == Request \X (1..MaxParts)

-----------------------------------------------------------------------------
(* The types.                                                               *)

\* Adding one at the end.
LEMMA AppendOf ==
    ASSUME NEW S, NEW s \in Seq(S), NEW e \in S
    PROVE  Append(s, e) \in Seq(S)
  BY AppendProperties

\* The main thread returns from the innermost frame.
LEMMA PopOf ==
    ASSUME frames \in Seq(Request), frames # <<>>
    PROVE  Pop \in Seq(Request)
<1> DEFINE R == Request
<1>1. frames \in Seq(R)
      OBVIOUS
<1> HIDE DEF R
<1>2. Len(frames) \in Nat /\ \A i \in 1..Len(frames) : frames[i] \in R
      BY <1>1, ElementOfSeq, LenProperties
<1>3. Len(frames) - 1 \in Int /\ \A i \in 1..(Len(frames) - 1) : frames[i] \in R
      BY <1>2
<1>4. SubSeq(frames, 1, Len(frames) - 1) \in Seq(R)
      BY <1>3, SubSeqProperties
<1> QED BY <1>4 DEF R, Pop

\* The types hold at the start.
LEMMA TypeInit == ASSUME HTTPAssumption, Init PROVE TypeOK /\ Blocks
<1>1. <<>> \in Seq(Part) /\ <<>> \in Seq(Request)
      BY EmptySeq
<1>2. {responseData, shownData} \subseteq Seq(Part) /\ frames \in Seq(Request)
      BY <1>1, Zenon DEF Init
<1>3. /\ pc \in [Request -> {"new", "begun", "performing", "result", "headers", "clean",
                             "done", "caught", "ending", "over"}]
      /\ call \in [Request -> {"no", "asks", "in"}]
      /\ result \in [Request -> {"none", "ok", "error", "timeout", "aborted", "failed",
                                 "thrown"}]
      /\ blocks \in [Request -> 0..2] /\ parts \in [Request -> 0..MaxParts]
      BY DEF Init, HTTPAssumption
<1>4. Blocks
      BY DEF Init, Blocks
<1>5. /\ readyState \in 0..4 /\ curlHandle \in Request \cup {NoRequest}
      BY DEF Init
<1>6. aborted \in BOOLEAN /\ lateThrow \in BOOLEAN /\ cut \in BOOLEAN
      BY DEF Init
<1>7. /\ headers \cup nextHeaders \subseteq Request \X (1..2)
      /\ inPlace \cup final \cup freed \subseteq Request
      BY DEF Init
<1> QED BY <1>2, <1>3, <1>4, <1>5, <1>6, <1>7 DEF TypeOK, Part

\* No step breaks them.
LEMMA TypeNext == ASSUME HTTPAssumption, TypeOK, Blocks, [Next]_vars PROVE TypeOK' /\ Blocks'
<1> USE DEF TypeOK, Blocks
<1>a. ASSUME NEW r \in Request  PROVE r \in Nat /\ r # 0
      BY DEF Request, HTTPAssumption
<1>1. CASE Open
      BY <1>1 DEF Open, execution, history, received
<1>2. CASE Abort
      BY <1>2 DEF Abort, execution, history, received, shown
<1>3. ASSUME NEW r \in Request, NEW async \in BOOLEAN, Send(r, async) PROVE TypeOK' /\ Blocks'
  <2>1. frames' \in Seq(Request)
    <3> DEFINE R == Request
    <3>1. frames \in Seq(R) /\ r \in R
          OBVIOUS
    <3> HIDE DEF R
    <3>2. Append(frames, r) \in Seq(R)
          BY <3>1, AppendOf
    <3> QED BY <1>3, <3>2 DEF Send, Begin, R
  <2>2. {responseData', shownData'} \subseteq Seq(Request \X (1..MaxParts))
    <3>1. <<>> \in Seq(Request \X (1..MaxParts))
          BY EmptySeq
    <3> QED BY <3>1, <1>3 DEF Send, Begin, Forget
  <2> QED BY <1>3, <2>1, <2>2 DEF Send, Begin, Goto
<1>4. ASSUME NEW r \in Request, Initialize(r) PROVE TypeOK' /\ Blocks'
  <2>1. pc' = [pc EXCEPT ![r] = "performing"] /\ curlHandle' = r
        BY <1>4 DEF Initialize, Goto
  <2>2. UNCHANGED <<shown, received, aborted, call, inPlace, result, blocks, final, parts,
                    freed, frames, history>>
        BY <1>4 DEF Initialize, shown
  <2> QED BY <2>1, <2>2 DEF shown, received, history
<1>5. ASSUME NEW r \in Request, HandleFailure(r) PROVE TypeOK' /\ Blocks'
      BY <1>5 DEF HandleFailure, Goto, Asks, received, shown, history
<1>6. ASSUME NEW r \in Request, ShowHeaders(r) \/ ShowLoading(r) \/ ShowDone(r)
      PROVE  TypeOK' /\ Blocks'
  <2>1. PICK at \in {"result", "headers", "done"}, state \in 2..4,
             to \in {"headers", "clean", "ending"} : Shows(r, at, state, to)
        BY <1>6 DEF ShowHeaders, ShowLoading, ShowDone
  <2>2. /\ pc' = [pc EXCEPT ![r] = to] /\ call' = [call EXCEPT ![r] = "asks"]
        /\ readyState' = state
        BY <2>1 DEF Shows, Goto, Asks
  <2>3. UNCHANGED <<shownData, received, curlHandle, aborted, inPlace, result, blocks, final,
                    parts, freed, frames, history>>
        BY <2>1 DEF Shows
  <2> QED BY <2>2, <2>3 DEF received, history
<1>7. ASSUME NEW r \in Request, Clean(r) PROVE TypeOK' /\ Blocks'
  <2>1. /\ freed' \subseteq Request /\ curlHandle' = NoRequest
        /\ shownData' \in {shownData, responseData}
        BY <1>7 DEF Clean, CleanupCurl
  <2> QED BY <1>7, <2>1 DEF Clean, Goto, received, history
<1>8. ASSUME NEW r \in Request, Catch(r) PROVE TypeOK' /\ Blocks'
      BY <1>8 DEF Catch, CleanupCurl, Goto, received, shown, history
<1>9. ASSUME NEW r \in Request, Over(r) PROVE TypeOK' /\ Blocks'
  <2>1. frames' \in Seq(Request)
    <3>1. r \in inPlace => frames # <<>>
          BY <1>9 DEF Over, Runs, OnTop
    <3> QED BY <1>9, <3>1, PopOf DEF Over
  <2>2. MaxParts \in Nat
        BY DEF HTTPAssumption
  <2>3. /\ pc' = [pc EXCEPT ![r] = "over"]
        /\ inPlace' = inPlace \ {r} /\ final' = final \ {r} /\ freed' = freed \ {r}
        /\ blocks' = [blocks EXCEPT ![r] = 0] /\ parts' = [parts EXCEPT ![r] = 0]
        /\ result' \in {[result EXCEPT ![r] = "none"], result}
        BY <1>9 DEF Over, Goto
  <2>4. UNCHANGED <<shown, received, curlHandle, aborted, call, history>>
        BY <1>9 DEF Over
  <2> QED BY <2>1, <2>2, <2>3, <2>4 DEF received, shown, history
<1>10. ASSUME NEW r \in Request, RunHandler(r) PROVE TypeOK' /\ Blocks'
  <2>1. frames' \in Seq(Request)
    <3> DEFINE R == Request
    <3>1. r \in R /\ frames \in Seq(R)
          OBVIOUS
    <3> HIDE DEF R
    <3>2. <<r>> \in Seq(R)
          BY <3>1
    <3> QED BY <1>10, <3>1, <3>2 DEF RunHandler, R
  <2> QED BY <1>10, <2>1 DEF RunHandler, received, shown, history
<1>11. ASSUME NEW r \in Request, Returns(r) PROVE TypeOK' /\ Blocks'
  <2>1. frames' \in Seq(Request)
        BY <1>11, PopOf DEF Returns, OnTop
  <2> QED BY <1>11, <2>1 DEF Returns, received, shown, history
<1>12. ASSUME NEW r \in Request, Throws(r) PROVE TypeOK' /\ Blocks'
  <2>1. frames' \in Seq(Request)
        BY <1>12, PopOf DEF Throws, OnTop
  <2> QED BY <1>12, <2>1 DEF Throws, Goto, received, shown
<1>13. ASSUME NEW r \in Request, HeaderLine(r) PROVE TypeOK' /\ Blocks'
  <2>1. <<r, blocks[r] + 1>> \in Request \X (1..2)
    <3>1. blocks[r] \in 0..1
          BY <1>13 DEF HeaderLine
    <3> QED BY <3>1
  <2> QED BY <1>13, <2>1 DEF HeaderLine, execution, shown, history
<1>14. ASSUME NEW r \in Request, HeaderEnd(r) PROVE TypeOK' /\ Blocks'
      BY <1>14 DEF HeaderEnd, EndBlock, shown, history
<1>15. ASSUME NEW r \in Request, Data(r) PROVE TypeOK' /\ Blocks'
  <2>1. responseData' \in Seq(Part)
    <3>1. MaxParts \in Nat /\ parts[r] \in 0..MaxParts /\ parts[r] < MaxParts
          BY <1>15 DEF Data, HTTPAssumption
    <3>2. <<r, parts[r] + 1>> \in Part
          BY <3>1 DEF Part
    <3>3. responseData \in Seq(Part)
          BY DEF Part
    <3> QED BY <1>15, <3>2, <3>3, AppendOf DEF Data
  <2>2. parts' \in [Request -> 0..MaxParts]
        BY <1>15 DEF Data, HTTPAssumption
  <2> QED BY <1>15, <2>1, <2>2 DEF Data, Asks, history, Part
<1>16. ASSUME NEW r \in Request, NEW code \in {"ok", "error", "timeout", "aborted"}, Ends(r, code)
       PROVE  TypeOK' /\ Blocks'
      BY <1>16 DEF Ends, Goto, received, shown
<1>17. CASE UNCHANGED vars
      BY <1>17 DEF vars, shown, received, execution, history
<1> QED BY <1>1, <1>2, <1>3, <1>4, <1>5, <1>6, <1>7, <1>8, <1>9, <1>10, <1>11, <1>12, <1>13,
           <1>14, <1>15, <1>16, <1>17
        DEF Next, Step, Handler, Transfer, TimesOut, Progress, Completes, Fails

-----------------------------------------------------------------------------
(* Requests are begun in order, and their results fit.                      *)

\* The request that is begun next has not begun.
LEMMA NextIsNew ==
    ASSUME HTTPAssumption, Numbers, NEW r \in Request, r = Cardinality(Begun) + 1
    PROVE  pc[r] = "new" /\ \E n \in Nat : n < MaxRequests /\ Begun = 1..n /\ r = n + 1
<1>1. PICK n \in Nat : n <= MaxRequests /\ Begun = 1..n
      BY DEF Numbers
<1>2. Cardinality(1..n) = n
      BY <1>1, FS_Interval
<1>3. r = n + 1 /\ r \notin 1..n
      BY <1>1, <1>2
<1>4. r <= MaxRequests /\ MaxRequests \in Nat
      BY DEF Request, HTTPAssumption
<1>5. pc[r] = "new"
      BY <1>1, <1>3 DEF Begun
<1> QED BY <1>1, <1>3, <1>4, <1>5

\* Steps leave a request that has not begun where it is, but for Send.
LEMMA StepMoves ==
    ASSUME TypeOK, Results, NEW r \in Request, Step(r) \/ Handler(r)
    PROVE  /\ pc[r] # "new"
           /\ \/ UNCHANGED pc
              \/ \E to \in {"performing", "headers", "clean", "done", "caught", "ending", "over"} :
                    pc' = [pc EXCEPT ![r] = to]
<1>1. CASE Initialize(r)
      BY <1>1 DEF Initialize, Runs, Goto
<1>2. CASE HandleFailure(r)
      BY <1>2 DEF HandleFailure, Runs, Goto
<1>3. CASE ShowHeaders(r)
      BY <1>3 DEF ShowHeaders, Shows, Runs, Goto
<1>4. CASE ShowLoading(r)
      BY <1>4 DEF ShowLoading, Shows, Runs, Goto
<1>5. CASE Clean(r)
      BY <1>5 DEF Clean, Runs, Goto
<1>6. CASE ShowDone(r)
      BY <1>6 DEF ShowDone, Shows, Runs, Goto
<1>7. CASE Catch(r)
      BY <1>7 DEF Catch, Runs, Goto
<1>8. CASE Over(r)
      BY <1>8 DEF Over, Runs, Goto
<1>9. CASE RunHandler(r) \/ Returns(r)
      BY <1>9 DEF RunHandler, Returns, Results
<1>10. CASE Throws(r)
      BY <1>10 DEF Throws, Goto, Results
<1> QED BY <1>1, <1>2, <1>3, <1>4, <1>5, <1>6, <1>7, <1>8, <1>9, <1>10 DEF Step, Handler

\* So does everything that happens while a request is performed.
LEMMA TransferMoves ==
    ASSUME NEW r \in Request, Transfer(r) \/ TimesOut(r) \/ Progress(r)
    PROVE  pc[r] = "performing" /\ (UNCHANGED pc \/ pc' = [pc EXCEPT ![r] = "result"])
<1>1. CASE HeaderLine(r) \/ HeaderEnd(r) \/ Data(r)
      BY <1>1 DEF HeaderLine, HeaderEnd, Data, Runs, execution
<1>2. ASSUME NEW code, Ends(r, code)
      PROVE  pc[r] = "performing" /\ pc' = [pc EXCEPT ![r] = "result"]
      BY <1>2 DEF Ends, Runs, Goto
<1> QED BY <1>1, <1>2 DEF Transfer, TimesOut, Progress, Completes, Fails

\* The requests that were begun are the first ones.
LEMMA NumbersNext ==
    ASSUME HTTPAssumption, TypeOK, Results, Numbers, [Next]_vars PROVE Numbers'
<1>t. DOMAIN pc = Request
      BY DEF TypeOK
<1>u. ASSUME NEW r \in Request, NEW to, pc[r] # "new", to # "new", pc' = [pc EXCEPT ![r] = to]
      PROVE  Begun' = Begun
      BY <1>t, <1>u DEF Begun
<1>s. ASSUME Begun' = Begun  PROVE Numbers'
      BY <1>s DEF Numbers
<1>v. ASSUME UNCHANGED pc  PROVE Numbers'
      BY <1>v, <1>s DEF Begun
<1>1. ASSUME NEW r \in Request, NEW async \in BOOLEAN, Send(r, async) PROVE Numbers'
  <2>1. r = Cardinality(Begun) + 1 /\ pc' = [pc EXCEPT ![r] = "begun"]
        BY <1>1 DEF Send, Begin, Goto
  <2>2. PICK n \in Nat : n < MaxRequests /\ Begun = 1..n /\ r = n + 1
        BY <2>1, NextIsNew
  <2>3. Begun' = Begun \cup {r}
        BY <1>t, <2>1 DEF Begun
  <2>4. Begun' = 1..(n + 1) /\ n + 1 \in Nat /\ n + 1 <= MaxRequests
        BY <2>2, <2>3 DEF HTTPAssumption
  <2> QED BY <2>4 DEF Numbers
<1>2. ASSUME NEW r \in Request, Step(r) \/ Handler(r) PROVE Numbers'
      BY <1>2, <1>s, <1>u, <1>v, StepMoves
<1>3. ASSUME NEW r \in Request, Transfer(r) \/ TimesOut(r) \/ Progress(r) PROVE Numbers'
      BY <1>3, <1>s, <1>u, <1>v, TransferMoves
<1>4. CASE Open \/ Abort \/ UNCHANGED vars
      BY <1>4, <1>v DEF Open, Abort, execution, vars
<1> QED BY <1>1, <1>2, <1>3, <1>4 DEF Next

\* A request's result and the handler it waits for fit the place it is at.
LEMMA ResultsNext ==
    ASSUME HTTPAssumption, TypeOK, Numbers, Results, [Next]_vars PROVE Results'
<1>t. /\ DOMAIN pc = Request /\ DOMAIN result = Request /\ DOMAIN call = Request
      BY DEF TypeOK
<1> DEFINE Fits(r) ==
              /\ pc[r] \in {"new", "begun", "performing"} => result[r] = "none"
              /\ pc[r] = "result" => result[r] \in {"ok", "error", "timeout", "aborted"}
              /\ pc[r] = "headers" => result[r] = "ok"
              /\ pc[r] \in {"clean", "done"} => result[r] \in {"ok", "failed"}
              /\ call[r] # "no" => /\ pc[r] \in {"performing", "headers", "clean", "ending"}
                                   /\ result[r] # "thrown"
<1>f. \A r \in Request : Fits(r)
      BY DEF Results
<1>o. ASSUME NEW r \in Request, Fits(r)',
             \A q \in Request : q # r =>
                pc'[q] = pc[q] /\ result'[q] = result[q] /\ call'[q] = call[q]
      PROVE  Results'
  <2>1. ASSUME NEW q \in Request, q # r  PROVE Fits(q)'
        BY <1>f, <1>o, <2>1
  <2> HIDE DEF Fits
  <2>2. \A q \in Request : Fits(q)'
        BY <1>o, <2>1
  <2> QED BY <2>2 DEF Results, Fits
<1>v. ASSUME UNCHANGED <<pc, call, result>>  PROVE Results'
      BY <1>v DEF Results
<1>1. ASSUME NEW r \in Request, NEW async \in BOOLEAN, Send(r, async) PROVE Results'
  <2>1. pc[r] = "new"
        BY <1>1, NextIsNew DEF Send, Begin
  <2>2. pc' = [pc EXCEPT ![r] = "begun"] /\ UNCHANGED <<call, result>>
        BY <1>1 DEF Send, Begin, Goto
  <2> QED BY <1>f, <1>o, <1>t, <2>1, <2>2
<1>2. ASSUME NEW r \in Request, Initialize(r) PROVE Results'
  <2>1. pc[r] = "begun" /\ pc' = [pc EXCEPT ![r] = "performing"] /\ UNCHANGED <<call, result>>
        BY <1>2 DEF Initialize, Runs, Goto
  <2> QED BY <1>f, <1>o, <1>t, <2>1
<1>3. ASSUME NEW r \in Request, HandleFailure(r) PROVE Results'
  <2>1. /\ pc' = [pc EXCEPT ![r] = "clean"] /\ result' = [result EXCEPT ![r] = "failed"]
        /\ call' = [call EXCEPT ![r] = "asks"] \/ UNCHANGED call
        BY <1>3 DEF HandleFailure, Goto, Asks
  <2> QED BY <1>f, <1>o, <1>t, <2>1
<1>4. ASSUME NEW r \in Request, ShowHeaders(r) PROVE Results'
  <2>1. /\ pc[r] = "result" /\ result[r] = "ok" /\ UNCHANGED result
        /\ pc' = [pc EXCEPT ![r] = "headers"] /\ call' = [call EXCEPT ![r] = "asks"]
        BY <1>4 DEF ShowHeaders, Shows, Runs, Goto, Asks
  <2> QED BY <1>f, <1>o, <1>t, <2>1
<1>5. ASSUME NEW r \in Request, ShowLoading(r) PROVE Results'
  <2>1. /\ pc[r] = "headers" /\ UNCHANGED result
        /\ pc' = [pc EXCEPT ![r] = "clean"] /\ call' = [call EXCEPT ![r] = "asks"]
        BY <1>5 DEF ShowLoading, Shows, Runs, Goto, Asks
  <2> QED BY <1>f, <1>o, <1>t, <2>1
<1>6. ASSUME NEW r \in Request, Clean(r) PROVE Results'
  <2>1. /\ pc[r] = "clean" /\ call[r] = "no" /\ UNCHANGED <<call, result>>
        /\ pc' = [pc EXCEPT ![r] = "done"]
        BY <1>6 DEF Clean, Runs, Goto
  <2> QED BY <1>f, <1>o, <1>t, <2>1
<1>7. ASSUME NEW r \in Request, ShowDone(r) PROVE Results'
  <2>1. /\ pc[r] = "done" /\ UNCHANGED result
        /\ pc' = [pc EXCEPT ![r] = "ending"] /\ call' = [call EXCEPT ![r] = "asks"]
        BY <1>7 DEF ShowDone, Shows, Runs, Goto, Asks
  <2> QED BY <1>f, <1>o, <1>t, <2>1
<1>8. ASSUME NEW r \in Request, Catch(r) PROVE Results'
  <2>1. call[r] = "no" /\ UNCHANGED <<call, result>> /\ pc' = [pc EXCEPT ![r] = "ending"]
        BY <1>8 DEF Catch, Runs, Goto
  <2> QED BY <1>f, <1>o, <1>t, <2>1
<1>9. ASSUME NEW r \in Request, Over(r) PROVE Results'
  <2>1. /\ call[r] = "no" /\ UNCHANGED call /\ pc' = [pc EXCEPT ![r] = "over"]
        /\ result' = [result EXCEPT ![r] = IF @ = "thrown" THEN @ ELSE "none"]
        BY <1>9 DEF Over, Runs, Goto
  <2> QED BY <1>f, <1>o, <1>t, <2>1
<1>10. ASSUME NEW r \in Request, RunHandler(r) \/ Returns(r) PROVE Results'
  <2>1. /\ call[r] # "no" /\ UNCHANGED <<pc, result>>
        /\ call' = [call EXCEPT ![r] = "in"] \/ call' = [call EXCEPT ![r] = "no"]
        BY <1>10 DEF RunHandler, Returns
  <2> QED BY <1>f, <1>o, <1>t, <2>1
<1>11. ASSUME NEW r \in Request, Throws(r) PROVE Results'
  <2>1. /\ pc' = [pc EXCEPT ![r] = "caught"] /\ call' = [call EXCEPT ![r] = "no"]
        /\ result' = [result EXCEPT ![r] = "thrown"] \/ UNCHANGED result
        BY <1>11 DEF Throws, Goto
  <2> QED BY <1>o, <1>t, <2>1
<1>12. ASSUME NEW r \in Request, HeaderLine(r) \/ HeaderEnd(r) PROVE Results'
      BY <1>12, <1>v DEF HeaderLine, HeaderEnd, execution
<1>13. ASSUME NEW r \in Request, Data(r) PROVE Results'
  <2>1. /\ pc[r] = "performing" /\ UNCHANGED <<pc, result>>
        /\ call' = [call EXCEPT ![r] = "asks"]
        BY <1>13 DEF Data, Runs, Asks
  <2> QED BY <1>f, <1>o, <1>t, <2>1
<1>14. ASSUME NEW r \in Request, NEW code \in {"ok", "error", "timeout", "aborted"}, Ends(r, code)
       PROVE  Results'
  <2>1. /\ call[r] = "no" /\ UNCHANGED call /\ pc' = [pc EXCEPT ![r] = "result"]
        /\ result' = [result EXCEPT ![r] = code]
        BY <1>14 DEF Ends, Runs, Goto
  <2> QED BY <1>f, <1>o, <1>t, <2>1
<1>15. CASE Open \/ Abort \/ UNCHANGED vars
      BY <1>15, <1>v DEF Open, Abort, execution, vars
<1> QED BY <1>1, <1>2, <1>3, <1>4, <1>5, <1>6, <1>7, <1>8, <1>9, <1>10, <1>11, <1>12, <1>13,
           <1>14, <1>15
        DEF Next, Step, Handler, Transfer, TimesOut, Progress, Completes, Fails

-----------------------------------------------------------------------------
(* The refinement.                                                          *)

\* A step of a request leaves the others alone.
Others(r) ==
    \A q \in Request \ {r} :
        /\ pc'[q] = pc[q] /\ call'[q] = call[q] /\ result'[q] = result[q]
        /\ blocks'[q] = blocks[q] /\ parts'[q] = parts[q]

\* It does, whatever it is.
LEMMA OthersStay ==
    ASSUME TypeOK, NEW r \in Request,
           \/ Step(r) \/ Handler(r) \/ Transfer(r) \/ TimesOut(r) \/ Progress(r)
           \/ \E async \in BOOLEAN : Send(r, async)
    PROVE  Others(r)
<1> USE DEF Others
<1>t. /\ DOMAIN pc = Request /\ DOMAIN result = Request /\ DOMAIN call = Request
      /\ DOMAIN blocks = Request /\ DOMAIN parts = Request
      BY DEF TypeOK
<1>1. ASSUME NEW async \in BOOLEAN, Send(r, async) PROVE Others(r)
      BY <1>1, <1>t DEF Send, Begin, Goto
<1>2. CASE Initialize(r)
      BY <1>2, <1>t DEF Initialize, Goto
<1>3. CASE HandleFailure(r)
      BY <1>3, <1>t DEF HandleFailure, Goto, Asks
<1>4. CASE ShowHeaders(r) \/ ShowLoading(r) \/ ShowDone(r)
      BY <1>4, <1>t DEF ShowHeaders, ShowLoading, ShowDone, Shows, Goto, Asks
<1>5. CASE Clean(r)
      BY <1>5, <1>t DEF Clean, Goto
<1>6. CASE Catch(r)
      BY <1>6, <1>t DEF Catch, Goto
<1>7. CASE Over(r)
      BY <1>7, <1>t DEF Over, Goto
<1>8. CASE RunHandler(r) \/ Returns(r)
      BY <1>8, <1>t DEF RunHandler, Returns
<1>9. CASE Throws(r)
      BY <1>9, <1>t DEF Throws, Goto
<1>10. CASE HeaderLine(r) \/ HeaderEnd(r)
      BY <1>10, <1>t DEF HeaderLine, HeaderEnd, execution
<1>11. CASE Data(r)
      BY <1>11, <1>t DEF Data, Asks
<1>12. ASSUME NEW code, Ends(r, code) PROVE Others(r)
      BY <1>12, <1>t DEF Ends, Goto
<1> QED BY <1>1, <1>2, <1>3, <1>4, <1>5, <1>6, <1>7, <1>8, <1>9, <1>10, <1>11, <1>12
        DEF Step, Handler, Transfer, TimesOut, Progress, Completes, Fails

\* What the application sees of a request depends on its place and its result.
Phase(at, code) ==
    CASE at = "new" -> "unsent"
      [] at \in {"begun", "performing"} -> "sent"
      [] at = "result" -> IF code = "ok" THEN "sent" ELSE "failed"
      [] at = "headers" -> "headers"
      [] at \in {"clean", "done"} -> IF code = "ok" THEN "loaded" ELSE "failed"
      [] OTHER -> IF code = "thrown" THEN "broken" ELSE "done"

\* A step of a request changes the phase of this request at most.
LEMMA PhaseMoves ==
    ASSUME NEW r \in Request, Others(r)
    PROVE  /\ phase[r] = Phase(pc[r], result[r])
           /\ phase' = [phase EXCEPT ![r] = Phase(pc'[r], result'[r])]
<1>1. phase = [q \in Request |-> Phase(pc[q], result[q])]
      BY DEF phase, Phase
<1>2. phase' = [q \in Request |-> Phase(pc'[q], result'[q])]
      BY DEF phase, Phase
<1>3. ASSUME NEW q \in Request, q # r  PROVE phase'[q] = phase[q]
      BY <1>1, <1>2, <1>3 DEF Others
<1>4. phase'[r] = Phase(pc'[r], result'[r]) /\ phase[r] = Phase(pc[r], result[r])
      BY <1>1, <1>2
<1>5. phase' = [phase EXCEPT ![r] = phase'[r]]
  <2> HIDE DEF phase
  <2>1. DOMAIN phase = Request
        BY <1>1, <1>2
  <2>2. ASSUME NEW q \in Request  PROVE phase'[q] = [phase EXCEPT ![r] = phase'[r]][q]
        BY <1>3, <2>1, <2>2
  <2> QED BY <1>1, <1>2, <2>2
<1> QED BY <1>4, <1>5

\* A step that leaves the phase of its request changes nothing that is promised.
LEMMA PhaseStays ==
    ASSUME NEW r \in Request, Others(r), Phase(pc'[r], result'[r]) = Phase(pc[r], result[r])
    PROVE  UNCHANGED phase
<1>1. phase' = [phase EXCEPT ![r] = phase[r]]
      BY PhaseMoves
<1>2. phase = [q \in Request |-> Phase(pc[q], result[q])]
      BY DEF phase, Phase
<1> HIDE DEF phase
<1>3. phase = [q \in Request |-> phase[q]]
      BY <1>2
<1>4. [phase EXCEPT ![r] = phase[r]] = phase
      BY ONLY <1>3
<1> QED BY <1>1, <1>4

\* Every step shows the application what it is promised, or nothing.
LEMMA Keeps ==
    ASSUME HTTPAssumption, TypeOK, Results, Numbers, [Next]_vars
    PROVE  [Promise!Next]_(Promise!vars)
<1> DEFINE Kept == Promise!Next \/ UNCHANGED <<phase, readyState>>
<1>k. Kept => [Promise!Next]_(Promise!vars)
      BY DEF Promise!vars
<1>g. ASSUME NEW r \in Request, Others(r), NEW from, Phase(pc[r], result[r]) \in from,
             NEW to, Phase(pc'[r], result'[r]) = to
      PROVE  Promise!Goes(r, from, to)
      BY <1>g, PhaseMoves DEF Promise!Goes
<1>s. ASSUME NEW r \in Request, Others(r), UNCHANGED readyState,
             Phase(pc'[r], result'[r]) = Phase(pc[r], result[r])
      PROVE  Kept
      BY <1>s, PhaseStays
<1>t. /\ DOMAIN pc = Request /\ DOMAIN result = Request
      BY DEF TypeOK
<1> HIDE DEF Kept
<1>1. ASSUME NEW r \in Request, NEW async \in BOOLEAN, Send(r, async), Others(r) PROVE Kept
  <2>1. pc[r] = "new"
        BY <1>1, NextIsNew DEF Send, Begin
  <2>2. pc'[r] = "begun" /\ UNCHANGED readyState
        BY <1>1, <1>t DEF Send, Begin, Goto
  <2>3. Phase(pc[r], result[r]) = "unsent" /\ Phase(pc'[r], result'[r]) = "sent"
        BY <2>1, <2>2 DEF Phase
  <2>4. Promise!Goes(r, {"unsent"}, "sent")
        BY <1>1, <1>g, <2>3
  <2> QED BY <2>2, <2>4 DEF Kept, Promise!Next, Promise!Send
<1>2. ASSUME NEW r \in Request, Initialize(r), Others(r) PROVE Kept
  <2>1. pc[r] = "begun" /\ pc'[r] = "performing" /\ UNCHANGED readyState
        BY <1>2, <1>t DEF Initialize, Runs, Goto
  <2> QED BY <1>2, <1>s, <2>1 DEF Phase
<1>3. ASSUME NEW r \in Request, HandleFailure(r), Others(r) PROVE Kept
  <2>1. /\ pc[r] = "result" /\ pc'[r] = "clean" /\ UNCHANGED readyState
        /\ result[r] # "ok" /\ result'[r] = "failed"
        BY <1>3, <1>t DEF HandleFailure, Runs, Goto, shown
  <2> QED BY <1>3, <1>s, <2>1 DEF Phase
<1>4. ASSUME NEW r \in Request, ShowHeaders(r), Others(r) PROVE Kept
  <2>1. /\ pc[r] = "result" /\ pc'[r] = "headers" /\ readyState' = 2
        /\ result[r] = "ok"
        BY <1>4, <1>t DEF ShowHeaders, Shows, Runs, Goto
  <2>2. Phase(pc[r], result[r]) = "sent" /\ Phase(pc'[r], result'[r]) = "headers"
        BY <2>1 DEF Phase
  <2>3. Promise!Goes(r, {"sent"}, "headers")
        BY <1>4, <1>g, <2>2
  <2> QED BY <2>1, <2>3 DEF Kept, Promise!Next, Promise!Answered, Promise!HEADERS_RECEIVED
<1>5. ASSUME NEW r \in Request, ShowLoading(r), Others(r) PROVE Kept
  <2>1. /\ pc[r] = "headers" /\ pc'[r] = "clean" /\ readyState' = 3
        /\ result[r] = "ok" /\ UNCHANGED result
        BY <1>5, <1>t DEF ShowLoading, Shows, Runs, Goto, Results
  <2>2. Phase(pc[r], result[r]) = "headers" /\ Phase(pc'[r], result'[r]) = "loaded"
        BY <2>1 DEF Phase
  <2>3. Promise!Goes(r, {"headers"}, "loaded")
        BY <1>5, <1>g, <2>2
  <2> QED BY <2>1, <2>3 DEF Kept, Promise!Next, Promise!Loaded, Promise!LOADING
<1>6. ASSUME NEW r \in Request, Clean(r), Others(r) PROVE Kept
  <2>1. pc[r] = "clean" /\ pc'[r] = "done" /\ UNCHANGED <<readyState, result>>
        BY <1>6, <1>t DEF Clean, Runs, Goto
  <2> QED BY <1>6, <1>s, <2>1 DEF Phase
<1>7. ASSUME NEW r \in Request, ShowDone(r), Others(r) PROVE Kept
  <2>1. /\ pc[r] = "done" /\ pc'[r] = "ending" /\ readyState' = 4
        /\ result[r] \in {"ok", "failed"} /\ UNCHANGED result
        BY <1>7, <1>t DEF ShowDone, Shows, Runs, Goto, Results
  <2>2. Phase(pc[r], result[r]) \in {"loaded", "failed"} /\ Phase(pc'[r], result'[r]) = "done"
        BY <2>1 DEF Phase
  <2>3. Promise!Goes(r, {"loaded", "failed"}, "done")
        BY <1>7, <1>g, <2>2
  <2> QED BY <2>1, <2>3 DEF Kept, Promise!Next, Promise!Done, Promise!DONE
<1>8. ASSUME NEW r \in Request, Catch(r), Others(r) PROVE Kept
  <2>1. pc[r] = "caught" /\ pc'[r] = "ending" /\ UNCHANGED <<readyState, result>>
        BY <1>8, <1>t DEF Catch, Runs, Goto, shown
  <2> QED BY <1>8, <1>s, <2>1 DEF Phase
<1>9. ASSUME NEW r \in Request, Over(r), Others(r) PROVE Kept
  <2>1. /\ pc[r] = "ending" /\ pc'[r] = "over" /\ UNCHANGED readyState
        /\ result'[r] = "thrown" <=> result[r] = "thrown"
        BY <1>9, <1>t DEF Over, Runs, Goto, shown
  <2> QED BY <1>9, <1>s, <2>1 DEF Phase
<1>10. ASSUME NEW r \in Request, RunHandler(r) \/ Returns(r), Others(r) PROVE Kept
  <2>1. UNCHANGED <<pc, result, readyState>>
        BY <1>10 DEF RunHandler, Returns, shown
  <2> QED BY <1>10, <1>s, <2>1
<1>11. ASSUME NEW r \in Request, Throws(r), Others(r) PROVE Kept
  <2>1. /\ pc'[r] = "caught" /\ UNCHANGED readyState
        /\ pc[r] \in {"performing", "headers", "clean", "ending"} /\ result[r] # "thrown"
        /\ ~(pc[r] = "clean" /\ result[r] # "ok")
        BY <1>11, <1>t DEF Throws, Goto, Results, shown
  <2>2. CASE pc[r] = "ending"
    <3>1. UNCHANGED result
          BY <1>11, <2>2 DEF Throws
    <3> QED BY <1>11, <1>s, <2>1, <2>2, <3>1 DEF Phase
  <2>3. CASE pc[r] # "ending"
    <3>1. result'[r] = "thrown"
          BY <1>11, <1>t, <2>3 DEF Throws
    <3>2. /\ Phase(pc[r], result[r]) \in {"sent", "headers", "loaded"}
          /\ Phase(pc'[r], result'[r]) = "broken"
          BY <2>1, <2>3, <3>1 DEF Phase
    <3>3. Promise!Goes(r, {"sent", "headers", "loaded"}, "broken")
          BY <1>11, <1>g, <3>2
    <3> QED BY <2>1, <3>3 DEF Kept, Promise!Next, Promise!Breaks
  <2> QED BY <2>2, <2>3
<1>12. ASSUME NEW r \in Request, HeaderLine(r) \/ HeaderEnd(r) \/ Data(r), Others(r) PROVE Kept
  <2>1. UNCHANGED <<pc, result, readyState>>
        BY <1>12 DEF HeaderLine, HeaderEnd, Data, execution, shown
  <2> QED BY <1>12, <1>s, <2>1
<1>13. ASSUME NEW r \in Request, NEW code, Ends(r, code), Others(r) PROVE Kept
  <2>1. /\ pc[r] = "performing" /\ pc'[r] = "result" /\ UNCHANGED readyState
        /\ result'[r] = code
        BY <1>13, <1>t DEF Ends, Runs, Goto, shown
  <2>2. CASE code = "ok"
        BY <1>13, <1>s, <2>1, <2>2 DEF Phase
  <2>3. CASE code # "ok"
    <3>1. Phase(pc[r], result[r]) = "sent" /\ Phase(pc'[r], result'[r]) = "failed"
          BY <2>1, <2>3 DEF Phase
    <3>2. Promise!Goes(r, {"sent"}, "failed")
          BY <1>13, <1>g, <3>1
    <3> QED BY <2>1, <3>2 DEF Kept, Promise!Next, Promise!Fails
  <2> QED BY <2>2, <2>3
<1>14. CASE Open
  <2>1. UNCHANGED phase /\ readyState' = 1
        BY <1>14 DEF Open, execution, phase
  <2> QED BY <2>1 DEF Kept, Promise!Next, Promise!Open, Promise!OPENED
<1>15. CASE Abort \/ UNCHANGED vars
  <2>1. UNCHANGED phase /\ UNCHANGED readyState
        BY <1>15 DEF Abort, vars, execution, phase, shown
  <2> QED BY <1>k, <2>1 DEF Kept
<1> QED BY <1>k, <1>1, <1>2, <1>3, <1>4, <1>5, <1>6, <1>7, <1>8, <1>9, <1>10, <1>11, <1>12,
           <1>13, <1>14, <1>15, OthersStay
        DEF Next, Step, Handler, Transfer, TimesOut, Progress, Completes, Fails

-----------------------------------------------------------------------------
(* The handle.                                                              *)

\* What happened once has happened.
LEMMA HistoryStays ==
    ASSUME [Next]_vars PROVE (lateThrow => lateThrow') /\ (cut => cut')
<1> DEFINE Stays == (lateThrow => lateThrow') /\ (cut => cut')
<1> USE DEF history
<1>1. ASSUME NEW r \in Request, Step(r) PROVE Stays
      BY <1>1 DEF Step, Initialize, HandleFailure, ShowHeaders, ShowLoading, ShowDone, Shows,
         Clean, Catch, Over
<1>2. ASSUME NEW r \in Request, RunHandler(r) \/ Returns(r) PROVE Stays
      BY <1>2 DEF RunHandler, Returns
<1>3. ASSUME NEW r \in Request, Throws(r) PROVE Stays
  <2>1. cut' = (cut \/ nextHeaders # {})
        BY <1>3 DEF Throws
  <2>2. lateThrow => lateThrow'
        BY <1>3 DEF Throws
  <2> QED BY <2>1, <2>2, Zenon
<1>5. ASSUME NEW r \in Request, HeaderLine(r) \/ HeaderEnd(r) \/ Data(r) PROVE Stays
      BY <1>5 DEF HeaderLine, HeaderEnd, Data
<1>6. ASSUME NEW r \in Request, NEW code, Ends(r, code) PROVE Stays
  <2>1. cut' = (cut \/ nextHeaders # {}) /\ lateThrow' = lateThrow
        BY <1>6 DEF Ends
  <2> QED BY <2>1
<1>4. ASSUME NEW r \in Request, NEW async, Send(r, async) PROVE Stays
      BY <1>4 DEF Send, Begin
<1> QED BY <1>1, <1>2, <1>3, <1>4, <1>5, <1>6
        DEF Next, Open, Abort, vars, Handler, Transfer, TimesOut, Progress, Completes, Fails

\* An application that begins no request in a gap begins one when none is active.
LEMMA NoneActive ==
    ASSUME TypeOK, Held, Patient, ~lateThrow, NEW r \in Request, NEW async, Send(r, async)
    PROVE  \A q \in Request : ~Active(q)
<1> SUFFICES ASSUME NEW q \in Request PROVE ~Active(q)
    OBVIOUS
<1>1. curlHandle = NoRequest /\ ~InGap(q)
      BY DEF Send, Begin
<1>2. q # NoRequest
      BY DEF Request, NoRequest
<1>3. ~Holding(q)
      BY <1>1, <1>2 DEF Held
<1> QED BY <1>1, <1>3 DEF Active, InGap, AboutToShow

\* At most one request is active, and it has the client's handle.
LEMMA HeldNext ==
    ASSUME HTTPAssumption, TypeOK, Results, Numbers, Held, Patient, [Next]_vars PROVE Held'
<1>0. SUFFICES ASSUME ~lateThrow' PROVE Held'
      BY DEF Held
<1>l. ~lateThrow
      BY <1>0, HistoryStays
<1>h. ASSUME NEW r \in Request
      PROVE  /\ Holding(r) => curlHandle = r
             /\ Active(r) => \A q \in Request : Active(q) => q = r
             /\ Holding(r) \/ pc[r] \in {"new", "begun"} => r \notin freed
      BY <1>l DEF Held
<1>t. DOMAIN pc = Request /\ DOMAIN call = Request
      BY DEF TypeOK
<1>o. ASSUME NEW r \in Request, Others(r), NEW q \in Request, q # r
      PROVE  Active(q)' = Active(q) /\ Holding(q)' = Holding(q) /\ pc'[q] = pc[q]
      BY <1>o DEF Others, Active, Holding, AboutToShow
<1>m. ASSUME NEW r \in Request, Others(r), UNCHANGED curlHandle, freed' \subseteq freed,
             Active(r)' => Active(r), Holding(r)' => Holding(r), pc'[r] # "new", pc'[r] # "begun"
      PROVE  Held'
  <2>1. ASSUME NEW q \in Request
        PROVE  /\ Active(q)' => Active(q)
               /\ Holding(q)' => Holding(q)
               /\ pc'[q] \in {"new", "begun"} => pc[q] \in {"new", "begun"}
    <3>1. CASE q = r
          BY <1>m, <3>1
    <3>2. CASE q # r
          BY <1>m, <1>o, <3>2
    <3> QED BY <3>1, <3>2
  <2>2. ASSUME NEW q \in Request
        PROVE  /\ Holding(q)' => curlHandle' = q
               /\ Holding(q)' \/ pc'[q] \in {"new", "begun"} => q \notin freed'
        BY <1>h, <1>m, <2>1
  <2>3. ASSUME NEW q \in Request, NEW p \in Request, Active(q)', Active(p)'  PROVE p = q
        BY <1>h, <2>1, <2>3
  <2> HIDE <1>m
  <2> QED BY <2>2, <2>3 DEF Held
<1>v. ASSUME UNCHANGED <<pc, call, curlHandle, freed>>  PROVE Held'
      BY <1>v, <1>h DEF Held, Active, Holding, AboutToShow
<1>1. ASSUME NEW r \in Request, NEW async \in BOOLEAN, Send(r, async), Others(r) PROVE Held'
  <2>1. pc[r] = "new"
        BY <1>1, NextIsNew DEF Send, Begin
  <2>2. pc'[r] = "begun" /\ UNCHANGED <<curlHandle, freed>>
        BY <1>1, <1>t DEF Send, Begin, Goto
  <2>3. \A q \in Request : ~Active(q)
        BY <1>1, <1>l, NoneActive
  <2>4. ASSUME NEW q \in Request, q # r  PROVE ~Active(q)' /\ ~Holding(q)' /\ pc'[q] = pc[q]
        BY <1>1, <1>o, <2>3, <2>4 DEF Active
  <2>5. ~Holding(r)'
        BY <2>2 DEF Holding
  <2> QED BY <1>h, <2>1, <2>2, <2>4, <2>5 DEF Held
<1>2. ASSUME NEW r \in Request, Initialize(r), Others(r) PROVE Held'
  <2>1. pc[r] = "begun" /\ pc'[r] = "performing" /\ curlHandle' = r /\ UNCHANGED freed
        BY <1>2, <1>t DEF Initialize, Runs, Goto
  <2>2. Active(r)
        BY <2>1 DEF Active
  <2>3. ASSUME NEW q \in Request, q # r  PROVE ~Active(q)' /\ ~Holding(q)' /\ pc'[q] = pc[q]
        BY <1>2, <1>h, <1>o, <2>2, <2>3 DEF Active
  <2> QED BY <1>h, <2>1, <2>3 DEF Held
<1>3. ASSUME NEW r \in Request, HandleFailure(r), Others(r) PROVE Held'
  <2>1. /\ pc[r] = "result" /\ pc'[r] = "clean" /\ UNCHANGED <<curlHandle, freed>>
        BY <1>3, <1>t DEF HandleFailure, Runs, Goto
  <2> QED BY <1>3, <1>m, <2>1 DEF Active, Holding
<1>4. ASSUME NEW r \in Request, ShowHeaders(r) \/ ShowLoading(r), Others(r) PROVE Held'
  <2>1. /\ pc[r] \in {"result", "headers"} /\ pc'[r] \in {"headers", "clean"}
        /\ UNCHANGED <<curlHandle, freed>>
        BY <1>4, <1>t DEF ShowHeaders, ShowLoading, Shows, Runs, Goto
  <2> QED BY <1>4, <1>m, <2>1 DEF Active, Holding
<1>5. ASSUME NEW r \in Request, ShowDone(r), Others(r) PROVE Held'
  <2>1. pc[r] = "done" /\ pc'[r] = "ending" /\ UNCHANGED <<curlHandle, freed>>
        BY <1>5, <1>t DEF ShowDone, Shows, Runs, Goto
  <2> QED BY <1>5, <1>m, <2>1 DEF Active, Holding
<1>6. ASSUME NEW r \in Request, Clean(r) \/ Catch(r), Others(r) PROVE Held'
  <2>1. /\ pc[r] \in {"clean", "caught"} /\ pc'[r] \in {"done", "ending"} /\ CleanupCurl
        /\ pc'[r] = "ending" => call'[r] = "no"
        BY <1>6, <1>t DEF Clean, Catch, Runs, Goto
  <2>2. Active(r) /\ Holding(r) /\ ~Holding(r)'
        BY <2>1 DEF Active, Holding
  <2>3. curlHandle' = NoRequest /\ freed' \subseteq freed \cup {r}
        BY <1>h, <2>1, <2>2 DEF CleanupCurl
  <2>4. ASSUME NEW q \in Request, q # r  PROVE ~Active(q)' /\ ~Holding(q)' /\ pc'[q] = pc[q]
        BY <1>6, <1>h, <1>o, <2>2, <2>4 DEF Active
  <2> QED BY <1>h, <2>1, <2>2, <2>3, <2>4 DEF Held
<1>7. ASSUME NEW r \in Request, Over(r), Others(r) PROVE Held'
  <2>1. pc'[r] = "over" /\ UNCHANGED curlHandle /\ freed' \subseteq freed
        BY <1>7, <1>t DEF Over, Goto
  <2> QED BY <1>7, <1>m, <2>1 DEF Active, Holding, AboutToShow
<1>8. ASSUME NEW r \in Request, RunHandler(r) \/ Returns(r), Others(r) PROVE Held'
  <2>1. /\ UNCHANGED <<pc, curlHandle, freed>> /\ call'[r] \in {"in", "no"} /\ call[r] # "no"
        BY <1>8, <1>t DEF RunHandler, Returns
  <2>2. pc[r] # "new" /\ pc[r] # "begun"
        BY <2>1 DEF Results
  <2> QED BY <1>8, <1>m, <2>1, <2>2 DEF Active, Holding, AboutToShow
<1>9. ASSUME NEW r \in Request, Throws(r), Others(r) PROVE Held'
  <2>1. /\ pc'[r] = "caught" /\ UNCHANGED <<curlHandle, freed>> /\ pc[r] # "ending"
        /\ call[r] # "no"
        BY <1>0, <1>9, <1>t DEF Throws, Goto
  <2>2. Holding(r)
        BY <2>1 DEF Results, Holding
  <2> QED BY <1>9, <1>m, <2>1, <2>2 DEF Active
<1>10. ASSUME NEW r \in Request, HeaderLine(r) \/ HeaderEnd(r) PROVE Held'
      BY <1>10, <1>v DEF HeaderLine, HeaderEnd, execution
<1>11. ASSUME NEW r \in Request, Data(r), Others(r) PROVE Held'
  <2>1. pc[r] = "performing" /\ UNCHANGED <<pc, curlHandle, freed>>
        BY <1>11 DEF Data, Runs
  <2> QED BY <1>11, <1>m, <2>1 DEF Active, Holding
<1>12. ASSUME NEW r \in Request, NEW code, Ends(r, code), Others(r) PROVE Held'
  <2>1. pc[r] = "performing" /\ pc'[r] = "result" /\ UNCHANGED <<curlHandle, freed>>
        BY <1>12, <1>t DEF Ends, Runs, Goto
  <2> QED BY <1>12, <1>m, <2>1 DEF Active, Holding
<1>13. CASE Open \/ Abort \/ UNCHANGED vars
      BY <1>13, <1>v DEF Open, Abort, execution, vars
<1> QED BY <1>1, <1>2, <1>3, <1>4, <1>5, <1>6, <1>7, <1>8, <1>9, <1>10, <1>11, <1>12,
           <1>13, OthersStay
        DEF Next, Step, Handler, Transfer, TimesOut, Progress, Completes, Fails

-----------------------------------------------------------------------------
(* The answers.                                                             *)

\* A request that has not begun has received nothing.
LEMMA FreshNext ==
    ASSUME HTTPAssumption, TypeOK, Results, Numbers, Fresh, [Next]_vars PROVE Fresh'
<1>t. DOMAIN pc = Request /\ DOMAIN blocks = Request /\ DOMAIN parts = Request
      BY DEF TypeOK
<1>m. ASSUME NEW r \in Request, Others(r),
             pc'[r] \in {"new", "begun"} =>
                pc[r] \in {"new", "begun"} /\ blocks'[r] = blocks[r] /\ parts'[r] = parts[r]
      PROVE  Fresh'
      BY <1>m DEF Fresh, Others
<1>1. ASSUME NEW r \in Request, NEW async \in BOOLEAN, Send(r, async), Others(r) PROVE Fresh'
  <2>1. pc[r] = "new" /\ UNCHANGED <<blocks, parts>>
        BY <1>1, NextIsNew DEF Send, Begin
  <2> QED BY <1>1, <1>m, <2>1
<1>2. ASSUME NEW r \in Request, Step(r) \/ Throws(r), Others(r) PROVE Fresh'
  <2>1. pc'[r] \notin {"new", "begun"}
        BY <1>2, <1>t DEF Step, Initialize, HandleFailure, ShowHeaders, ShowLoading, ShowDone,
           Shows, Clean, Catch, Over, Throws, Goto
  <2> QED BY <1>2, <1>m, <2>1
<1>3. ASSUME NEW r \in Request, RunHandler(r) \/ Returns(r) PROVE Fresh'
      BY <1>3 DEF RunHandler, Returns, Fresh
<1>4. ASSUME NEW r \in Request, Transfer(r) \/ TimesOut(r) \/ Progress(r), Others(r) PROVE Fresh'
  <2>1. pc'[r] \notin {"new", "begun"}
        BY <1>4, <1>t, TransferMoves
  <2> QED BY <1>4, <1>m, <2>1
<1>5. CASE Open \/ Abort \/ UNCHANGED vars
      BY <1>5 DEF Open, Abort, vars, execution, Fresh
<1> QED BY <1>1, <1>2, <1>3, <1>4, <1>5, OthersStay DEF Next, Handler

\* The parts of a request that has received none.
LEMMA ReceivedNone ==
    ASSUME NEW r \in Request, parts[r] = 0
    PROVE  Received(r) = <<>>
<1>1. Received(r) \in [1..0 -> {}]
      BY DEF Received
<1>2. Received(r) \in Seq({}) /\ Len(Received(r)) = 0
      BY <1>1, IsASeq
<1> QED BY <1>2, EmptySeq

\* The parts of a request that has received one more.
LEMMA ReceivedMore ==
    ASSUME NEW r \in Request, parts[r] \in Nat, parts'[r] = parts[r] + 1
    PROVE  Received(r)' = Append(Received(r), <<r, parts[r] + 1>>)
<1> DEFINE S == Request \X Nat
           s == Received(r)
           e == <<r, parts[r] + 1>>
           t == [k \in 1..(parts[r] + 1) |-> <<r, k>>]
<1>1. s \in [1..parts[r] -> S] /\ t \in [1..(parts[r] + 1) -> S] /\ e \in S
      BY DEF Received
<1>2. \A k \in 1..parts[r] : s[k] = <<r, k>>
      BY DEF Received
<1>3. \A k \in 1..(parts[r] + 1) : t[k] = <<r, k>>
      OBVIOUS
<1>4. Received(r)' = t
      BY DEF Received
<1> HIDE DEF S, s, e, t
<1>5. s \in Seq(S) /\ Len(s) = parts[r]
      BY <1>1, IsASeq
<1>n. parts[r] + 1 \in Nat
      OBVIOUS
<1>6. t \in Seq(S) /\ Len(t) = parts[r] + 1
      BY <1>1, <1>n, IsASeq
<1>7. /\ Append(s, e) \in Seq(S) /\ Len(Append(s, e)) = Len(s) + 1
      /\ \A k \in 1..Len(s) : Append(s, e)[k] = s[k]
      /\ Append(s, e)[Len(s) + 1] = e
      BY <1>1, <1>5, AppendProperties
<1>8. ASSUME NEW k \in 1..(parts[r] + 1)  PROVE Append(s, e)[k] = t[k]
  <2>1. CASE k \in 1..parts[r]
        BY <1>2, <1>3, <1>5, <1>7, <2>1
  <2>2. CASE k = parts[r] + 1
    <3>1. Append(s, e)[k] = e
          BY <1>5, <1>7, <2>2
    <3>2. t[k] = <<r, parts[r] + 1>>
          BY <1>3, <1>n, <2>2
    <3>3. e = <<r, parts[r] + 1>>
          BY DEF e
    <3> QED BY ONLY <3>1, <3>2, <3>3
  <2>3. k \in 1..parts[r] \/ k = parts[r] + 1
        BY ONLY parts[r] \in Nat, k \in 1..(parts[r] + 1)
  <2> QED BY <2>1, <2>2, <2>3
<1>9. Append(s, e) = t
      BY <1>5, <1>6, <1>7, <1>8, SeqEqual
<1> QED BY <1>4, <1>9 DEF s, e

\* What the client has received belongs to the one request that is active.
LEMMA OwnedNext ==
    ASSUME HTTPAssumption, TypeOK, Results, Numbers, Fresh, Held, Owned, Patient, [Next]_vars
    PROVE  Owned'
<1>0. SUFFICES ASSUME ~lateThrow' PROVE Owned'
      BY DEF Owned
<1>l. ~lateThrow
      BY <1>0, HistoryStays
<1>t. /\ DOMAIN pc = Request /\ DOMAIN call = Request /\ DOMAIN parts = Request
      /\ \A r \in Request : parts[r] \in Nat
      BY DEF TypeOK, HTTPAssumption
<1> DEFINE Gathers(r) == pc[r] \in {"begun", "performing", "result", "headers", "clean"}
           HasShown(r) == pc[r] = "done" \/ AboutToShow(r)
           Own(r) == /\ Gathers(r) => responseData = Received(r) /\ shownData = <<>>
                     /\ HasShown(r) => shownData = Received(r)
<1>f. \A r \in Request : Own(r)
      BY <1>l DEF Owned
<1>a. ASSUME NEW r \in Request, Active(r), NEW q \in Request, q # r  PROVE ~Active(q)
      BY <1>a, <1>l DEF Held
<1>i. ASSUME NEW q \in Request, ~Active(q)'  PROVE Own(q)'
      BY <1>i DEF Active, Holding
<1>o. ASSUME NEW r \in Request, Others(r), NEW q \in Request, q # r
      PROVE  Active(q)' = Active(q) /\ (UNCHANGED <<responseData, shownData>> => Own(q)')
  <2>1. pc'[q] = pc[q] /\ call'[q] = call[q] /\ parts'[q] = parts[q]
        BY <1>o DEF Others
  <2>2. Received(q)' = Received(q)
        BY <2>1 DEF Received
  <2> QED BY <1>f, <2>1, <2>2 DEF Active, Holding, AboutToShow
<1>r. ASSUME NEW r \in Request, parts'[r] = parts[r]  PROVE Received(r)' = Received(r)
      BY <1>r DEF Received
<1> HIDE DEF Own
<1>m. ASSUME NEW r \in Request, Others(r), Own(r)',
             UNCHANGED <<responseData, shownData>> \/ \A q \in Request : q # r => ~Active(q)
      PROVE  Owned'
  <2>1. ASSUME NEW q \in Request, q # r  PROVE Own(q)'
        BY <1>i, <1>m, <1>o, <2>1
  <2>2. \A q \in Request : Own(q)'
        BY <1>m, <2>1
  <2> QED BY <2>2 DEF Owned, Own
<1>s. ASSUME NEW r \in Request, UNCHANGED <<responseData, shownData>>, parts'[r] = parts[r],
             Gathers(r)' => Gathers(r), HasShown(r)' => HasShown(r)
      PROVE  Own(r)'
      BY <1>f, <1>r, <1>s DEF Own
<1>1. ASSUME NEW r \in Request, NEW async \in BOOLEAN, Send(r, async), Others(r) PROVE Owned'
  <2>1. \A q \in Request : ~Active(q)
        BY <1>1, <1>l, NoneActive
  <2>2. /\ pc'[r] = "begun" /\ responseData' = <<>> /\ shownData' = <<>> /\ UNCHANGED parts
        BY <1>1, <1>t DEF Send, Begin, Goto, Forget
  <2>3. parts[r] = 0
        BY <1>1, NextIsNew DEF Send, Begin, Fresh
  <2>4. Received(r)' = <<>>
        BY <1>r, <2>2, <2>3, ReceivedNone
  <2>5. Own(r)'
        BY <2>2, <2>4 DEF Own, AboutToShow
  <2> QED BY <1>1, <1>m, <2>1, <2>5
<1>2. ASSUME NEW r \in Request, Initialize(r), Others(r) PROVE Owned'
  <2>1. /\ pc[r] = "begun" /\ pc'[r] = "performing"
        /\ UNCHANGED <<parts, responseData, shownData>>
        BY <1>2, <1>t DEF Initialize, Runs, Goto, received
  <2> QED BY <1>2, <1>m, <1>s, <2>1 DEF AboutToShow
<1>3. ASSUME NEW r \in Request, HandleFailure(r), Others(r) PROVE Owned'
  <2>1. /\ pc[r] = "result" /\ pc'[r] = "clean"
        /\ UNCHANGED <<parts, responseData, shownData>>
        BY <1>3, <1>t DEF HandleFailure, Runs, Goto, received, shown
  <2> QED BY <1>3, <1>m, <1>s, <2>1 DEF AboutToShow
<1>4. ASSUME NEW r \in Request, ShowHeaders(r) \/ ShowLoading(r), Others(r) PROVE Owned'
  <2>1. /\ pc[r] \in {"result", "headers"} /\ pc'[r] \in {"headers", "clean"}
        /\ UNCHANGED <<parts, responseData, shownData>>
        BY <1>4, <1>t DEF ShowHeaders, ShowLoading, Shows, Runs, Goto, received
  <2> QED BY <1>4, <1>m, <1>s, <2>1 DEF AboutToShow
<1>5. ASSUME NEW r \in Request, ShowDone(r), Others(r) PROVE Owned'
  <2>1. /\ pc[r] = "done" /\ pc'[r] = "ending"
        /\ UNCHANGED <<parts, responseData, shownData>>
        BY <1>5, <1>t DEF ShowDone, Shows, Runs, Goto, received
  <2> QED BY <1>5, <1>m, <1>s, <2>1
<1>6. ASSUME NEW r \in Request, Clean(r), Others(r) PROVE Owned'
  <2>1. /\ pc[r] = "clean" /\ pc'[r] = "done" /\ UNCHANGED <<parts, responseData>>
        /\ shownData' = IF responseData = <<>> THEN shownData ELSE responseData
        BY <1>6, <1>t DEF Clean, Runs, Goto, received
  <2>2. responseData = Received(r) /\ shownData = <<>> /\ Active(r)
        BY <1>f, <2>1 DEF Own, Active, Holding
  <2>3. shownData' = Received(r)'
        BY <1>r, <2>1, <2>2
  <2>4. Own(r)'
        BY <2>1, <2>3 DEF Own
  <2> QED BY <1>6, <1>a, <1>m, <2>2, <2>4
<1>7. ASSUME NEW r \in Request, Catch(r) \/ Over(r) \/ Throws(r), Others(r) PROVE Owned'
  <2>1. /\ pc'[r] \in {"caught", "ending", "over"} /\ call'[r] = "no"
        /\ UNCHANGED <<responseData, shownData>>
        BY <1>7, <1>t DEF Catch, Over, Throws, Runs, Goto, received, shown
  <2>2. Own(r)'
        BY <2>1 DEF Own, AboutToShow
  <2> QED BY <1>7, <1>m, <2>1, <2>2
<1>8. ASSUME NEW r \in Request, RunHandler(r) \/ Returns(r), Others(r) PROVE Owned'
  <2>1. UNCHANGED <<pc, parts, responseData, shownData>> /\ call'[r] \in {"in", "no"}
        BY <1>8, <1>t DEF RunHandler, Returns, received, shown
  <2> QED BY <1>8, <1>m, <1>s, <2>1 DEF AboutToShow
<1>9. ASSUME NEW r \in Request, HeaderLine(r) \/ HeaderEnd(r), Others(r) PROVE Owned'
  <2>1. UNCHANGED <<pc, call, parts, responseData, shownData>>
        BY <1>9 DEF HeaderLine, HeaderEnd, shown, execution
  <2> QED BY <1>9, <1>m, <1>s, <2>1 DEF AboutToShow
<1>10. ASSUME NEW r \in Request, Data(r), Others(r) PROVE Owned'
  <2>1. /\ pc[r] = "performing" /\ UNCHANGED <<pc, shownData>>
        /\ responseData' = Append(responseData, <<r, parts[r] + 1>>)
        /\ parts'[r] = parts[r] + 1
        BY <1>10, <1>t DEF Data, Runs
  <2>2. responseData = Received(r) /\ shownData = <<>> /\ Active(r)
        BY <1>f, <2>1 DEF Own, Active, Holding
  <2>3. Received(r)' = Append(Received(r), <<r, parts[r] + 1>>)
        BY <1>t, <2>1, ReceivedMore
  <2>4. Own(r)'
        BY <2>1, <2>2, <2>3 DEF Own, AboutToShow
  <2> QED BY <1>10, <1>a, <1>m, <2>2, <2>4
<1>11. ASSUME NEW r \in Request, NEW code, Ends(r, code), Others(r) PROVE Owned'
  <2>1. /\ pc[r] = "performing" /\ pc'[r] = "result"
        /\ UNCHANGED <<parts, responseData, shownData>>
        BY <1>11, <1>t DEF Ends, Runs, Goto, received, shown
  <2> QED BY <1>11, <1>m, <1>s, <2>1 DEF AboutToShow
<1>12. CASE Open \/ Abort \/ UNCHANGED vars
  <2>1. UNCHANGED <<pc, call, parts, responseData, shownData>>
        BY <1>12 DEF Open, Abort, vars, shown, received, execution
  <2>2. ASSUME NEW r \in Request  PROVE Own(r)'
        BY <1>s, <2>1 DEF AboutToShow
  <2> QED BY <2>2 DEF Owned, Own
<1> QED BY <1>1, <1>2, <1>3, <1>4, <1>5, <1>6, <1>7, <1>8, <1>9, <1>10, <1>11, <1>12, OthersStay
        DEF Next, Step, Handler, Transfer, TimesOut, Progress, Completes, Fails

\* The headers are those of the one request that is active, and of its last answer.
LEMMA HeadedNext ==
    ASSUME HTTPAssumption, TypeOK, Results, Numbers, Fresh, Held, Headed, Patient, [Next]_vars
    PROVE  Headed'
<1>0. SUFFICES ASSUME ~lateThrow', ~cut' PROVE Headed'
      BY DEF Headed
<1>l. ~lateThrow /\ ~cut
      BY <1>0, HistoryStays
<1>t. DOMAIN pc = Request /\ blocks \in [Request -> 0..2]
      BY DEF TypeOK
<1>f. /\ nextHeaders # {} => \E r \in Request : pc[r] = "performing"
      /\ \A r \in Request :
            /\ pc[r] = "performing" => nextHeaders \subseteq {<<r, blocks[r] + 1>>}
            /\ Active(r) /\ blocks[r] > 0 => headers = {<<r, blocks[r]>>}
      BY <1>l DEF Headed
<1>a. ASSUME NEW r \in Request, Active(r), NEW q \in Request, q # r  PROVE ~Active(q)
      BY <1>a, <1>l DEF Held
<1>p. ASSUME NEW r \in Request, pc[r] = "performing"  PROVE Active(r)
      BY <1>p DEF Active, Holding
<1>o. ASSUME NEW r \in Request, Others(r), NEW q \in Request, q # r
      PROVE  Active(q)' = Active(q) /\ pc'[q] = pc[q] /\ blocks'[q] = blocks[q]
      BY <1>o DEF Others, Active, Holding, AboutToShow
<1>n. ASSUME NEW r \in Request, Others(r), nextHeaders' = {}, headers' = headers,
             Active(r)' /\ blocks'[r] > 0 => Active(r) /\ blocks'[r] = blocks[r]
      PROVE  Headed'
  <2>1. ASSUME NEW q \in Request, Active(q)', blocks'[q] > 0
        PROVE  headers' = {<<q, blocks'[q]>>}
    <3>1. Active(q) /\ blocks'[q] = blocks[q]
          BY <1>n, <1>o, <2>1
    <3> QED BY <1>f, <1>n, <2>1, <3>1
  <2> QED BY <1>n, <2>1 DEF Headed
<1>m. ASSUME NEW r \in Request, Others(r), UNCHANGED <<headers, nextHeaders>>,
             (pc'[r] = "performing") <=> (pc[r] = "performing"),
             Active(r)' => Active(r) /\ blocks'[r] = blocks[r]
      PROVE  Headed'
  <2>1. ASSUME NEW q \in Request
        PROVE  /\ pc'[q] = "performing" <=> pc[q] = "performing"
               /\ Active(q)' => Active(q) /\ blocks'[q] = blocks[q]
    <3>1. CASE q = r
          BY <1>m, <3>1
    <3>2. CASE q # r
          BY <1>m, <1>o, <3>2
    <3> QED BY <3>1, <3>2
  <2>2. ASSUME NEW q \in Request, pc'[q] = "performing"
        PROVE  nextHeaders' \subseteq {<<q, blocks'[q] + 1>>}
    <3>1. pc[q] = "performing" /\ Active(q)'
          BY <2>1, <2>2 DEF Active, Holding
    <3>2. blocks'[q] = blocks[q]
          BY <2>1, <3>1
    <3> QED BY <1>f, <1>m, <3>1, <3>2
  <2>3. ASSUME NEW q \in Request, Active(q)', blocks'[q] > 0
        PROVE  headers' = {<<q, blocks'[q]>>}
        BY <1>f, <1>m, <2>1, <2>3
  <2>4. nextHeaders' # {} => \E q \in Request : pc'[q] = "performing"
        BY <1>f, <1>m, <2>1
  <2> QED BY <2>2, <2>3, <2>4 DEF Headed
<1>1. ASSUME NEW r \in Request, NEW async \in BOOLEAN, Send(r, async), Others(r) PROVE Headed'
  <2>1. \A q \in Request : ~Active(q)
        BY <1>1, <1>l, NoneActive
  <2>2. UNCHANGED <<headers, nextHeaders, blocks>> /\ pc[r] = "new"
        BY <1>1, NextIsNew DEF Send, Begin
  <2>3. blocks'[r] = 0 /\ nextHeaders' = {}
        BY <1>f, <1>p, <2>1, <2>2 DEF Fresh
  <2> QED BY <1>1, <1>n, <2>2, <2>3
<1>2. ASSUME NEW r \in Request, Initialize(r), Others(r) PROVE Headed'
  <2>1. pc[r] = "begun" /\ UNCHANGED <<headers, nextHeaders, blocks>>
        BY <1>2 DEF Initialize, Runs, received
  <2>2. Active(r)
        BY <2>1 DEF Active
  <2>3. nextHeaders = {}
        BY <1>a, <1>f, <1>p, <2>1, <2>2
  <2> QED BY <1>2, <1>n, <2>1, <2>2, <2>3
<1>3. ASSUME NEW r \in Request, HandleFailure(r), Others(r) PROVE Headed'
  <2>1. /\ pc[r] = "result" /\ pc'[r] = "clean" /\ UNCHANGED <<headers, nextHeaders, blocks>>
        BY <1>3, <1>t DEF HandleFailure, Runs, Goto, received
  <2> QED BY <1>3, <1>m, <2>1 DEF Active, Holding
<1>4. ASSUME NEW r \in Request, ShowHeaders(r) \/ ShowLoading(r) \/ ShowDone(r), Others(r)
      PROVE  Headed'
  <2>1. /\ pc[r] \in {"result", "headers", "done"} /\ pc'[r] \in {"headers", "clean", "ending"}
        /\ UNCHANGED <<headers, nextHeaders, blocks>>
        BY <1>4, <1>t DEF ShowHeaders, ShowLoading, ShowDone, Shows, Runs, Goto, received
  <2> QED BY <1>4, <1>m, <2>1 DEF Active, Holding
<1>5. ASSUME NEW r \in Request, Clean(r), Others(r) PROVE Headed'
  <2>1. pc[r] = "clean" /\ pc'[r] = "done" /\ UNCHANGED <<headers, nextHeaders, blocks>>
        BY <1>5, <1>t DEF Clean, Runs, Goto, received
  <2> QED BY <1>5, <1>m, <2>1 DEF Active, Holding
<1>6. ASSUME NEW r \in Request, Catch(r) \/ Over(r), Others(r) PROVE Headed'
  <2>1. /\ pc[r] \in {"caught", "ending"} /\ pc'[r] \in {"ending", "over"} /\ call'[r] = "no"
        /\ UNCHANGED <<headers, nextHeaders>>
        BY <1>6, <1>t DEF Catch, Over, Runs, Goto, received
  <2> QED BY <1>6, <1>m, <2>1 DEF Active, Holding, AboutToShow
<1>7. ASSUME NEW r \in Request, Throws(r), Others(r) PROVE Headed'
  <2>1. /\ pc'[r] = "caught" /\ UNCHANGED <<headers, nextHeaders, blocks>> /\ pc[r] # "ending"
        /\ call[r] # "no" /\ cut' = (cut \/ nextHeaders # {})
        BY <1>0, <1>7, <1>t DEF Throws, Goto, received
  <2>2. Active(r) /\ nextHeaders = {}
        BY <1>0, <2>1 DEF Results, Active, Holding
  <2> QED BY <1>7, <1>n, <2>1, <2>2
<1>8. ASSUME NEW r \in Request, RunHandler(r) \/ Returns(r), Others(r) PROVE Headed'
  <2>1. UNCHANGED <<pc, headers, nextHeaders, blocks>> /\ call'[r] \in {"in", "no"}
        BY <1>8, <1>t DEF RunHandler, Returns, received, TypeOK
  <2> QED BY <1>8, <1>m, <2>1 DEF Active, Holding, AboutToShow
<1>9. ASSUME NEW r \in Request, HeaderLine(r), Others(r) PROVE Headed'
  <2>1. /\ pc[r] = "performing" /\ UNCHANGED <<pc, call, blocks, headers>>
        /\ nextHeaders' = nextHeaders \cup {<<r, blocks[r] + 1>>}
        BY <1>9 DEF HeaderLine, Runs, execution
  <2>2. nextHeaders' \subseteq {<<r, blocks'[r] + 1>>}
        BY <1>f, <2>1
  <2>3. ASSUME NEW q \in Request  PROVE Active(q)' = Active(q)
        BY <2>1 DEF Active, Holding, AboutToShow
  <2>4. ASSUME NEW q \in Request, pc'[q] = "performing"
        PROVE  q = r
        BY <1>a, <1>p, <2>1, <2>4
  <2>5. ASSUME NEW q \in Request, Active(q)', blocks'[q] > 0
        PROVE  headers' = {<<q, blocks'[q]>>}
        BY <1>f, <2>1, <2>3, <2>5
  <2> QED BY <2>1, <2>2, <2>4, <2>5 DEF Headed
<1>10. ASSUME NEW r \in Request, HeaderEnd(r), Others(r) PROVE Headed'
  <2>1. /\ pc[r] = "performing" /\ UNCHANGED <<pc, call>>
        /\ <<r, blocks[r] + 1>> \in nextHeaders
        /\ headers' = nextHeaders /\ nextHeaders' = {}
        /\ blocks'[r] = blocks[r] + 1
        BY <1>10, <1>t DEF HeaderEnd, EndBlock, Runs
  <2>2. headers' = {<<r, blocks'[r]>>}
        BY <1>f, <2>1
  <2>3. ASSUME NEW q \in Request, Active(q)'  PROVE q = r
        BY <1>10, <1>a, <1>o, <1>p, <2>1, <2>3
  <2> QED BY <2>1, <2>2, <2>3 DEF Headed
<1>11. ASSUME NEW r \in Request, Data(r), Others(r) PROVE Headed'
  <2>1. pc[r] = "performing" /\ UNCHANGED <<pc, blocks, headers, nextHeaders>>
        BY <1>11 DEF Data, Runs
  <2> QED BY <1>11, <1>m, <1>p, <2>1
<1>12. ASSUME NEW r \in Request, NEW code, Ends(r, code), Others(r) PROVE Headed'
  <2>1. /\ pc[r] = "performing" /\ UNCHANGED <<blocks, headers, nextHeaders>>
        /\ cut' = (cut \/ nextHeaders # {})
        BY <1>12 DEF Ends, Runs, received
  <2>2. Active(r) /\ nextHeaders = {}
        BY <1>0, <1>p, <2>1
  <2> QED BY <1>12, <1>n, <2>1, <2>2
<1>13. CASE Open \/ Abort \/ UNCHANGED vars
  <2>1. UNCHANGED <<pc, call, blocks, headers, nextHeaders>>
        BY <1>13 DEF Open, Abort, vars, received, execution
  <2>2. ASSUME NEW r \in Request  PROVE Active(r)' = Active(r)
        BY <2>1 DEF Active, Holding, AboutToShow
  <2> QED BY <1>f, <2>1, <2>2 DEF Headed
<1> QED BY <1>1, <1>2, <1>3, <1>4, <1>5, <1>6, <1>7, <1>8, <1>9, <1>10, <1>11, <1>12,
           <1>13, OthersStay
        DEF Next, Step, Handler, Transfer, TimesOut, Progress, Completes, Fails

-----------------------------------------------------------------------------
(* The theorems.                                                            *)

\* What holds of every application.
Inv == TypeOK /\ Blocks /\ Numbers /\ Results /\ Fresh

\* It is an invariant.
LEMMA Invariance == ASSUME HTTPAssumption PROVE Spec => []Inv
<1>1. ASSUME Init PROVE Inv
  <2>1. Begun = 1..0
        BY <1>1 DEF Init, Begun
  <2>2. Numbers
        BY <2>1 DEF Numbers, HTTPAssumption
  <2>3. Results /\ Fresh
        BY <1>1 DEF Init, Results, Fresh
  <2> QED BY <1>1, <2>2, <2>3, TypeInit DEF Inv
<1>2. ASSUME Inv, [Next]_vars PROVE Inv'
      BY <1>2, TypeNext, NumbersNext, ResultsNext, FreshNext DEF Inv
<1> QED BY <1>1, <1>2, PTL DEF Spec

\* What holds of an application that begins no request in a gap of another.
PatientInv == Held /\ Owned /\ Headed

\* It is an invariant.
LEMMA PatientInvariance == ASSUME HTTPAssumption, Patient PROVE Spec => []PatientInv
<1>1. ASSUME Init PROVE PatientInv
  <2>1. ASSUME NEW r \in Request  PROVE ~Active(r) /\ pc[r] = "new"
        BY <1>1 DEF Init, Active, Holding, AboutToShow
  <2>2. freed = {} /\ nextHeaders = {}
        BY <1>1 DEF Init
  <2> QED BY <2>1, <2>2 DEF PatientInv, Held, Owned, Headed, Active
<1>2. ASSUME Inv, PatientInv, [Next]_vars PROVE PatientInv'
      BY <1>2, HeldNext, OwnedNext, HeadedNext DEF Inv, PatientInv
<1> QED BY <1>1, <1>2, Invariance, PTL DEF Spec

\* All variables keep their types.
THEOREM TypeCorrect == ASSUME HTTPAssumption PROVE Spec => []TypeOK
<1>1. Inv => TypeOK
      BY DEF Inv
<1> QED BY <1>1, Invariance, PTL

\* Whatever the application does, and whatever fails, is aborted or throws, each
\* request shows its states in the order of HTTPRequest, and DONE once.
THEOREM Refinement == ASSUME HTTPAssumption PROVE Spec => KeepsPromise
<1>1. ASSUME Init PROVE Promise!Init
  <2>1. pc = [r \in Request |-> "new"] /\ readyState = 0
        BY <1>1 DEF Init
  <2>2. phase = [r \in Request |-> "unsent"]
        BY <2>1 DEF phase
  <2> QED BY <2>1, <2>2 DEF Promise!Init, Promise!UNSENT
<1>2. ASSUME Inv, [Next]_vars PROVE [Promise!Next]_(Promise!vars)
      BY <1>2, Keeps DEF Inv
<1> QED BY <1>1, <1>2, Invariance, PTL DEF Spec, KeepsPromise, Promise!Spec

\* When the application begins no request in a gap of another, libcurl performs
\* with the request's own handle, which nobody has freed: until a handler throws
\* at DONE.
THEOREM HandleStaysHeld == ASSUME HTTPAssumption, Patient PROVE Spec => []HandleIsHeld
<1>1. PatientInv => HandleIsHeld
      BY DEF PatientInv, Held, Holding, HandleIsHeld
<1> QED BY <1>1, PatientInvariance, PTL

\* Then, too, no answer is ever mixed with that to another request.
THEOREM AnswersStayOwn == ASSUME HTTPAssumption, Patient PROVE Spec => []AnswerIsOwn
<1>1. PatientInv => AnswerIsOwn
      BY DEF PatientInv, Owned, Headed, Active, AnswerIsOwn, DataIsOwn, HeadersAreLast
<1> QED BY <1>1, PatientInvariance, PTL
=============================================================================
