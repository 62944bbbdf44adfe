----------------------------- MODULE HTTPClient -----------------------------
(***************************************************************************)
(* Ti.Network.HTTPClient                                                   *)
(* (src/modules/network/protocols/http/http_client_binding.cpp).           *)
(* The application opens, sends and aborts on the main thread.  A request  *)
(* is executed by a thread of its own, or in place when open() asked for   *)
(* that.  It drives libcurl (external), whose callbacks write the members  *)
(* of the client; handlers run on the main thread, and the request waits   *)
(* for them.  No member is protected by a lock: only `curlHandle` tells    *)
(* whether a request is under way, and the request's own thread sets it.   *)
(*                                                                         *)
(* A part of a body is <<request, number>>, so is a block of headers.      *)
(***************************************************************************)
EXTENDS Naturals, Sequences, FiniteSets

CONSTANTS
    MaxRequests, \* calls of send() or receive() that begin a request
    MaxParts,    \* parts of a body
    Patient      \* the application begins no request in a gap of another (InGap)

\* What is assumed of the constants.
HTTPAssumption == MaxRequests \in Nat /\ MaxParts \in Nat /\ Patient \in BOOLEAN

\* The n-th request that is begun is the number n.
Request == 1..MaxRequests
NoRequest == 0

VARIABLES
    \* the client
    readyState,
    curlHandle,   \* the request whose handle it is, or NoRequest
    aborted,
    responseData, \* parts received
    shownData,    \* the property responseData
    headers,      \* responseHeaders, the blocks they come from
    nextHeaders,  \* nextResponseHeaders
    \* requests
    pc,           \* per request: where ExecuteRequest is
    call,         \* per request: a handler it waits for, "no", "asks" or "in"
    inPlace,      \* requests executed in place
    result,       \* per request: the CURLcode, or "thrown"
    blocks,       \* per request: complete blocks of headers
    final,        \* requests whose last block was no redirection
    parts,        \* per request: parts received
    freed,        \* requests whose handle was cleaned up
    \* the main thread
    frames,       \* requests it is in a handler of, or executes, innermost last
    \* history
    lateThrow,    \* a handler threw at DONE
    cut           \* a request ended in the middle of a block of headers

shown == <<readyState, shownData>>
received == <<responseData, headers, nextHeaders>>
execution == <<pc, call, inPlace, result, blocks, final, parts>>
history == <<lateThrow, cut>>
vars == <<shown, received, curlHandle, aborted, execution, freed, frames, history>>

Init ==
    /\ readyState = 0 /\ shownData = <<>>
    /\ responseData = <<>>
    /\ headers = {} /\ nextHeaders = {}
    /\ curlHandle = NoRequest /\ aborted = FALSE
    /\ pc = [r \in Request |-> "new"] /\ call = [r \in Request |-> "no"]
    /\ inPlace = {} /\ final = {} /\ freed = {}
    /\ result = [r \in Request |-> "none"]
    /\ blocks = [r \in Request |-> 0] /\ parts = [r \in Request |-> 0]
    /\ frames = <<>>
    /\ lateThrow = FALSE /\ cut = FALSE

-----------------------------------------------------------------------------
(* The main thread.                                                         *)

OnTop(r) == frames # <<>> /\ frames[Len(frames)] = r
Pop == SubSeq(frames, 1, Len(frames) - 1)

\* The application's code runs: the main loop has called it, or a handler.
AppRuns == \A r \in Request : OnTop(r) => call[r] = "in"

\* Two transfers at a time write the same containers without a lock: what they
\* do from then on is undefined, and not modelled.
Racing == Cardinality({r \in Request : pc[r] = "performing"}) > 1

\* A request takes a step of its own: it waits for no handler, and the main
\* thread, if it executes it, does nothing else on top of it.
Runs(r, at) ==
    /\ pc[r] = at /\ call[r] = "no" /\ ~Racing
    /\ r \in inPlace => OnTop(r)

Goto(r, to) == pc' = [pc EXCEPT ![r] = to]
Begun == {r \in Request : pc[r] # "new"}

\* RunOnMainThread(handler, args, true): the request waits.
Asks(r) == call' = [call EXCEPT ![r] = "asks"]

\* The main loop gets to the handler, or it is called in place.
RunHandler(r) ==
    /\ call[r] = "asks"
    /\ call' = [call EXCEPT ![r] = "in"]
    /\ \/ r \in inPlace /\ OnTop(r) /\ UNCHANGED frames
       \/ r \notin inPlace /\ frames = <<>> /\ frames' = <<r>>
    /\ UNCHANGED <<shown, received, curlHandle, aborted, freed, history>>
    /\ UNCHANGED <<pc, inPlace, result, blocks, final, parts>>

\* The handler returns.
Returns(r) ==
    /\ call[r] = "in" /\ OnTop(r)
    /\ call' = [call EXCEPT ![r] = "no"]
    /\ frames' = IF r \in inPlace THEN frames ELSE Pop
    /\ UNCHANGED <<shown, received, curlHandle, aborted, freed, history>>
    /\ UNCHANGED <<pc, inPlace, result, blocks, final, parts>>

\* The handler throws, which ends ExecuteRequest; listeners of the timeout and
\* of the abortion are guarded by KEventObject::FireEvent.
Throws(r) ==
    /\ call[r] = "in" /\ OnTop(r)
    /\ ~(pc[r] = "clean" /\ result[r] # "ok")
    /\ call' = [call EXCEPT ![r] = "no"]
    /\ frames' = IF r \in inPlace THEN frames ELSE Pop
    /\ Goto(r, "caught")
    /\ IF pc[r] = "ending"
       THEN lateThrow' = TRUE /\ UNCHANGED result
       ELSE result' = [result EXCEPT ![r] = "thrown"] /\ UNCHANGED lateThrow
    /\ cut' = (cut \/ nextHeaders # {})
    /\ UNCHANGED <<shown, received, curlHandle, aborted, freed>>
    /\ UNCHANGED <<inPlace, blocks, final, parts>>

\* open(), also while a request is under way; its handler is called in place.
\* Whether it asks for requests in place is chosen when one is sent.
Open ==
    /\ AppRuns
    /\ readyState' = 1
    /\ UNCHANGED <<shownData, received, curlHandle>>
    /\ UNCHANGED <<aborted, execution, freed, frames, history>>

\* abort(): without effect, and not modelled, when no transfer is to come or under
\* way, for send() takes it back.
Abort ==
    /\ AppRuns /\ \E r \in Request : pc[r] \in {"begun", "performing"}
    /\ aborted' = TRUE
    /\ UNCHANGED <<shown, received, curlHandle, execution, freed, frames, history>>

\* A request under way that BeginRequest does not notice, for it has no handle
\* yet or no longer, and has not shown DONE.
InGap(r) ==
    \/ pc[r] \in {"begun", "done"}
    \/ pc[r] = "ending" /\ call[r] = "asks"

\* Mutant: what the last request received stays.
BeginWithOldData(r) ==
    /\ shownData' = <<>>
    /\ UNCHANGED responseData

\* BeginRequest forgets the last request's data; not its headers.
Forget(r) ==
    /\ responseData' = <<>> /\ shownData' = <<>>

\* send() and receive() begin a request, on a thread of its own or in place.
Begin(r, async) ==
    /\ AppRuns /\ r = Cardinality(Begun) + 1
    /\ Patient => ~\E q \in Request : InGap(q)
    /\ Forget(r)
    /\ aborted' = FALSE
    /\ Goto(r, "begun")
    /\ IF async THEN UNCHANGED <<inPlace, frames>>
       ELSE inPlace' = inPlace \cup {r} /\ frames' = Append(frames, r)
    /\ UNCHANGED <<readyState, headers, nextHeaders, curlHandle>>
    /\ UNCHANGED <<call, result, blocks, final, parts, freed, lateThrow, cut>>

\* Mutant: the client is not asked for its handle.
SendUnguarded(r, async) == Begin(r, async)

\* They are refused while the client has a handle.
Send(r, async) == curlHandle = NoRequest /\ Begin(r, async)

-----------------------------------------------------------------------------
(* ExecuteRequest, on a thread of the request's own or in place.            *)

\* curl_easy_init, and everything the handle is told before it is performed.
Initialize(r) ==
    /\ Runs(r, "begun")
    /\ curlHandle' = r
    /\ Goto(r, "performing")
    /\ UNCHANGED <<readyState, shownData, received, aborted>>
    /\ UNCHANGED <<call, inPlace, result, blocks, final, parts, freed, frames, history>>

\* GotHeader: a line of a block of headers.
HeaderLine(r) ==
    /\ Runs(r, "performing") /\ r \notin final
    /\ nextHeaders' = nextHeaders \cup {<<r, blocks[r] + 1>>}
    /\ UNCHANGED <<shown, responseData, headers, curlHandle>>
    /\ UNCHANGED <<aborted, execution, freed, frames, history>>

\* GotHeader: the empty line ends the block, which replaces the last one.
EndBlock(r) == headers' = nextHeaders /\ nextHeaders' = {}

\* The block may be a redirection or ask for credentials: another one follows.
HeaderEnd(r) ==
    /\ Runs(r, "performing") /\ r \notin final
    /\ <<r, blocks[r] + 1>> \in nextHeaders
    /\ EndBlock(r)
    /\ blocks' = [blocks EXCEPT ![r] = @ + 1]
    /\ \/ final' = final \cup {r}
       \/ blocks[r] = 0 /\ UNCHANGED final
    /\ UNCHANGED <<shown, responseData, curlHandle>>
    /\ UNCHANGED <<aborted, pc, call, inPlace, result, parts, freed, frames, history>>

\* DataReceived: stored, and given to the handlers.
Data(r) ==
    /\ Runs(r, "performing") /\ r \in final /\ parts[r] < MaxParts
    /\ responseData' = Append(responseData, <<r, parts[r] + 1>>)
    /\ parts' = [parts EXCEPT ![r] = @ + 1]
    /\ Asks(r)
    /\ UNCHANGED <<readyState, shownData, headers, nextHeaders>>
    /\ UNCHANGED <<curlHandle, aborted, pc, inPlace, result, blocks>>
    /\ UNCHANGED <<final, freed, frames, history>>

\* The transfer ends with this CURLcode.
Ends(r, code) ==
    /\ Runs(r, "performing")
    /\ result' = [result EXCEPT ![r] = code]
    /\ Goto(r, "result")
    /\ cut' = (cut \/ nextHeaders # {})
    /\ UNCHANGED <<shown, received, curlHandle, aborted, call, inPlace>>
    /\ UNCHANGED <<blocks, final, parts, freed, frames, lateThrow>>

Completes(r) == r \in final /\ Ends(r, "ok")
Fails(r) == Ends(r, "error")
TimesOut(r) == Ends(r, "timeout")

\* Mutant: libcurl is not told.
AbortIgnored(r) == FALSE

\* CurlProgressCallback, called by libcurl all the time.
Progress(r) == aborted /\ Ends(r, "aborted")

\* HandleCurlResult: a request that failed goes on; the timeout and the
\* abortion are events.
HandleFailure(r) ==
    /\ Runs(r, "result") /\ result[r] # "ok"
    /\ Goto(r, "clean")
    /\ IF result[r] = "error" THEN UNCHANGED call ELSE Asks(r)
    /\ result' = [result EXCEPT ![r] = "failed"]
    /\ UNCHANGED <<shown, received, curlHandle, aborted, inPlace>>
    /\ UNCHANGED <<blocks, final, parts, freed, frames, history>>

\* ChangeState: the handlers see the new state.
Shows(r, at, state, to) ==
    /\ Runs(r, at)
    /\ readyState' = state
    /\ Goto(r, to)
    /\ Asks(r)
    /\ UNCHANGED <<shownData, received, curlHandle>>
    /\ UNCHANGED <<aborted, inPlace, result, blocks, final, parts, freed, frames, history>>

\* Mutant: a request that failed shows the states of one that did not.
ShowHeadersAnyway(r) == Shows(r, "result", 2, "headers")

\* HandleCurlResult of a request that succeeded.
ShowHeaders(r) == result[r] = "ok" /\ Shows(r, "result", 2, "headers")
ShowLoading(r) == Shows(r, "headers", 3, "clean")

\* CleanupCurl, of whatever handle the client has.
CleanupCurl ==
    /\ freed' = freed \cup ({curlHandle} \ {NoRequest})
    /\ curlHandle' = NoRequest

\* The data is shown, the handle is freed: the client can be used again.
Clean(r) ==
    /\ Runs(r, "clean")
    /\ shownData' = IF responseData = <<>> THEN shownData ELSE responseData
    /\ CleanupCurl
    /\ Goto(r, "done")
    /\ UNCHANGED <<readyState, received, aborted, call>>
    /\ UNCHANGED <<inPlace, result, blocks, final, parts, frames, history>>

ShowDone(r) == Shows(r, "done", 4, "ending")

\* The catch clause: `connected` stays, the handle is freed.
Catch(r) ==
    /\ Runs(r, "caught")
    /\ CleanupCurl
    /\ Goto(r, "ending")
    /\ UNCHANGED <<shown, received, aborted, call>>
    /\ UNCHANGED <<inPlace, result, blocks, final, parts, frames, history>>

\* The thread ends, or send() returns; what was the request's own is gone.
Over(r) ==
    /\ Runs(r, "ending")
    /\ Goto(r, "over")
    /\ frames' = IF r \in inPlace THEN Pop ELSE frames
    /\ inPlace' = inPlace \ {r} /\ final' = final \ {r} /\ freed' = freed \ {r}
    /\ blocks' = [blocks EXCEPT ![r] = 0] /\ parts' = [parts EXCEPT ![r] = 0]
    /\ result' = [result EXCEPT ![r] = IF @ = "thrown" THEN @ ELSE "none"]
    /\ UNCHANGED <<shown, received, curlHandle, aborted, call, history>>

Transfer(r) ==
    HeaderLine(r) \/ HeaderEnd(r) \/ Data(r) \/ Completes(r) \/ Fails(r)

\* What goes on by itself.
Step(r) ==
    \/ Initialize(r) \/ HandleFailure(r) \/ ShowHeaders(r) \/ ShowLoading(r)
    \/ Clean(r) \/ ShowDone(r) \/ Catch(r) \/ Over(r)

Handler(r) == RunHandler(r) \/ Returns(r) \/ Throws(r)

Next ==
    \/ Open \/ Abort
    \/ \E r \in Request :
          \/ \E async \in BOOLEAN : Send(r, async)
          \/ Step(r) \/ Handler(r) \/ Transfer(r) \/ TimesOut(r) \/ Progress(r)

Spec == Init /\ [][Next]_vars

\* Threads run, the main loop gets to the handlers, and they return; libcurl
\* reports progress.  No server is obliged to answer, no timeout to be set.
Fairness ==
    /\ \A r \in Request :
          /\ WF_vars(Step(r)) /\ WF_vars(Handler(r))
          /\ WF_vars(Progress(r))

FairSpec == Spec /\ Fairness

-----------------------------------------------------------------------------
(* Properties.                                                              *)

\* Types of the variables.
TypeOK ==
    /\ readyState \in 0..4 /\ curlHandle \in Request \cup {NoRequest}
    /\ aborted \in BOOLEAN
    /\ {lateThrow, cut} \subseteq BOOLEAN
    /\ LET Part == Request \X (1..MaxParts)
       IN {responseData, shownData} \subseteq Seq(Part)
    /\ headers \cup nextHeaders \subseteq Request \X (1..2)
    /\ inPlace \cup final \cup freed \subseteq Request
    /\ pc \in [Request -> {"new", "begun", "performing", "result", "headers", "clean",
                           "done", "caught", "ending", "over"}]
    /\ call \in [Request -> {"no", "asks", "in"}]
    /\ result \in [Request -> {"none", "ok", "error", "timeout", "aborted", "failed",
                               "thrown"}]
    /\ blocks \in [Request -> 0..2] /\ parts \in [Request -> 0..MaxParts]
    /\ frames \in Seq(Request)

\* A request as the application sees it.
phase == [r \in Request |->
    CASE pc[r] = "new" -> "unsent"
      [] pc[r] \in {"begun", "performing"} -> "sent"
      [] pc[r] = "result" -> IF result[r] = "ok" THEN "sent" ELSE "failed"
      [] pc[r] = "headers" -> "headers"
      [] pc[r] \in {"clean", "done"} -> IF result[r] = "ok" THEN "loaded" ELSE "failed"
      [] OTHER -> IF result[r] = "thrown" THEN "broken" ELSE "done"]

Promise == INSTANCE HTTPRequest

\* Whatever fails, is aborted or throws, each request shows its states in the
\* order an application relies on, and DONE once.
KeepsPromise == Promise!Spec

\* DONE of this request is about to be shown.
AboutToShow(r) == pc[r] = "ending" /\ call[r] = "asks"

Received(r) == [k \in 1..parts[r] |-> <<r, k>>]

\* When DONE is shown, the data is the request's own, and all of it in order ...
DataIsOwn == \A r \in Request : AboutToShow(r) => shownData = Received(r)

\* ... and the headers are those of its last answer, not of the redirections
\* before it nor of an earlier request: unless one ended in the middle of its
\* headers, which are then counted among the next ones.
HeadersAreLast ==
    \A r \in Request : AboutToShow(r) /\ ~cut /\ blocks[r] > 0 =>
        headers = {<<r, blocks[r]>>}

\* An answer is never mixed with that to another request: unless a handler of
\* DONE threw, for the catch clause may then free the handle of the next request,
\* and a third is not refused.
AnswerIsOwn == ~lateThrow => DataIsOwn /\ HeadersAreLast

\* libcurl performs with the handle of the request, and nobody has freed it:
\* unless a handler of DONE threw, which may have begun the next request: the
\* catch clause frees the handle of that one.
HandleIsHeld ==
    ~lateThrow =>
        \A r \in Request : pc[r] = "performing" => curlHandle = r /\ r \notin freed

\* A request that is aborted comes to its end although the server is silent and
\* no timeout is set.
RequestsEnd ==
    \A r \in Request : pc[r] = "performing" /\ aborted ~> pc[r] \in {"ending", "over"}
=============================================================================
