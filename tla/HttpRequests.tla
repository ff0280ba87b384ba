---------------------------- MODULE HttpRequests ----------------------------
(***************************************************************************)
(* The http requests of common-c-library: HttpRequestManager keeps one     *)
(* HttpRequest, with a thread of its own, for each request under way, and  *)
(* one mutex, mKMutex, for its maps.  A request's thread runs              *)
(* HttpClient::Request and then calls the manager back, which holds the    *)
(* mutex while it calls the controller's callback and deletes the request. *)
(* A request's id is its thread's; Invalid is the id of every request      *)
(* whose thread could not be created.                                      *)
(***************************************************************************)
EXTENDS Naturals, FiniteSets

CONSTANTS Callers,   \* threads that make and stop requests
          Requests,
          Invalid,   \* HTTPREQUEST_INVALIDREQUESTID
          MaxParts,  \* bound: parts that an answer comes in
          Setups     \* what is to be told apart, one of which each behaviour begins with

\* waits, cleans: the values of bWait and isCleanCallback that StopAllRequest is called with.
\* stops: a bound of the calls of StopRequest and StopAllRequest.
ASSUME HttpAssumption ==
    /\ Invalid \notin Requests /\ MaxParts \in Nat
    /\ Setups \subseteq [waits : SUBSET BOOLEAN, cleans : SUBSET BOOLEAN, stops : Nat]
    /\ Callers \intersect Requests = {} /\ "nobody" \notin Callers \union Requests

VARIABLES setup,
          mutex,       \* who holds mKMutex: a caller, a request's thread or nobody
          caller,      \* where each caller is
          thread,      \* where the thread of each request is
          requestMap, callbackMap,  \* the manager's maps, by id
          paramMap,    \* RequestLiveChatController::mCustomParamMap
          mbStop, mUrl,   \* of each request's HttpClient: stop asked, and whether the url is set
          asked,       \* requests that StopRequest or StopAllRequest found and stopped
          cleaned,     \* requests whose callback, the manager, StopAllRequest set to NULL
          deleted,     \* requests that were deleted
          answer,      \* what the controller was called back with
          parts, stops

client == <<mbStop, mUrl, asked, cleaned>>
counts == <<parts, stops>>
maps == <<requestMap, callbackMap, deleted>>
vars == <<mutex, caller, thread, maps, paramMap, client, answer, counts>>

Nobody == "nobody"
Idle == [at |-> "idle"]

\* HttpClient::Request from curl's side: sending the request, waiting for the answer's
\* first byte, receiving it.
Performing == {"upload", "wait", "receive"}

Init ==
    /\ setup \in Setups
    /\ mutex = Nobody /\ caller = [c \in Callers |-> Idle] /\ thread = [r \in Requests |-> "none"]
    /\ requestMap = {} /\ callbackMap = {} /\ paramMap = {} /\ deleted = {}
    /\ mbStop = [r \in Requests |-> FALSE] /\ mUrl = [r \in Requests |-> FALSE] /\ asked = {}
    /\ cleaned = {}
    /\ answer = [r \in Requests |-> "none"]
    /\ parts = [r \in Requests |-> 0] /\ stops = 0

-----------------------------------------------------------------------------
(* The callers                                                             *)

\* StartRequest of a controller and of the manager: under the mutex the thread is created
\* and both maps are filled; then the controller files the request's parameter.
StartRequest(c) ==
    /\ caller[c] = Idle /\ mutex = Nobody
    /\ \E r \in Requests :
        /\ thread[r] = "none"
        /\ thread' = [thread EXCEPT ![r] = "ready"]
        /\ mUrl' = [mUrl EXCEPT ![r] = TRUE]
        /\ requestMap' = requestMap \union {r} /\ callbackMap' = callbackMap \union {r}
        /\ caller' = [caller EXCEPT ![c] = [at |-> "file", id |-> r]]
    /\ UNCHANGED <<mutex, paramMap, mbStop, asked, cleaned, deleted, answer, counts>>

\* pthread_create fails: the request stays in the maps under the invalid id.
NotStarted(c) ==
    /\ caller[c] = Idle /\ mutex = Nobody /\ Invalid \notin requestMap
    /\ requestMap' = requestMap \union {Invalid} /\ callbackMap' = callbackMap \union {Invalid}
    /\ UNCHANGED <<mutex, caller, thread, paramMap, client, deleted, answer, counts>>

File(c) ==
    /\ caller[c].at = "file"
    /\ paramMap' = paramMap \union {caller[c].id}
    /\ caller' = [caller EXCEPT ![c] = Idle]
    /\ UNCHANGED <<mutex, thread, maps, client, answer, counts>>

\* Slip: the url is left, so that the thread's reset of mbStop undoes the stop.
StopsKeepUrl(ids) ==
    /\ mbStop' = [r \in Requests |-> mbStop[r] \/ r \in ids]
    /\ asked' = asked \union (ids \intersect Requests)
    /\ UNCHANGED mUrl

\* HttpClient::Stop of the requests with these ids.
Stops(ids) ==
    /\ mbStop' = [r \in Requests |-> mbStop[r] \/ r \in ids]
    /\ mUrl' = [r \in Requests |-> mUrl[r] /\ r \notin ids]
    /\ asked' = asked \union (ids \intersect Requests)

\* StopRequest does not wait, whatever bWait says, and leaves the maps.
StopRequest(c) ==
    /\ caller[c] = Idle /\ mutex = Nobody /\ stops < setup.stops
    /\ \E r \in requestMap : Stops({r})
    /\ stops' = stops + 1
    /\ UNCHANGED <<mutex, caller, thread, maps, paramMap, cleaned, answer, parts>>

\* isCleanCallback: nobody is called back for the requests with these ids.
Cleans(clean, ids) == cleaned' = IF clean THEN cleaned \union (ids \intersect Requests) ELSE cleaned

StopAllRequest(c) ==
    /\ caller[c] = Idle /\ mutex = Nobody /\ stops < setup.stops
    /\ stops' = stops + 1
    /\ \E wait \in setup.waits, clean \in setup.cleans :
        \/ ~wait /\ Stops(requestMap) /\ Cleans(clean, requestMap) /\ UNCHANGED <<mutex, caller>>
        \/ wait /\ mutex' = c /\ UNCHANGED client
           /\ caller' = [caller EXCEPT ![c] = [at |-> "stop all", left |-> requestMap, clean |-> clean]]
    /\ UNCHANGED <<thread, maps, paramMap, answer, parts>>

\* StopAllRequest(true), with the mutex: one request after the other is stopped and joined.
StopNext(c) ==
    /\ caller[c].at = "stop all"
    /\ \E id \in caller[c].left :
        /\ Stops({id}) /\ Cleans(caller[c].clean, {id})
        /\ caller' = [caller EXCEPT ![c] = [at |-> "join", id |-> id, left |-> caller[c].left \ {id},
                                           clean |-> caller[c].clean]]
    /\ UNCHANGED <<mutex, thread, maps, paramMap, answer, counts>>

\* KThread::stop: a thread that was never created is not joined.
Join(c) ==
    /\ caller[c].at = "join" /\ caller[c].id \in {Invalid} \union {r \in Requests : thread[r] = "ended"}
    /\ caller' = [caller EXCEPT ![c] = [at |-> "stop all", left |-> caller[c].left, clean |-> caller[c].clean]]
    /\ UNCHANGED <<mutex, thread, maps, paramMap, client, answer, counts>>

AllStopped(c) ==
    /\ caller[c].at = "stop all" /\ caller[c].left = {}
    /\ mutex' = Nobody
    /\ caller' = [caller EXCEPT ![c] = Idle]
    /\ UNCHANGED <<thread, maps, paramMap, client, answer, counts>>

CallerStep(c) == File(c) \/ StopNext(c) \/ Join(c) \/ AllStopped(c)
CallerCall(c) == StartRequest(c) \/ NotStarted(c) \/ StopRequest(c) \/ StopAllRequest(c)

-----------------------------------------------------------------------------
(* The thread of a request                                                 *)

Goto(r, to) == thread' = [thread EXCEPT ![r] = to]

\* HttpClient::Request resets mbStop ...
Prepare(r) ==
    /\ thread[r] = "ready" /\ Goto(r, "prepared")
    /\ mbStop' = [mbStop EXCEPT ![r] = FALSE]
    /\ UNCHANGED <<mutex, caller, maps, paramMap, mUrl, asked, cleaned, answer, counts>>

\* ... and then reads the url: curl fails at once without one.
Perform(r) ==
    /\ thread[r] = "prepared" /\ Goto(r, IF mUrl[r] THEN "upload" ELSE "fail")
    /\ UNCHANGED <<mutex, caller, maps, paramMap, client, answer, counts>>

\* The server goes on: the request is sent, the answer begins, a part of it arrives, it ends.
Uploaded(r) ==
    /\ thread[r] = "upload" /\ Goto(r, "wait")
    /\ UNCHANGED <<mutex, caller, maps, paramMap, client, answer, counts>>
Begins(r) ==
    /\ thread[r] = "wait" /\ Goto(r, "receive")
    /\ UNCHANGED <<mutex, caller, maps, paramMap, client, answer, counts>>
Part(r) ==
    /\ thread[r] = "receive" /\ parts[r] < MaxParts /\ Goto(r, IF r \in cleaned THEN "receive" ELSE "part")
    /\ parts' = [parts EXCEPT ![r] = @ + 1]
    /\ UNCHANGED <<mutex, caller, maps, paramMap, client, answer, stops>>
Done(r) ==
    /\ thread[r] = "receive" /\ Goto(r, "success")
    /\ UNCHANGED <<mutex, caller, maps, paramMap, client, answer, counts>>
Broken(r) ==
    /\ thread[r] \in Performing /\ Goto(r, "fail")
    /\ UNCHANGED <<mutex, caller, maps, paramMap, client, answer, counts>>

\* onReceiveBody of the manager, which needs the mutex.
ReceiveBody(r) ==
    /\ thread[r] = "part" /\ mutex = Nobody /\ Goto(r, "receive")
    /\ UNCHANGED <<mutex, caller, maps, paramMap, client, answer, counts>>

\* Slip: no timeout.
AbortAsked(r) ==
    /\ thread[r] \in Performing /\ mbStop[r]
    /\ Goto(r, "fail")
    /\ UNCHANGED <<mutex, caller, maps, paramMap, client, answer, counts>>

\* HttpProgress: curl is told to give up when mbStop is set, and sets it itself when nothing
\* came for DWONLOAD_TIMEOUT of an answer that had begun.
Abort(r) ==
    /\ thread[r] \in Performing /\ (mbStop[r] \/ thread[r] = "receive")
    /\ Goto(r, "fail")
    /\ UNCHANGED <<mutex, caller, maps, paramMap, client, answer, counts>>

\* onRun looks whether there is a callback, and calls it or is done: the manager keeps a
\* request that has none.
Call(r) ==
    /\ \/ r \in cleaned /\ thread[r] \in {"success", "fail"} /\ Goto(r, "ended")
       \/ r \notin cleaned /\ thread[r] = "success" /\ Goto(r, "onSuccess")
       \/ r \notin cleaned /\ thread[r] = "fail" /\ Goto(r, "onFail")
    /\ UNCHANGED <<mutex, caller, maps, paramMap, client, answer, counts>>

\* onSuccess or onFail of the manager: the mutex, and the controller's callback, which looks
\* for the parameter that was filed.
Answer(r) ==
    /\ thread[r] \in {"onSuccess", "onFail"} /\ mutex = Nobody
    /\ mutex' = r /\ Goto(r, "called")
    /\ answer' = [answer EXCEPT ![r] = thread[r]]
    /\ paramMap' = paramMap \ {r}
    /\ UNCHANGED <<caller, maps, client, counts>>

\* Slip: the request is deleted and its entry in the map forgotten.
FinishEntryLeft(r) ==
    /\ thread[r] = "called" /\ Goto(r, "ended")
    /\ callbackMap' = callbackMap \ {r} /\ deleted' = deleted \union {r}
    /\ UNCHANGED requestMap
    /\ mutex' = Nobody
    /\ UNCHANGED <<caller, paramMap, client, answer, counts>>

\* The rest of it: the request is deleted and both entries erased.
Finish(r) ==
    /\ thread[r] = "called" /\ Goto(r, "ended")
    /\ callbackMap' = callbackMap \ {r} /\ requestMap' = requestMap \ {r} /\ deleted' = deleted \union {r}
    /\ mutex' = Nobody
    /\ UNCHANGED <<caller, paramMap, client, answer, counts>>

ThreadStep(r) == Prepare(r) \/ Perform(r) \/ ReceiveBody(r) \/ Abort(r)
                 \/ Call(r) \/ Answer(r) \/ Finish(r)
ServerStep(r) == Uploaded(r) \/ Begins(r) \/ Part(r) \/ Done(r) \/ Broken(r)

AllEnded == /\ \A r \in Requests : thread[r] = "ended"
            /\ \A c \in Callers : caller[c] = Idle
            /\ UNCHANGED vars

Step == \/ \E c \in Callers : CallerStep(c) \/ CallerCall(c)
        \/ \E r \in Requests : ThreadStep(r) \/ ServerStep(r)
        \/ AllEnded

Next == Step /\ UNCHANGED setup

\* The threads go on and get the mutex in turn; the server and the callers need do nothing.
Steady == TRUE \notin setup.waits
Fairness ==
    /\ \A c \in Callers : WF_vars(Steady /\ CallerStep(c))
    /\ \A r \in Requests : SF_vars(Steady /\ ThreadStep(r))

Spec == Init /\ [][Next]_<<vars, setup>> /\ Fairness

-----------------------------------------------------------------------------
(* What is to hold                                                         *)

Ids == Requests \union {Invalid}
Places == {Idle} \union [at : {"file"}, id : Requests]
            \union [at : {"stop all"}, left : SUBSET Ids, clean : BOOLEAN]
            \union [at : {"join"}, id : Ids, left : SUBSET Ids, clean : BOOLEAN]

Points == {"none", "ready", "prepared", "part", "success", "fail", "onSuccess", "onFail", "called", "ended"}
            \union Performing

TypeOK ==
    /\ setup \in Setups
    /\ mutex \in Callers \union Requests \union {Nobody}
    /\ caller \in [Callers -> Places]
    /\ thread \in [Requests -> Points]
    /\ requestMap \subseteq Ids /\ callbackMap \subseteq requestMap
    /\ paramMap \subseteq Requests /\ asked \subseteq Requests /\ cleaned \subseteq asked /\ deleted \subseteq Requests
    /\ mbStop \in [Requests -> BOOLEAN] /\ mUrl \in [Requests -> BOOLEAN]
    /\ answer \in [Requests -> {"none", "onSuccess", "onFail"}] /\ stops \in 0..setup.stops
    /\ parts \in [Requests -> 0..MaxParts]

\* Whoever stops requests finds in the map only requests that exist, although each request
\* is deleted by its own thread while others look for it (HttpRequestManager::StopRequest
\* and StopAllRequest against onSuccess and onFail).
NotTouched ==
    /\ requestMap \intersect deleted = {}
    /\ \A c \in Callers : caller[c].at = "join" => caller[c].id \notin deleted

\* Well typed, and no request in use is deleted, in every state of the manager.
RequestsInv == TypeOK /\ NotTouched

\* A request is deleted by its own thread, with the mutex.
ThreadHolds ==
    /\ \A r \in deleted : thread[r] = "ended"
    /\ \A r \in Requests : thread[r] = "called" => mutex = r

\* While StopAllRequest waits for threads to end it has the mutex, and so the ids that it
\* works on stay in the manager's map.
CallerHolds ==
    \A c \in Callers : /\ caller[c].at \in {"stop all", "join"} => mutex = c /\ caller[c].left \subseteq requestMap
                       /\ caller[c].at = "join" => caller[c].id \in requestMap

\* Who holds the mutex, and what follows: this makes RequestsInv inductive.
RequestsIInv == RequestsInv /\ ThreadHolds /\ CallerHolds

\* A request that was stopped comes to its end, although the stop may come before its thread
\* resets mbStop, as long as nobody waits with the mutex (HttpClient::Stop against
\* HttpClient::Request); and whoever made it is called back then, unless StopAllRequest took
\* the callback away (isCleanCallback against HttpRequestRunnable::onRun).
StopEnds ==
    \A r \in Requests :
        Steady => (r \in asked ~> thread[r] = "ended" /\ (answer[r] # "none" \/ r \in cleaned))

\* A request whose answer has begun comes to its end, even if the server stops in the
\* middle of it (HttpClient::HttpProgress).
ReceivingEnds == \A r \in Requests : Steady => (thread[r] = "receive" ~> thread[r] = "ended")
=============================================================================
