------------------------- MODULE HttpRequestsProofs -------------------------
(***************************************************************************)
(* Proofs about HttpRequests, for any number of callers, requests, parts   *)
(* of an answer and stops, waiting or not.                                 *)
(***************************************************************************)
EXTENDS HttpRequests, TLAPS

-----------------------------------------------------------------------------
(* The places of a caller *)

LEMMA PlaceMade ==
  /\ Idle \in Places
  /\ \A r \in Requests : [at |-> "file", id |-> r] \in Places
  /\ \A left \in SUBSET Ids, clean \in BOOLEAN :
       [at |-> "stop all", left |-> left, clean |-> clean] \in Places
  /\ \A id \in Ids, left \in SUBSET Ids, clean \in BOOLEAN :
       [at |-> "join", id |-> id, left |-> left, clean |-> clean] \in Places
BY DEF Places

LEMMA PlaceIs ==
  ASSUME NEW p \in Places
  PROVE  /\ p.at = "idle" => p = Idle
         /\ p.at = "file" => p.id \in Requests
         /\ p.at = "stop all" => p.left \in SUBSET Ids /\ p.clean \in BOOLEAN
         /\ p.at = "join" => p.id \in Ids /\ p.left \in SUBSET Ids /\ p.clean \in BOOLEAN
<1>1. CASE p = Idle
  BY <1>1 DEF Idle
<1>2. CASE p \in [at : {"file"}, id : Requests]
  BY <1>2
<1>3. CASE p \in [at : {"stop all"}, left : SUBSET Ids, clean : BOOLEAN]
  <2> p.at = "stop all" /\ p.left \in SUBSET Ids /\ p.clean \in BOOLEAN
    BY <1>3
  <2> QED OBVIOUS
<1>4. CASE p \in [at : {"join"}, id : Ids, left : SUBSET Ids, clean : BOOLEAN]
  <2> p.at = "join" /\ p.id \in Ids /\ p.left \in SUBSET Ids /\ p.clean \in BOOLEAN
    BY <1>4
  <2> QED OBVIOUS
<1> QED BY <1>1, <1>2, <1>3, <1>4 DEF Places

LEMMA IdleAt == Idle.at = "idle"
BY DEF Idle

LEMMA Moved ==
  ASSUME caller \in [Callers -> Places], NEW c \in Callers, NEW p \in Places,
         caller' = [caller EXCEPT ![c] = p]
  PROVE  /\ caller' \in [Callers -> Places]
         /\ caller'[c] = p
         /\ \A d \in Callers : d # c => caller'[d] = caller[d]
OBVIOUS

LEMMA InitHolds == Init => RequestsIInv
<1> SUFFICES ASSUME Init PROVE RequestsIInv
  OBVIOUS
<1>1. caller \in [Callers -> Places] /\ \A c \in Callers : caller[c] = Idle
  BY PlaceMade DEF Init
<1>2. stops \in 0..setup.stops
  BY HttpAssumption DEF Init
<1>3. thread \in [Requests -> {"none"}] /\ answer \in [Requests -> {"none"}] /\ parts \in [Requests -> {0}]
      /\ mbStop \in [Requests -> {FALSE}] /\ mUrl \in [Requests -> {FALSE}]
  BY DEF Init
<1>4. 0 \in 0..MaxParts
  BY HttpAssumption
<1>5. TypeOK
  BY <1>1, <1>2, <1>3, <1>4 DEF Init, TypeOK, Points
<1>6. NotTouched
  BY <1>1, IdleAt DEF Init, NotTouched
<1>7. ThreadHolds
  BY <1>3 DEF Init, ThreadHolds
<1>8. CallerHolds
  BY <1>1, IdleAt DEF Init, CallerHolds
<1> QED BY <1>5, <1>6, <1>7, <1>8 DEF RequestsIInv, RequestsInv
-----------------------------------------------------------------------------
(* The callers *)

LEMMA StartRequestKeeps ==
  ASSUME RequestsIInv, NEW c \in Callers, StartRequest(c), UNCHANGED setup
  PROVE  RequestsIInv'
<1> USE DEF RequestsIInv, RequestsInv, client, counts, maps, StartRequest
<1>1. PICK r \in Requests : 
        /\ thread[r] = "none" /\ thread' = [thread EXCEPT ![r] = "ready"]
        /\ mUrl' = [mUrl EXCEPT ![r] = TRUE]
        /\ requestMap' = requestMap \union {r} /\ callbackMap' = callbackMap \union {r}
        /\ caller' = [caller EXCEPT ![c] = [at |-> "file", id |-> r]]
  OBVIOUS
<1> DEFINE p == [at |-> "file", id |-> r]
<1>2. p \in Places /\ p.at = "file"
  BY PlaceMade
<1>3. /\ caller' \in [Callers -> Places] /\ caller'[c].at = "file"
      /\ \A d \in Callers : d # c => caller'[d] = caller[d]
  BY <1>1, <1>2, Moved DEF TypeOK
<1>4. /\ thread' \in [Requests -> Points] /\ thread'[r] = "ready"
      /\ \A q \in Requests : q # r => thread'[q] = thread[q]
  BY <1>1 DEF TypeOK, Points
<1>5. TypeOK'
  BY <1>1, <1>3, <1>4 DEF TypeOK, Ids
<1>6. NotTouched'
  BY <1>1, <1>3 DEF NotTouched, ThreadHolds
<1>7. ThreadHolds'
  BY <1>1, <1>4 DEF ThreadHolds
<1>8. CallerHolds'
  BY <1>1, <1>3 DEF CallerHolds
<1> QED BY <1>5, <1>6, <1>7, <1>8

LEMMA NotStartedKeeps ==
  ASSUME RequestsIInv, NEW c \in Callers, NotStarted(c), UNCHANGED setup
  PROVE  RequestsIInv'
<1> USE DEF RequestsIInv, RequestsInv, client, counts, maps, NotStarted
<1>1. TypeOK'
  BY DEF TypeOK, Ids
<1>2. NotTouched'
  BY HttpAssumption DEF TypeOK, NotTouched
<1>3. ThreadHolds' /\ CallerHolds'
  BY DEF ThreadHolds, CallerHolds
<1> QED BY <1>1, <1>2, <1>3

LEMMA FileKeeps ==
  ASSUME RequestsIInv, NEW c \in Callers, File(c), UNCHANGED setup
  PROVE  RequestsIInv'
<1> USE DEF RequestsIInv, RequestsInv, client, counts, maps, File
<1>1. caller[c].id \in Requests
  BY PlaceIs DEF TypeOK
<1>2. /\ caller' \in [Callers -> Places] /\ caller'[c].at = "idle"
      /\ \A d \in Callers : d # c => caller'[d] = caller[d]
  BY PlaceMade, IdleAt, Moved DEF TypeOK
<1>3. TypeOK'
  BY <1>1, <1>2 DEF TypeOK
<1>4. NotTouched' /\ ThreadHolds' /\ CallerHolds'
  BY <1>2 DEF NotTouched, ThreadHolds, CallerHolds
<1> QED BY <1>3, <1>4

\* What HttpClient::Stop changes of the requests with these ids.
LEMMA StopsTyped ==
  ASSUME TypeOK, NEW ids \in SUBSET Ids, Stops(ids)
  PROVE  /\ mbStop' \in [Requests -> BOOLEAN] /\ mUrl' \in [Requests -> BOOLEAN]
         /\ asked' \subseteq Requests /\ cleaned \subseteq asked'
<1>1. mbStop' \in [Requests -> BOOLEAN]
  BY Zenon DEF TypeOK, Stops
<1>2. mUrl' \in [Requests -> BOOLEAN]
  BY Zenon DEF TypeOK, Stops
<1> QED BY <1>1, <1>2 DEF TypeOK, Stops

\* The callback is taken from requests that are stopped.
LEMMA CleansTyped ==
  ASSUME TypeOK, NEW ids \in SUBSET Ids, NEW clean \in BOOLEAN, Stops(ids), Cleans(clean, ids)
  PROVE  cleaned' \subseteq asked'
BY DEF TypeOK, Stops, Cleans

LEMMA StopCounted ==
  ASSUME TypeOK, stops < setup.stops, stops' = stops + 1, UNCHANGED setup
  PROVE  stops' \in 0..setup'.stops
BY HttpAssumption DEF TypeOK

LEMMA StopRequestKeeps ==
  ASSUME RequestsIInv, NEW c \in Callers, StopRequest(c), UNCHANGED setup
  PROVE  RequestsIInv'
<1> USE DEF RequestsIInv, RequestsInv, client, counts, maps, StopRequest
<1>1. PICK id \in requestMap : Stops({id})
  OBVIOUS
<1>2. /\ mbStop' \in [Requests -> BOOLEAN] /\ mUrl' \in [Requests -> BOOLEAN]
      /\ asked' \subseteq Requests /\ cleaned' \subseteq asked'
  BY <1>1, StopsTyped DEF TypeOK
<1>3. TypeOK'
  BY <1>2, StopCounted DEF TypeOK
<1>4. NotTouched' /\ ThreadHolds' /\ CallerHolds'
  BY DEF NotTouched, ThreadHolds, CallerHolds
<1> QED BY <1>3, <1>4

LEMMA StopAllRequestKeeps ==
  ASSUME RequestsIInv, NEW c \in Callers, StopAllRequest(c), UNCHANGED setup
  PROVE  RequestsIInv'
<1> USE DEF RequestsIInv, RequestsInv, client, counts, maps, StopAllRequest
<1>1. stops' \in 0..setup'.stops
  BY StopCounted
<1>2. ASSUME NEW clean \in BOOLEAN, Stops(requestMap), Cleans(clean, requestMap), UNCHANGED <<mutex, caller>>
      PROVE  RequestsIInv'
  <2>1. /\ mbStop' \in [Requests -> BOOLEAN] /\ mUrl' \in [Requests -> BOOLEAN]
        /\ asked' \subseteq Requests /\ cleaned' \subseteq asked'
    BY <1>2, StopsTyped, CleansTyped DEF TypeOK
  <2>2. TypeOK'
    BY <1>1, <1>2, <2>1 DEF TypeOK
  <2>3. NotTouched' /\ ThreadHolds' /\ CallerHolds'
    BY <1>2 DEF NotTouched, ThreadHolds, CallerHolds
  <2> QED BY <2>2, <2>3
<1>3. ASSUME NEW clean \in BOOLEAN, mutex' = c, UNCHANGED client,
             caller' = [caller EXCEPT ![c] = [at |-> "stop all", left |-> requestMap, clean |-> clean]]
      PROVE  RequestsIInv'
  <2> DEFINE p == [at |-> "stop all", left |-> requestMap, clean |-> clean]
  <2>1. /\ caller' \in [Callers -> Places] /\ caller'[c] = p
        /\ \A d \in Callers : d # c => caller'[d] = caller[d]
    BY <1>3, PlaceMade, Moved DEF TypeOK
  <2>2. p.at = "stop all" /\ p.left = requestMap
    OBVIOUS
  <2> HIDE DEF p
  <2>3. \A d \in Callers : caller[d].at \notin {"stop all", "join"}
    BY HttpAssumption DEF CallerHolds, Nobody
  <2>4. \A r \in Requests : thread[r] # "called"
    BY HttpAssumption DEF ThreadHolds, Nobody
  <2>5. TypeOK'
    BY <1>1, <1>3, <2>1 DEF TypeOK
  <2>6. NotTouched'
    BY <2>1, <2>2 DEF NotTouched
  <2>7. ThreadHolds'
    BY <2>4 DEF ThreadHolds
  <2>8. CallerHolds'
    BY <1>3, <2>1, <2>2, <2>3 DEF CallerHolds
  <2> QED BY <2>5, <2>6, <2>7, <2>8
<1>4. \A wait \in setup.waits, clean \in setup.cleans : wait \in BOOLEAN /\ clean \in BOOLEAN
  BY HttpAssumption DEF TypeOK
<1> QED BY <1>2, <1>3, <1>4

LEMMA StopNextKeeps ==
  ASSUME RequestsIInv, NEW c \in Callers, StopNext(c), UNCHANGED setup
  PROVE  RequestsIInv'
<1> USE DEF RequestsIInv, RequestsInv, client, counts, maps, StopNext
<1> DEFINE p(id) == [at |-> "join", id |-> id, left |-> caller[c].left \ {id}, clean |-> caller[c].clean]
<1>1. PICK id \in caller[c].left :
        Stops({id}) /\ Cleans(caller[c].clean, {id}) /\ caller' = [caller EXCEPT ![c] = p(id)]
  OBVIOUS
<1>2. caller[c].left \in SUBSET Ids /\ caller[c].clean \in BOOLEAN
  BY PlaceIs DEF TypeOK
<1>3. p(id) \in Places /\ p(id).at = "join" /\ p(id).id = id /\ p(id).left = caller[c].left \ {id}
  BY <1>2, PlaceMade
<1>4. /\ caller' \in [Callers -> Places] /\ caller'[c] = p(id)
      /\ \A d \in Callers : d # c => caller'[d] = caller[d]
  BY <1>1, <1>3, Moved DEF TypeOK
<1>5. /\ mbStop' \in [Requests -> BOOLEAN] /\ mUrl' \in [Requests -> BOOLEAN]
      /\ asked' \subseteq Requests /\ cleaned' \subseteq asked'
  BY <1>1, <1>2, StopsTyped, CleansTyped
<1> HIDE DEF p
<1>6. TypeOK'
  BY <1>4, <1>5 DEF TypeOK
<1>7. mutex = c /\ caller[c].left \subseteq requestMap
  BY DEF CallerHolds
<1>8. NotTouched'
  BY <1>3, <1>4, <1>7 DEF NotTouched
<1>9. ThreadHolds'
  BY DEF ThreadHolds
<1>10. CallerHolds'
  BY <1>3, <1>4, <1>7 DEF CallerHolds
<1> QED BY <1>6, <1>8, <1>9, <1>10

LEMMA JoinKeeps ==
  ASSUME RequestsIInv, NEW c \in Callers, Join(c), UNCHANGED setup
  PROVE  RequestsIInv'
<1> USE DEF RequestsIInv, RequestsInv, client, counts, maps, Join
<1> DEFINE p == [at |-> "stop all", left |-> caller[c].left, clean |-> caller[c].clean]
<1>1. caller[c].left \in SUBSET Ids /\ caller[c].clean \in BOOLEAN
  BY PlaceIs DEF TypeOK
<1>2. p \in Places /\ p.at = "stop all" /\ p.left = caller[c].left
  BY <1>1, PlaceMade
<1>3. /\ caller' \in [Callers -> Places] /\ caller'[c] = p
      /\ \A d \in Callers : d # c => caller'[d] = caller[d]
  BY <1>2, Moved DEF TypeOK
<1> HIDE DEF p
<1>4. TypeOK'
  BY <1>3 DEF TypeOK
<1>5. NotTouched' /\ ThreadHolds'
  BY <1>2, <1>3 DEF NotTouched, ThreadHolds
<1>6. CallerHolds'
  BY <1>2, <1>3 DEF CallerHolds
<1> QED BY <1>4, <1>5, <1>6

LEMMA AllStoppedKeeps ==
  ASSUME RequestsIInv, NEW c \in Callers, AllStopped(c), UNCHANGED setup
  PROVE  RequestsIInv'
<1> USE DEF RequestsIInv, RequestsInv, client, counts, maps, AllStopped
<1>1. /\ caller' \in [Callers -> Places] /\ caller'[c].at = "idle"
      /\ \A d \in Callers : d # c => caller'[d] = caller[d]
  BY PlaceMade, IdleAt, Moved DEF TypeOK
<1>2. mutex = c /\ \A d \in Callers : d # c => caller[d].at \notin {"stop all", "join"}
  BY DEF CallerHolds
<1>3. \A r \in Requests : thread[r] # "called"
  BY <1>2, HttpAssumption DEF ThreadHolds
<1>4. TypeOK'
  BY <1>1 DEF TypeOK
<1>5. NotTouched' /\ ThreadHolds' /\ CallerHolds'
  BY <1>1, <1>2, <1>3 DEF NotTouched, ThreadHolds, CallerHolds
<1> QED BY <1>4, <1>5

-----------------------------------------------------------------------------
(* The thread of a request *)

\* A step that moves a thread that is not done, and changes nothing that the mutex protects.
LEMMA MovesKeeps ==
  ASSUME RequestsIInv, NEW r \in Requests, NEW to \in Points \ {"called"}, Goto(r, to),
         thread[r] \notin {"called", "ended"},
         mbStop' \in [Requests -> BOOLEAN], parts' \in [Requests -> 0..MaxParts],
         UNCHANGED <<setup, mutex, caller, maps, paramMap, mUrl, asked, cleaned, answer, stops>>
  PROVE  RequestsIInv'
<1> USE DEF RequestsIInv, RequestsInv, maps, Goto
<1>1. /\ thread' \in [Requests -> Points] /\ thread'[r] = to
      /\ \A q \in Requests : q # r => thread'[q] = thread[q]
  BY DEF TypeOK
<1>2. TypeOK'
  BY <1>1 DEF TypeOK
<1>3. NotTouched' /\ CallerHolds'
  BY DEF NotTouched, CallerHolds
<1>4. ThreadHolds'
  BY <1>1 DEF ThreadHolds
<1> QED BY <1>2, <1>3, <1>4

LEMMA AnswerKeeps ==
  ASSUME RequestsIInv, NEW r \in Requests, Answer(r), UNCHANGED setup
  PROVE  RequestsIInv'
<1> USE DEF RequestsIInv, RequestsInv, client, counts, maps, Answer, Goto
<1>1. /\ thread' \in [Requests -> Points] /\ thread'[r] = "called" /\ thread[r] \in {"onSuccess", "onFail"}
      /\ \A q \in Requests : q # r => thread'[q] = thread[q]
  BY DEF TypeOK, Points
<1>2. \A q \in Requests : thread[q] # "called"
  BY HttpAssumption DEF ThreadHolds, Nobody
<1>3. \A d \in Callers : caller[d].at \notin {"stop all", "join"}
  BY HttpAssumption DEF CallerHolds, Nobody
<1>4. TypeOK'
  BY <1>1 DEF TypeOK
<1>5. NotTouched'
  BY DEF NotTouched
<1>6. ThreadHolds'
  BY <1>1, <1>2 DEF ThreadHolds
<1>7. CallerHolds'
  BY <1>3 DEF CallerHolds
<1> QED BY <1>4, <1>5, <1>6, <1>7

LEMMA FinishKeeps ==
  ASSUME RequestsIInv, NEW r \in Requests, Finish(r), UNCHANGED setup
  PROVE  RequestsIInv'
<1> USE DEF RequestsIInv, RequestsInv, client, counts, maps, Finish, Goto
<1>1. /\ thread' \in [Requests -> Points] /\ thread'[r] = "ended"
      /\ \A q \in Requests : q # r => thread'[q] = thread[q]
  BY DEF TypeOK, Points
<1>2. mutex = r /\ \A q \in Requests : q # r => thread[q] # "called"
  BY DEF ThreadHolds
<1>3. \A d \in Callers : caller[d].at \notin {"stop all", "join"}
  BY <1>2, HttpAssumption DEF CallerHolds
<1>4. TypeOK'
  BY <1>1 DEF TypeOK
<1>5. NotTouched'
  BY <1>3 DEF NotTouched
<1>6. ThreadHolds'
  BY <1>1, <1>2 DEF ThreadHolds
<1>7. CallerHolds'
  BY <1>3 DEF CallerHolds
<1> QED BY <1>4, <1>5, <1>6, <1>7

-----------------------------------------------------------------------------
(* The invariant *)

LEMMA ThreadKeeps ==
  ASSUME RequestsIInv, NEW r \in Requests, ThreadStep(r) \/ ServerStep(r), UNCHANGED setup
  PROVE  RequestsIInv'
<1>1. /\ mbStop \in [Requests -> BOOLEAN] /\ parts \in [Requests -> 0..MaxParts]
      /\ thread \in [Requests -> Points]
  BY DEF RequestsIInv, RequestsInv, TypeOK
<1> USE DEF client, counts, Points, Performing
<1>2. CASE Prepare(r)
  BY <1>1, <1>2, MovesKeeps DEF Prepare
<1>3. CASE Perform(r)
  BY <1>1, <1>3, MovesKeeps DEF Perform
<1>4. CASE Uploaded(r)
  BY <1>1, <1>4, MovesKeeps DEF Uploaded
<1>5. CASE Begins(r)
  BY <1>1, <1>5, MovesKeeps DEF Begins
<1>6. CASE Part(r)
  <2>1. parts' \in [Requests -> 0..MaxParts]
    BY <1>1, <1>6, HttpAssumption DEF Part
  <2> QED BY <1>1, <1>6, <2>1, MovesKeeps DEF Part
<1>7. CASE Done(r)
  BY <1>1, <1>7, MovesKeeps DEF Done
<1>8. CASE Broken(r)
  BY <1>1, <1>8, MovesKeeps DEF Broken
<1>9. CASE ReceiveBody(r)
  BY <1>1, <1>9, MovesKeeps DEF ReceiveBody
<1>10. CASE Abort(r)
  BY <1>1, <1>10, MovesKeeps DEF Abort
<1>11. CASE Answer(r)
  BY <1>11, AnswerKeeps
<1>12. CASE Finish(r)
  BY <1>12, FinishKeeps
<1>13. CASE Call(r)
  BY <1>1, <1>13, MovesKeeps DEF Call
<1> QED BY <1>2, <1>3, <1>4, <1>5, <1>6, <1>7, <1>8, <1>9, <1>10, <1>11, <1>12, <1>13 DEF ThreadStep, ServerStep

LEMMA CallerKeeps ==
  ASSUME RequestsIInv, NEW c \in Callers, CallerStep(c) \/ CallerCall(c), UNCHANGED setup
  PROVE  RequestsIInv'
BY StartRequestKeeps, NotStartedKeeps, FileKeeps, StopRequestKeeps, StopAllRequestKeeps, StopNextKeeps,
   JoinKeeps, AllStoppedKeeps DEF CallerStep, CallerCall

LEMMA StepKeeps == RequestsIInv /\ [Next]_<<vars, setup>> => RequestsIInv'
<1>1. ASSUME RequestsIInv, UNCHANGED <<vars, setup>> PROVE RequestsIInv'
  BY <1>1 DEF RequestsIInv, RequestsInv, TypeOK, NotTouched, ThreadHolds, CallerHolds, vars, maps, client, counts
<1>2. ASSUME RequestsIInv, Next PROVE RequestsIInv'
  BY <1>1, <1>2, CallerKeeps, ThreadKeeps DEF Next, Step, AllEnded
<1> QED BY <1>1, <1>2

\* The mutex protects what it is meant to in every state, for any numbers of callers and
\* requests and whatever stops are asked for: mKMutex of HttpRequestManager.
THEOREM MutexKept == Spec => []RequestsIInv
BY InitHolds, StepKeeps, PTL DEF Spec

\* No request that is deleted is found in the map or waited for by StopAllRequest.
THEOREM RequestsKept == Spec => []RequestsInv
BY MutexKept, PTL DEF RequestsIInv
=============================================================================
