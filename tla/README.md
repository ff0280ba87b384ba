# A TLA+ verification project for testIPv6

The repository is a collection of network code: the client side of a game
connection that runs the kcp protocol over TCP or UDP (`client_network_kcp`), a
handful of socket libraries and event loops (`libchen_libsocket`, `hast`,
`lightcone`, `netLink`, `libsocket`), a task scheduler and heartbeat
(`CppUtile`), a packet tracker (`mpstatd`), the common libraries of a chat
product, and many samples and vendored sources.  What has the most state and
the hardest behaviour is kcp: a selective-repeat protocol that has to be right
for every order in which segments are lost, repeated, reordered, refused by the
output callback or sent again.  The project starts there, with the buffers, the
output path and the connections around it, and goes on with the concurrent parts:
a thread pool, a task scheduler, and of the chat product's library its transport,
its http requests, its logins and its messages that wait for coupons.

## 1. Inventory

The components are listed in `PROJECT.json`, all of them; here are those with
logic of their own.  Line numbers are those of the sources under `src/`.

| Component | State | Operations | Interacts with | What is hard | What makes it correct |
|---|---|---|---|---|---|
| kcp control block (`client_network_kcp/ikcp.c`) | `snd_queue`, `snd_buf`, `snd_nxt`, `snd_una`, `rcv_buf`, `rcv_queue`, `rcv_nxt`, `acklist`, `rmt_wnd`, `probe`, timers | `ikcp_send`, `ikcp_recv`, `ikcp_input`, `ikcp_update`/`ikcp_flush` | its peer, by segments; `ConnectionManager`, by the callbacks `output` and `canoutput` | loss, duplication, reordering, stale windows, a flush cut short, the closed window | each byte delivered once and in order; nothing freed too early; windows respected; everything arrives |
| `ConnectionManager` (`network_connection_manager.cpp`) | transport, connect and kcp status, conv, four ring buffers | `ConnectLogicServer`, `ReconnectLogicServer`, `CloseLogicConnect`, `SendOneCode`, `ReceiveOneCode`, `Update` | the control block, the sockets, the application | the conv handshake; `canoutput` promising room that `KcpOutput` then uses; a reconnect keeping the control block | no packet of the flush is dropped; the key and the request for a conv go first; statuses agree |
| ring buffer (`common_algorithm.h`) | two indices and a byte array | `WriteOneCode`, `GetOneCode`, `WriteDataToBuffer`, `CopyDataFromBuffer`, `RemoveDataFromBuffer` | `ConnectionManager` | indices that wrap, full against empty, packets with a length prefix | a bounded FIFO of bytes |
| thread pool and semaphore (`libchen_libsocket/lib/libchen`) | queue, exit flag, count | `post`, `run`, `clean` | worker threads | shutdown against waiting workers | every task runs once; every worker ends |
| reactor (`libchen_libsocket/src/core`) | handlers, timers in a heap, queue of events | `set`, `del`, `poll`, `stop` | handlers, which call it back | `del` of something already queued; expired timers among repeating ones | each expiry is reported once; nothing is reported after `del` |
| task scheduler (`CppUtile/Task`) | queue, set and timeout heap of a thread | `AddTask`, `WaitForTask`, `Run` | threads that push events | unlocked reads of set and heap; deletion | an event that is set is looked at, one that was pushed is popped unless an overlapping `\|=` or `-=` wipes it |
| live chat transport (`common-c-library/livechat`) | list of tasks to send, map of tasks sent, socket, flags | login, logout, requests; send, receive and heartbeat threads | the manager, which it calls back; the chat server | an answer before the task is in the map; a stop at any moment; joins under locks | a task is in one place and called back once; a stop ends |
| http requests (`common-c-library/manrequesthandler`, `httpclient`) | maps of requests, one mutex, a thread per request | `StartRequest`, `StopRequest`, `StopAllRequest`, callbacks | curl; controllers, which call the manager | callbacks under the mutex; stops before the thread has begun | nobody touches a deleted request; a stopped request ends, with an answer unless its callback was taken away |
| live chat manager (`common-c-library/livechatmanmanager`) | flags of the login, queue of tasks, for each user a list of messages, maps of messages under way | `Login`, `Logout`, `Relogin`, `SendTextMessage`, `SendPhoto`, `CheckCoupon`; callbacks of client and requests | the two components above, a request thread of its own | four threads over one list; logins that cross; notes made after the request | a message is sent once or fails; the manager connects again |
| heartbeat (`CppUtile/Heartbeat`) | counters per peer | beat, check | a thread | late answers | a silent peer is reported, a live one is not |
| hast server and client (`hast/hast`) | socket table, status of the threads, pending messages | `execute`, `get_client`, `close_socket`, client `fireAndWait` | threads sharing an epoll set | closed descriptors reused | a message is answered once |
| lightcone (`lightcone/lightcone`) | message queue, buffers, poller | `post`, `get` | threads | no wake-up on `post` | each message is got once and in order |
| mpstatd sequence list (`mpstatd/mseqlist.c`) | list of ranges | insert, merge | packet capture | ranges that overlap or wrap | the list is the union of what was seen |

The remaining components are wrappers of system calls, parsers and formatters,
samples, exercises and vendored code; `PROJECT.json` names them and says why they
are left out.

`PROJECT.json` also lists, at its line, every behaviour of this code found so
far that is hard to test ("hazards").  A hazard that names no property yet is
one that the models do not reach; its note says why.

## 2. Modules

| Module | Models |
|---|---|
| `Kcp` | two control blocks and the network between them (`ikcp.c`) |
| `ByteStream` | what they promise: a stream of bytes each way |
| `MCKcp` | `Kcp` for TLC: who writes |
| `KcpProofs` | theorems about `Kcp`, checked by TLAPS |
| `RingBuffer` | the ring buffer behind the four queues of `ConnectionManager` (`common_algorithm.h`) |
| `ByteQueue` | what it promises: a bounded first-in-first-out queue of bytes |
| `MCRingBuffer` | `RingBuffer` for TLC |
| `FlushOutput` | the output of a flush over TCP: `ikcp_flush`, `canoutput`, `KcpOutput`, `m_un_send_queue` |
| `SendQueueProofs` | theorems about `RingBuffer` and `FlushOutput`, the queue of bytes to send and what fills it |
| `ThreadPool` | the thread pool and the semaphore of libchen |
| `MCThreadPool`, `ThreadPoolProofs` | `ThreadPool` for TLC: who posts what; theorems about it |
| `Connection` | how `ConnectionManager` gets and keeps a session over TCP or UDP (`network_connection_manager.cpp`, `tcp_connection.cpp`, `udp_session.cpp`) |
| `TaskScheduler` | the task scheduler of `CppUtile/Task` |
| `LiveChatTransport` | `CLiveChatClient` over `CTaskManager` over `CTransportDataHandler` |
| `HttpRequests` | `HttpRequestManager` of `manrequesthandler`, `HttpRequest`, `HttpClient`, `KThread` |
| `ManagerLogin` | logins, logouts and logins by itself of `LiveChatManManager` |
| `CouponSend` | messages of `LiveChatManManager` that wait for the history or a coupon |
| `ConnectionProofs`, `TaskSchedulerProofs`, `LiveChatTransportProofs`, `HttpRequestsProofs` | theorems about the modules they are named after |
| `LiveChatManManagerProofs` | theorems about `CouponSend` and `ManagerLogin`, the two models of `LiveChatManManager` |
| `MCConnection`, `MCTaskScheduler`, `MCLiveChatTransport`, `MCHttpRequests`, `MCManagerLogin`, `MCCouponSend` | these for TLC: their setups |

### Kcp

Each variable is a function of the endpoint and named as the field of
`struct IKCPCB` it stands for.  A byte is its position in the stream given to
`ikcp_send`, and a payload an interval of positions, so that "the right bytes,
once and in order" is a statement about intervals and needs no contents.

| Code | Model |
|---|---|
| `snd_queue` | sequence of payloads not numbered yet |
| `snd_buf` with `segment->xmit` | `snd_buf`, the numbers outstanding, and `xmit`, those of them sent at least once |
| the payloads of `snd_buf` | `log`, the payloads of all numbers ever given (a history variable) |
| `rcv_buf`, `rcv_queue` | payloads ahead of order by number; payloads in order |
| `acklist` | set of numbers.  A number pushed twice between two flushes is acknowledged once in the model, twice in the code; the network may repeat it anyway |
| `rmt_wnd`, `probe`, `probe_wait # 0` | `rmt_wnd`, `probe`, `probing` |
| what `ikcp_recv` returned so far | `delivered` (a history variable) |
| sockets and the network | `net[p]`: segments on their way to `p`, a set: reordering is free, loss and duplication count in `faults` |

| Code | Action or operator |
|---|---|
| `ikcp_send` (475-552) | `Send`: the extension of the tail in stream mode, the division into fragments, the failure with too many fragments, which keeps the extension |
| `ikcp_recv` (358-439) | `Recv`: whole payloads while they fit, the head of `rcv_buf` moved to `rcv_queue`, the flag that tells the peer the window is open |
| `ikcp_input` (761-905) | `Receive`, `ReceiveTwice`: `AckInput` (`parse_una`, `parse_ack`, `shrink_buf`), then one of `PushInput` (`parse_data`), `WaskInput`, `OtherInput` |
| `ikcp_flush` (922-1158) | `FlushStopsAtAck`, `FlushStopsAtProbe`, `FlushData`: a flush that ends in the acknowledgements, at a probe, or reaches the data |
| `canoutput` that returns an error | the choice of where the flush ends |
| loss | `Lose` |

What is abstracted: the clock (whether a timer has run out is a free choice;
a retransmission because of `fastack` is one that comes early), the packing of
segments into datagrams (`ConnectionManager::ReceiveData` gives `ikcp_input` one
segment at a time, so packing decides only which encoded segments have left
when a flush is cut short: the sets `out`), congestion control (switched off by
`NewKcp`) and the wrap of 32-bit numbers.

`ByteStream` knows only how many bytes each end has written and read.
`ImplementsStream` says that `Kcp` implements it under the mapping
`read <- ReadBytes`.

### RingBuffer

The array, the read and the write position are the fields of the class;
`Written` and `FirstBytes` are the one or two `memcpy` of a write and of a read.
A call that is refused changes nothing and is left out.  `CodeLength` stands for
`CCodeEngine::decode_int32`: what a code's first bytes mean may be any function
of them, so nothing depends on the byte order.  `moved` is what the last call
took from its caller or gave it.  `ByteQueue` has a sequence instead of the array
and the positions; the refinement maps it to `Contents`, the bytes from the read
position on, round the end of the array.

### FlushOutput

`Kcp` lets a flush be refused anywhere.  `FlushOutput` is where a refusal comes
from when `ConnectionManager` sends over TCP, and what makes it necessary: the
output callback cannot refuse.  It counts bytes only: `size` in `kcp->buffer`,
`used` in `m_un_send_queue` (a queue of bytes, as `RingBuffer` shows).

| Code | Action |
|---|---|
| `NewKcp` (802-826) after `DestroyKcp` | `NewKcp`, and `FlushInit` |
| `ConnectLogicServer`, `ReconnectTcpLogicServer` | `Connect` |
| `CloseLogicConnect` (118-132) | `CloseLogicConnect` |
| `GetConvFromServer` (391-428) | `GetConvFromServer` |
| `Update` (757-784) without a flush | `UpdateOnly` |
| `Update` up to `ikcp_flush` | `StartFlush`, which chooses what there is to encode |
| each acknowledgement and probe (947-1026) | `FlushControl` |
| each segment of `snd_buf` (1099-1122) | `FlushSegment` |
| what remains in the buffer (1130-1134), and `SendData()` | `FlushRemain` |

How much the socket takes at each `SendData()` is a free choice.  Everything
runs on the application's thread, so no connect or close interrupts a flush.
Over UDP `canoutput` always agrees and nothing is queued, which `Kcp` covers.

### ThreadPool

A section that holds a mutex is one step; between two of them any thread may
run.  So `post()` is `Push` (queue, under the pool's mutex) and `Announce` (the
permit, under the semaphore's), and a worker goes through `Wait`, `Look` and
`Finish`; `clean()` is `SetExit`, a `PostExit` for each thread, `StartJoin` and
`Joined`.  `exit` is atomic and written without a lock, and of its two readings
in `run()` only one decides, so `Look` is one step.  The condition variable may
wake a sleeper for no reason (`SpuriousWake`).  The owner posts until it begins
to destroy the pool; a running task may post at any time.

### Setups

The modules below have a constant `Setups`: a set of records that say which kinds
of trouble a behaviour may have (requests that fail, answers that come before their
request was noted, how often a connection is lost).  A behaviour chooses one at its
beginning and keeps it.  So one run checks the safety properties where everything
may go wrong, and the liveness properties where the code can be expected to make
progress: these are stated as `Steady => ...`, and fairness is assumed only there.
What a setup excludes, and why, is told with each module and in section 6.

### Connection

A unit is what TCP may split and UDP may lose: the key that opens a TCP stream, a
request for a conv, a segment.  `tcp` and `udp` are the two sockets with what is
under way on them; `cut` and `half` are the ends of the queues that may hold a part
of a unit; `tcp.wire` is what the server has made of the stream so far.

| Code | Action |
|---|---|
| `ConnectLogicServer`, `ReconnectLogicServer` (87-217) | `ConnectLogicServer`, `ReconnectLogicServer`, with `SwitchTransport`, `KeepTransport`, `ConnectAnew` for their branches |
| `CloseLogicConnect`, `ChangeAddress` | the same names |
| `SetUseUdpInLogic`, `SetUseTcpInLogic` | `SetUse` |
| `SendOneCode`, `ReceiveOneCode`, and the `Update` they call | `SendOneCode`, `SendOneCodeFull`, `ReceiveOneCode`; what they send and receive is `UpdateTcp`, `UpdateUdp` |
| the server, the network | `ServerSends`, `TcpEnds`, `TcpLate`, `UdpLost` |

Setups: `reach`, the transports that get through; `uses`, what the application
allows; `closing`, whether it closes before it changes the address, or connects
again over TCP alone (if not, the code mixes streams: section 6); `patient`, whether
it waits for an answer that can still come before it connects again.

### TaskScheduler

`m_Events` is changed by `|=` and `-=` without a lock, so each is a load and a
store; the looks of `AddTask` and `WaitForTask` at a set and a heap before they take
the lock are steps of their own.  `push` is where a pusher is in
`Task::PushEvents`/`AddTask`, `run` where a thread is in `Entry`/`WaitForTask`.  Time
is an order: `due` holds the timers whose time has come, the earliest first.  A wait
computed from a time read too early is the boolean `endless`.  `overlap` is a history
variable: the tasks whose events two threads have popped at once (section 6); `fate`, what
became of each event that was pushed, is another.  Setups: which threads and tasks there are and which events the clients push, with a delay or not.

### LiveChatTransport

A task is its number; `kinds` says which request it is, so that an answer leads to
the next request as in `OnTaskDone`.  `app`, `recv`, `send`, `beat` and `user` are
where the five threads are.  `StopProc` is `Stop` and `Joined`; `RecvThreadProc` is
`NextAddress`, `Connecting`, `Connected`, `OnConnect`, `StartSending`, `Answer`, `OnRecv`,
`RecvEnds`, `RecvDisconnect`, `SendJoined`, `OnDisconnect`, `BeatJoined`; `SendProc` is
`PopTask`, `Pack`, `SendPacket`, `OnSend`, `SendFailed`.  `freed` and `lost` are history
variables: tasks deleted, and tasks dropped when packing or sending failed.  Setups:
addresses, logins, requests and heartbeats.

### HttpRequests

The thread of a request goes through `Prepare` and `Perform` (`HttpClient::Request`
up to curl), curl's and the server's steps, `Call` (`onRun`, which looks whether there is a
callback), and `Answer` and `Finish` (`onSuccess`/`onFail`, with the mutex held in between).
`StopAllRequest(true)` is `StopAllRequest`, `StopNext` and `Join` for each request, and
`AllStopped`.  `isCleanCallback` takes the callback away: such a request is in `cleaned`, its
thread calls nobody, and it stays in the map for good.  Setups: with which `bWait` and
`isCleanCallback` `StopAllRequest` is called, and how often.

### ManagerLogin

`pc` is where the application, the receive thread and the request threads are in
`Login`, `Logout`, `Relogin`, `AutoRelogin` and the callbacks `OnLogin` and `OnLogout`,
each cut where it reads a flag without a lock, waits for a thread or takes
`m_startLock`.  `recv` is what the connection is about (connecting, version, login,
on line).  Setups: `early`, whether a connection may fail before `Login` returned;
`silent`, whether one may be lost before the version check was answered; what `Logout`
is called with; and bounds.  Each behaviour has one of them as its `scenario`.  `crossed` is a
history variable: two logins have restarted the connection at once (section 6).

### CouponSend

`sendList`, `sendingMap` and `requestMap` are where a message may wait; `hand` is the
message that a thread has sent and not noted yet, since `AddSendingItem` comes after
the sending; `tasks` is `m_requestQueue`.  The http requests are counts, of each kind
and user; their callbacks run one at a time and hold the mutex that starting a
request needs (`MutexFree`), as `HttpRequests` shows.  `autoLogin` is `m_isAutoLogin`, which a
`Logout(false)` or a failed login (`IsAutoRelogin`) clears and a `Login` sets: with it `OnLogout`
and `OnLoginFail` reset the photos and the history, without it they leave them alone, and
`SendMsgWithCoupon` neither sends nor queues (`SendLater`); the messages it has turned away
are in `turned`, a history variable.  `Logout(true)`, which also stops the request thread,
empties its queue and forgets the users with their messages, and logins whose threads cross, are left to `ManagerLogin`.  Setups:
`early`, whether an answer may come before its request was noted; `failures`, whether
requests may fail to start; which messages are written and which of them are photos; and
bounds, of which `outs` counts logouts and failed logins.  `Kept` names what
the code forgets by itself: a message whose answer was early, one that was turned away, and
a photo whose upload was under way when the connection was lost or a login failed
(section 6).  `OnEndTalk` is in
the model only as the change of the chat type: the code also deletes messages that
lists still point to (section 6), and what follows is undefined.

## 3. Runs

The runs of `MCKcp` switch the deadlock check off because the system really
stops: the bounds on bytes and faults end every behaviour.  So does
`pool_shutdown`: a pool that was destroyed does nothing more.  That it gets there
is `PoolEnds`.  In the other runs that switch it off the application and the
network may simply be done, or the code itself comes to a standstill (section 6);
what must go on there is stated as liveness.

| Run | Shows | Bounds |
|---|---|---|
| `kcp_loss` | `InOrder`, `NoEarlyRelease`, `WindowBounds`, `NeverBack`: exactly once and in order, nothing freed early, nothing undone | three payloads, windows of two, one fault anywhere, a datagram in flight each way while another is sent (`NetCap` 2): a hole in the window, a duplicate that comes after the hole is filled, and a late una |
| `kcp_send` | `Partition`, `ImplementsStream` | `mss` 2 and calls of 1, 2, 3 and 5 bytes, at most two fragments: below, at and above a multiple of `mss`, with a tail to extend, and refused after the extension |
| `kcp_live` | `TwoWindows`, `IInv`, the inductive invariant of the proofs, and `EverythingArrives` | four payloads, a window of one, two faults, `canoutput` refusing anywhere: a stale window needs one segment delayed while others pass it |
| `ring_queue` | `ImplementsQueue` | an array of six bytes of two values, headers of two bytes, inputs of up to five bytes: every pair of positions, every amount of data and every place where the end of the array falls in a code |
| `flush_room` | `RoomInv` (`BufferBounded`, `Promised`), `NeverDropped` | `mtu` 5, a queue of 9, segments of 2 to 5 bytes, up to three acknowledgements or probes and three payloads: buffers that are output early, exactly full or cut short, in front of a queue that is empty, partly drained or nearly full |
| `pool_shutdown` | `PermitsMatch`, `NoLostWakeup`, `AllRunOnce`, `PoolEnds`, `TasksRun` | three workers, three tasks, one of which another posts, a fast pool and one that is not, destroyed at any moment: workers asleep, awake and running at once, and a post during destruction |
| `connection` | `Framed`, `Aligned`, `SessionInv` (`ConvOfTarget`, `KeyOfConv`, `OneRequest`), `SessionKept`, `Connects` | two servers with two convs each, both transports and every change of what is allowed, two ends or changes of address: an answer of the server before, of the connection before and of the transport before; and, for `Connects`, one server and one transport that gets through |
| `tasks` | `SchedulerInv` (`NotStranded`), `TimerFires`, `Handled` | one thread, one client, three pushes, two timers; two tasks with kill events, and one with delays: every interleaving of a push with every look of the thread; and two threads, of which both may have the one task, with two pushes |
| `chat` | `TransportInv` (`HeldOnce`), `Swept`, `StopEnds`, `LossNoticed`, `DisconnectEnds` | two logins, a request, two addresses and a heartbeat, or one address and none: a task of the first connection in any place while the second begins |
| `http` | `RequestsInv` (`NotTouched`), `StopEnds`, `ReceivingEnds` | two callers, two requests, an answer in two parts, two stops that wait or not and take the callback away or not: a stop of one request meets the end of the other |
| `coupon` | `MessagesInv` (`Owned`), `Unasked`, `FinalStays`, `FlowEnds` | one user; two texts, or a text and a photo, or a photo and a lost connection, or a text with a check by the application, or with a logout or a failed login: two flows for one user under way at once, a message that is turned away, and an upload that outlives its connection; `FlowEnds` with two texts, or one and a lost connection |
| `login` | `LoginInv` (`SessionAlive`), `Pending`, `Reconnects` | two logins, a logout, a `Relogin`, a lost connection and two request threads: every pair of logins that cross; or a login, a `Relogin` and two lost connections; or two logins and a lost connection, where the second may cross a login of the request thread |

An invariant with others in brackets is their conjunction with the `TypeOK` of the
module.  `kcp_live` checks the types of `Kcp` with `IInv`; those of `RingBuffer` and
`ThreadPool` no run checks, because `RingTypes` and `PoolTypes` prove them.

`MaxBytes`, `MaxFaults`, `NetCap` (segments under way to each end at once),
`MaxControl` and `MaxData` are bounds of the model, not of the code.
Each of the properties speaks of one hole, one stale segment or one closed
window at a time, which these sizes reach; the proofs remove the bounds for all
but `EverythingArrives`.  The runs of `Kcp` have one
end write and the other acknowledge; that both may write is covered by the proofs,
which hold for every `Writers`.

Each property is tied to the code by a mutant: a definition marked "Slip" is a
plausible mistake (an acknowledged number that is one too high, a
window counted from `snd_nxt`, a probe timer that asks nothing) under which TLC
must find that property violated.

### Fairness

`FairSpec` assumes what `ConnectionManager::Update` and `ikcp_update` do when
they are called again and again, as the application's loop calls them: a flush
that is not refused (`FlushAll`, with the timers run out: an interval later they
have), a read into a buffer that takes at least a segment (`ReceiveData` offers
the free room of `m_receive_queue`, which the application empties), and a
network that delivers a segment which it does not lose and which stays under
way.  Losses are finite in number (`MaxFaults`), as they must be for anything to
arrive.  Refused flushes may come between in any number.

For `ThreadPool` it assumes that the scheduler forgets no thread that can go on,
that tasks return, and that the owner finishes a post or a destruction it has
begun.  Nobody has to post or to destroy, and no spurious wake-up has to come.

In the modules with setups fairness holds under `Steady` (`Patient` in `Connection`)
and is:

- `Connection`: the application connects again when it has nothing to hope for and
  closes after an exit; what is tried again and again on the transport that gets
  through works in the end (strong fairness of sending, asking, taking, dialling).
- `TaskScheduler`: the one thread and the pushers go on, and time passes.  Nothing is assumed
  of the order of their loads and stores of `m_Events`.
- `LiveChatTransport`: the threads go on, and a socket that was shut or that the server
  has closed makes `recv` return.  Nobody has to log in, send or answer.
- `HttpRequests`: each request's thread goes on and gets the mutex in turn (strong fairness
  of its steps), and curl calls `HttpProgress` and heeds it.  Servers and callers need do
  nothing.
- `CouponSend`: the threads go on and get the mutex in turn (strong fairness of what is
  called back for each user), each request is answered (by failure if need be:
  `HttpRequests` and `LiveChatTransport` show when), and a lost connection is reported and
  made again, as `ManagerLogin` shows.  Nobody has to write, check, log out or log in.
- `ManagerLogin`: the threads go on, each attempt is answered or fails, and a shut
  connection is noticed.

## 4. Proofs

`KcpProofs` proves, for all values of the constants that satisfy
`KcpAssumption` (any window, any `mss`, any number of bytes, faults and segments
in flight, with and without a refusing `canoutput`, in stream mode or not):

| Theorem | States |
|---|---|
| `Invariance` | `Spec => []IInv` |
| `Types` | `Spec => []TypeOK` |
| `DeliversInOrder` | `Spec => []InOrder` |
| `ReleasesWhatArrived` | `Spec => []NoEarlyRelease` |
| `StaysInWindow` | `Spec => []WindowBounds` |
| `SendsTwoWindowsAhead` | `Spec => []TwoWindows` |
| `NothingTakenBack` | `Spec => NeverBack` |
| `CutsTheStream` | `Spec => []Partition` |
| `IsAStream` | `Spec => ImplementsStream`: the step simulation of `ByteStream` |

The argument.  `InOrder` and `NoEarlyRelease` are not inductive: they say
nothing of the segments in flight, and it is a segment in flight that could
break them.  `IInv` adds, for each endpoint and each segment on its way to it:
an una is never more than the peer's `rcv_nxt`; an ACK, sent or still in
`acklist`, names a number the peer holds; a PUSH carries the payload `log` has
under its number.  These only become truer as the protocol runs: what the peer
holds (`Received`), the peer's `rcv_nxt` and the log grow, and the lemmas about
growth carry the facts about old segments over every step.  So each action is
left with what it changes itself: `ikcp_send` touches only `snd_queue`,
`ikcp_input` is a step of the sender (frees what una and the ACK say, which
`IInv` knows the peer to hold) together with one of the receiver (inserts a
payload that `IInv` knows to be the right one, moves the head), and a flush
numbers what the window admits and sends what the log says.  `TwoWindows` needs
one fact more, `WindowInv`: no window ever advertised is larger than `RcvWnd`, so
a sender is at most `RcvWnd` ahead of its `snd_una`, and `snd_una` at most
`RcvWnd` ahead of the peer's `rcv_nxt`, because numbers behind a full queue are
held ahead of order.

`Partition` says that the payloads numbered and queued, one after the other, are cut
out of what was written without a gap or a repetition.  It is proved with
`StreamInv`, which adds that their positions ascend: `ikcp_send` may extend the last
queued payload (in stream mode) and appends fragments behind it, and a flush moves the
first queued payload to the end of the log, so that the concatenation of the two
stays as it is.  `IsAStream` combines it with `InOrder`: what is read is the beginning of
the peer's log, so what was read ends where the last payload read ends;
`ikcp_send` maps to `Write`, `ikcp_recv` to `Read`, and every other step to a stutter.

`SendQueueProofs` proves of `RingBuffer`, from `RingAssumption`:

| Theorem | States |
|---|---|
| `RingTypes` | `Spec => []TypeOK` |
| `RingIsAQueue` | `Spec => ImplementsQueue`: every size, every contents, every decoding of lengths |

`TypeOK` is inductive here.  The work is in `Contents`: lemmas say what it is
after bytes are written behind it and after some are removed in front, each split
by whether the index runs over the end of the array; every action of
`RingBuffer` is then the action of `ByteQueue` of the same name.

and of `FlushOutput`, from `OutputAssumption` (a segment fits the mtu, the key
fits the queue), for every mtu, capacity and amount of segments:

| Theorem | States |
|---|---|
| `RoomKept` | `FlushSpec => []RoomInv` |
| `RoomTypes`, `BufferStaysBounded` | `FlushTypeOK`, `BufferBounded` |
| `NothingDropped` | `FlushSpec => NeverDropped` |

`NeverDropped` needs `Promised`: all of `kcp->buffer` fits the queue that waits
for it.  It is inductive because `canoutput` is asked for the new segment
together with what the buffer holds, and because the only thing that takes room
from the queue between asking and sending is the output of the buffer itself.

`ThreadPoolProofs`, from `PoolAssumption` (finitely many workers; any tasks,
posted by whomever):

| Theorem | States |
|---|---|
| `PoolTypes` | `Spec => []TypeOK` |
| `PoolDrains` | `Spec => []AllRunOnce` |
| `PermitsBalance` | `Spec => []PermitsMatch` |
| `NoWakeupLost` | `Spec => []NoLostWakeup` |

`AllRunOnce` rests on `QueueInv` (a task is queued, was started once, or was
never posted) and on `DrainInv`: while tasks are queued, some worker has not
ended.  The last worker to end saw an empty queue, and by `CloseInv` only a
running worker could have added to it.  `PermitsMatch` is inductive with the fact
that no permit to end exists before the flag is set; the one step where it
matters is a worker that looks and finds nothing, which it shows to be impossible
while the pool is open.  `NoLostWakeup` is inductive with the types.

`ConnectionProofs`, from `ConnectionAssumption`, for any servers, convs and limits and
any application (`setup`):

| Theorem | States |
|---|---|
| `ConnectionAgrees` | `Spec => []SessionIInv`, the inductive invariant |
| `FramedAlways`, `AlignedAlways`, `SessionAlways` | `Framed`, `Aligned`, `SessionInv` |
| `SessionsKept` | `Spec => SessionKept` |

None of `Framed`, `Aligned` and `ConvOfTarget` is inductive: an answer of another server, or a
half segment, is under way long before it does harm.  `SessionIInv` says of what is
under way on a socket that it comes from the socket's peer (`TcpOfPeer`,
`UdpOfPeer`), that only TCP cuts a unit in parts (`InParts`), and, for an application that
closes first, that the socket in use leads to the server chosen last and that the other
is not open (`OneAtATime`).  What both sockets do in `Update` is proved once for each and
used for the sending and the receiving call.

`LiveChatTransportProofs`, for any number of tasks, logins, addresses and heartbeats:

| Theorem | States |
|---|---|
| `TasksAreHeld` | `Spec => []TransportIInv`, the inductive invariant |
| `TransportHolds`, `SweptAlways` | `TransportInv`, `Swept` |

That a task is held once needs `NotYet`, which says that a request or heartbeat which was
made and not queued yet is nowhere else, and `ThreadsMeet`, which says which threads exist
together: two logins share the lists, and only because `Stop` joins the receive thread,
and that one the send thread, does the second connection find them without an owner.

`HttpRequestsProofs`, for any callers and requests:

| Theorem | States |
|---|---|
| `MutexKept` | `Spec => []RequestsIInv`, the inductive invariant |
| `RequestsKept` | `Spec => []RequestsInv` |

`NotTouched` holds because a request leaves the map before its thread deletes it, both
with the mutex; a caller that waits for a thread keeps the mutex, so the ids it has yet
to stop stay in the map (`CallerHolds`), and a request that is called back holds it
itself (`ThreadHolds`).

`LiveChatManManagerProofs` proves of `CouponSend`, from `CouponAssumption`, for any users
and messages:

| Theorem | States |
|---|---|
| `CouponKept` | `Spec => []CouponIInv`, the inductive invariant |
| `MessagesOwned`, `UnaskedAlways` | `MessagesInv`, `Unasked` |
| `FinalKept` | `Spec => FinalStays` |

`Owned` is proved as `InOrder(m)` for each message: it is with the application's thread,
in a list, in a thread's hands or in a map, in one of them at most, and in none unless
it is being processed.  Each action moves one message at most, or passes a list on
(`Moved`, `ListsPassed`), and the rest stay where they are.  Beyond that the invariant says
why a move finds the place free: what a thread has left to send is part of the list it has
locked (`OneByOne`), no two threads carry the same message (`OneAtATime`), a photo
is noted after it has left the list (`NotedLast`), and a manager that is logged in without
a connection has lost one or was logged out (`LostBefore`), so that a photo which
`OnLogout` forgets is none that `Kept` promises.  `FinalStays` follows, since only a message that
is not written yet or has a place changes its status (`StatusMoves`).  `Unasked` needs
`NothingAsked`: with no message written no list has one, so no check is asked for and no
coupon is found.

and of `ManagerLogin`, from `LoginAssumption`, for any request threads and scenarios:

| Theorem | States |
|---|---|
| `LoginsKept` | `LoginSpec => []LoginInd`, the inductive invariant |
| `LoggedInAlive`, `AlwaysPending` | `LoginInv`, `Pending` |

`SessionAlive` is one half of `Together` (the manager is logged in exactly when the client
is), which is inductive with `JoinLocked`: whoever waits for the receive thread holds
`m_startLock`, so nobody else starts or stops the connection meanwhile.  `Pending` is
about a thread that has connected and notes `m_isAutoLogin` only later, so the invariant
follows the connection until then: while a login has not returned, its connection is
there, or a login that was queued or a `Relogin` under way will make another (`Watched`),
and it has not been refused (`Refused`).  Both rest on `OneLogin`: until two logins have
crossed, the one that starts a connection finds the last one stopped, so that it is its
own.  `Unreset` says what steady means: nothing is reset, and a login by itself
has an account to log in with.

`TaskSchedulerProofs`, from `SchedulerAssumption`, for any number of threads, tasks,
pushers and timers:

| Theorem | States |
|---|---|
| `EventsCounted` | `Spec => []Ind`, the inductive invariant |
| `NoEventStranded` | `Spec => []SchedulerInv` |

`NotStranded` is not inductive, since a thread that has loaded `m_Events` in order to
take events away may have loaded less than what is there when it stores.  `Counted` says
that it then does no harm: what a pop has loaded (`got`, then `reg`) is all that `m_Events`
holds, and the store leaves nothing, or somebody else is coming for the task, by a queue, a
timer, a push or a look (`Coming`), and what the store leaves is seen.  A pusher's `|=` may
put back events that were taken, but the pusher is then on its way to a list itself.  It
holds of the tasks that two threads have not popped at once (`Single`, `overlap`); which two may
do because `m_TaskSet` forgets a task when it is taken, not when it has run.

The inductive invariants of these six models were checked by TLC, on the setups of
the runs, before they were proved.

Only model-checked: the liveness properties, `EverythingArrives`, `PoolEnds`, `TasksRun`,
`Connects`, `TimerFires`, `Handled`, `StopEnds`, `LossNoticed`, `DisconnectEnds`,
`ReceivingEnds`, `FlowEnds` and `Reconnects`: liveness under fairness is out of the prover's
reach.  Every invariant and action property of the runs is stated by a theorem.

## 5. What is not modelled

In `ikcp.c`: the congestion window (`nocwnd` is 1 in `NewKcp`), the RTO
arithmetic, `ikcp_check`, the wrap of sequence numbers, and a datagram with
several segments given to one `ikcp_input`.  In `ConnectionManager`: the resolving of
addresses, the decoding of a length out of `m_un_receive_queue`, and the codes that the
application reads.  Around the thread pool: the futures, and tasks that wait for other
tasks.  In the task scheduler: events beyond the three named ones.  In the live chat client: the formats of the tasks and the bytes of a
packet.  Around the http requests: the older manager of `httpclient`, downloads, hosts
and curl itself.  In the live chat manager: emotions, voices, videos, magic icons,
invitations, cam share, the order of messages to one user and the lists of users.

The reactor of libsocket, the hast server, the message queue of lightcone, the
sequence list of mpstatd and the heartbeat have logic worth a module each and none yet;
the hazards name the places where they are delicate.  The rest is input and output,
formatting, vendored code or samples, as `PROJECT.json` says for each.

## 6. Where the code departs from its comments

Modelling the code brought up places where it does something else than a comment of
it says, or comes to a standstill.  The models have these steps; the properties are
stated so that they hold nevertheless, by a setup that leaves them out or a condition,
and this is the list of what is left out.

`ConnectionManager`.  With TCP alone `ReconnectLogicServer` keeps a live socket and
clears what was received of a segment (`network_connection_manager.cpp:175`), which the
comment at `tcp_connection.cpp:52` says must not happen; `closing` excludes it.

Task scheduler.  `m_Events` has no lock: a store of `|=` or `-=` undoes what was stored since
it loaded (`task.cpp:14`, `task.cpp:28`), so a pushed event may never reach `Run`.  A `-=` of an
event that was wiped meanwhile even borrows from a higher one and wipes that.  The history
variable `fate` says of each event whether it was pushed and what became of it, and
`Handled` that a pushed event is popped unless it was undone in one of these ways;
`NotStranded` speaks of the events that are set.  Two threads may have the same task, since it leaves `m_TaskSet` when
it is taken (`task.cpp:130`); if both pop its events at once they are subtracted twice, and
`m_Events` wraps to events nobody has pushed: `overlap` leaves such tasks out of
`NotStranded`.  A killed task is deleted while queues and timers still name it and another
thread may be at work on it (`task.cpp:69`).  `kIdleEvent` is set when the delay is asked for,
so that any other event delivers it early (`task.cpp:64`, against `task.h:64`).  A timer of an
earlier time that is pushed between the reading of the clock and the lock makes the wait
about 14 days (`task.cpp:119`), and no push with a delay ends it: with delayed pushes of
clients, or of a second thread, `TimerFires` is not promised, so `Steady` has one thread.

Live chat client.  A task whose sending fails is called back by nobody
(`TaskManager.cpp:172`); it is `lost` in `Swept`.  The receive thread may look at `m_bStart`
before `Start` has set it, and then tries no address (`TransportDataHandler.cpp:150`).  A
stop between the connection and its announcement has `OnConnect(true)` called and never
the disconnect callback (`TransportDataHandler.cpp:276`).  The disconnect callback waits for the
heartbeat thread with the lock that a heartbeat needs to be queued
(`TransportDataHandler.cpp:500`): `Steady` has no heartbeats.

Http requests.  `StopAllRequest(true)` joins, with the mutex, threads that need it
(`HttpRequestManager.cpp:125`): `Steady` has no such call.  `isCleanCallback` promises that
nobody is called back (`HttpRequestManager.h:76`), but a thread that has found the callback
before it was taken away waits for the mutex and calls back all the same.  A request
whose callback was taken away stays in the map and is never deleted
(`HttpRequestManager.cpp:158` is not reached), so `StopEnds` promises of it only that its thread
ends; after a `StopAllRequest(true, true)` its entry may be met by a later thread that is
given the same id.  `onRun` reads the callback twice, once to look and once to call
(`HttpRequest.cpp:26`); the model takes the two reads as one, so the NULL that may come between
them is not in it.  A server that never begins to
answer is not timed out (`HttpClient.cpp:667`): `ReceivingEnds` begins with the answer.  A
parameter is filed after its request was started (`RequestLiveChatController.cpp:856`), so
that a quick answer is reported without it.

Live chat manager, messages.  What is written before the history has come waits for
ever if there is nobody to get a history of, or if it fails
(`LiveChatManManager.cpp:3678`): `FlowEnds` speaks of messages for which the coupon is
checked.  A lost connection or a failed login empties `m_requestMap` (404), so that the answer of
an upload that was under way finds nothing and its photo is never reported; and
`SendMsgWithCoupon` neither sends nor queues a message when `m_isAutoLogin` was cleared since
`SendTextMessage` looked at it (649, 1137), which nobody is told: the message stays in
processing and is in no place.  `Kept` leaves both out of `Owned`.  `AddSendingItem` comes after the sending, and an answer before it is dropped
(1186); an application's check whose answer comes before its note has a coupon used
(879): the setup `early`, without which `Owned` and `Unasked` are stated.  After the history the
check is made for the users that need none (3692).  The list's lock and the mutex of
the http requests are taken in both orders: `SendMessageListProc` starts a photo's upload with
the list locked (1063), and `OnGetCount` fails the list with the mutex held (3566).  With a photo
and two flows under way the two threads wait for each other for ever, in the code and in
the model.  So `FlowEnds` is a statement about texts: `Steady` says that there are no photos.
What a `Logout(true)` resets is not in this model: it stops the request thread, empties its queue,
lets the http requests be forgotten without a callback, clears the maps of the kinds of messages
and of the checks, and removes the users with their lists (303-398), so that what was under way
is forgotten.  `EndTalk` deletes messages that the lists
still name (`LCUserItem.cpp:358`).

Live chat manager, logins.  A connection lost during the version check is never made
again (`CheckVerTask.cpp:143`): the setup `silent`.  `m_isAutoLogin` is set after the client was
started, so that a failure at once is final (447): the setup `early`.  A login queued before a `Logout`
logs in after it (569).  Of two logins that restart the connection at once, the second may
find it started (`TaskManager.cpp:76`) and take it for its own; it notes `m_isAutoLogin`
at its end, and when that connection has been refused and lost by then, nobody logs in
again: `crossed` ends what `Pending` and `Reconnects` promise.  The request thread may join itself and start a second one
(3586).  Each login adds three tasks that insert themselves again for ever (2101).  A
`Logout(true)`, a login by the request thread and a reset by the receive thread may
wait for one another (3610): `Steady` has no logouts.

## 7. Plan

Done: `Kcp`, `RingBuffer`, `FlushOutput`, `ThreadPool`, `Connection`, `TaskScheduler`,
`LiveChatTransport`, `HttpRequests`, `ManagerLogin` and `CouponSend`, with proofs of their
invariants and action properties.  Next, in this order:

1. `SeqNum`: `_itimediff` over wrapped numbers agrees with the order of the numbers
   while they are less than half the range apart; `Kcp` stays within it because of
   `TwoWindows`.
2. `Reactor`: handlers, timers and the queue of events, with `del` and `set` called from
   callbacks; then lightcone's queue, the hast server's socket table and the sequence
   list of mpstatd.
