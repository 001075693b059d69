# FishBone in TLA+

FishBone's server, *BlockDet*, tells a client whether it can be reached from
outside: the client connects to TCP port 6688 and sends an 11-byte request,
"AMIB" and two of its own ports; the server connects back to the TCP port,
sends a datagram to the UDP port and waits for its echo; one reply byte says
which of the two worked. *TestClient* is such a client. *WinHttpW* is a separate HTTP
client. This directory models all three, checks them with TLC and proves the parts
that the rest relies on with TLAPS.

## The system

| Component | Code | State | Operations | Modelled in |
|---|---|---|---|---|
| `pingpong_task` | `block_detect_task.*` | result and completion of each probe, its two sockets, `m_abort`, `m_is_notified`, the timer | constructor and `start`, four handlers, `abort`, `udp_close`, `check_notify` | `PingPongTask`, `PingPongTaskSpec` |
| `peer_connection` | `peer_connection.*` | `m_closed`, `pending_io_count`, the watch dog, what was received, what is left to send, the task | constructor, `read_handler`, `write_handler`, `watch_dog_handler`, `on_detect_finished`, `send_ack`, `shutdown_and_close` | `PeerConnection`, `FifoConnection` |
| the request | `peer_connection.h:19`, `.cpp:85-90` | 11 bytes | the check | `AmibMessage` |
| `tcp_server` | `tcp_server.h` | the list that owns the connections, the acceptor | `accept_handler`, `try_remove_connections`, `run`, `stop` | `TcpServer` |
| `main`, SIGINT | `BlockDet.cpp` | `g_ptr_tcp_server` | `main`, `signal_fun`, `stop_server` | `Lifecycle`, `TcpServer` |
| print thread | `tcp_server.h:60` | the mutex of the list | printing its size for ever | `Lifecycle` |
| `io_service`, sockets, timers | boost::asio, external | operations in flight, queued handlers | complete, cancel, call | `AsioOps`, `FifoConnection` |
| TestClient | `TestClient/` | one request per client, an echo server of each kind | `start`, three handlers, `close`; the echo's two handlers | `TestClient` |
| ExpireTest | `ExpireTest/` | one timer | cancel after the expiry | its rule is in `AsioOps` |
| WinHttpW | `WinHttpW/` | three WinHTTP handles, what the next session is made with | `rest`, `open`, `send`, `getStatus`, `getRespondBody`; setters of what is sent (not modelled) | `WinHttpW` |

How they interact. `main` runs the server on one thread; a second one prints the
length of the list under its mutex, and SIGINT interrupts either. TestClient meets
the server over a TCP connection and the two probes. WinHttpW meets nobody. `tcp_server` owns `peer_connection`s; a `peer_connection` owns
at most one `pingpong_task`. The task calls back (`m_on_all_task_completed`) from
inside its own handlers; the connection, closing, aborts the task, and calls back
(`m_disconnect_cbk`) into the server, which sweeps its list from inside that
handler, before the connection has set `m_closed`. The handlers of connection and
task are bound to bare pointers. So the server may erase a connection only when
no handler of it is to come, and knows that through four getters alone: closed,
no pending IO, watch dog done, and task finished if there is one.

What is hard here: the handlers of up to seven operations of one connection come
in any order; a cancel loses against a timer that has already expired; the abort
path notifies by other lines than the normal one; a close can come twice; a
counter of pending operations decides on freeing memory; what makes an object
removable needs handlers that run, which SIGINT stops. `PROJECT.json` lists each of
these hazards at its line with the properties that cover it.

What makes each part correct:

* task: exactly one notification, always in the end, with a truthful verdict that the
  results do not go back on;
* connection: exact getters, one reply with the task's verdict, removable in the
  end, and for good;
* server: frees only what is quiet, forgets nothing, drains;
* threads: no list read half changed, nothing used before it is there, SIGINT ends
  the run;
* TestClient: prints what is true, one operation at a time, stops in the end;
* WinHttpW: no stale handle, no handle of others closed, no byte of a body lost, doubled
  or moved, and the status of the answer told (it is not, see `status_returned`).

## The modules

`AsioOps` gives the life of one operation: *idle*, *wait*, then *ok* or *err* (or
*expired*, *canceled*) while its handler is queued. Closing a socket or canceling
a timer changes a *wait* and nothing else. Error codes are not told apart, since
no handler does.

`PingPongTask` has the task as a record with the members' names and its handlers as
operators from a task to a task, each with every call it makes. `PingPongTaskSpec`
runs one task: the reactor, the deadline, the four handlers and the close of the
owner are its actions. `Detection` is its abstract specification: some probes may
reach the client, one answer claims a subset of them.

`PeerConnection` has one record per connection, the task inside. A handler with
several returns is one action per return (`ReadAfterClose`, `ReadFails`,
`ReadsRequest`, `ReadsOther`, `RequestThrows`). `WithTask` runs a task handler and, when it
notified, `on_detect_finished` in the same step. An exception out of a handler ends
`io_service::run` (`io`): `remote_endpoint()` on a client that has gone, the UDP
socket that cannot be opened, and in a debug build (`debug`, chosen at the start) the two assertions; `m_start_time`,
asserted on uninitialised, passes or not. `AmibMessage` keeps the request as bytes,
because what a short read leaves in the buffer decides how it is judged.

`FifoConnection` adds the queue of handlers to `PeerConnection`: asio calls them in
order though it does not promise to, and an operation that can be done at once
is queued at once. `PeerContract` is what the connections promise the server, over
the getters. `TcpServer` is built on the contract instead of the connections, which
keeps three connections within reach: `PeerConnection` implements `PeerContract` (the
property `ImplementsContract`, a refinement mapping `life <- Getters`, `running <- io`),
and `TcpServer` uses the contract's actions and decides what the sweep sees *during*
the call: the closing connection with its old `m_closed`. In a debug build the
assertion throws before the second sweep, which `TcpServer` covers with
`ConnectionThrows`.

`Lifecycle` has the threads: `main` from before the server exists to after its
delete, the print thread, the thread a SIGINT has interrupted, the mutex of the list.
A step is as short as another thread can tell: a `push_back` or an `erase` has two, and
the list is unfit to be read between them (`torn`). Here the list is its size. A signal
handler stops the thread it runs on until it returns, and `io_service::stop` waits for the
mutex that `io_service::run` holds while it picks a handler (`main = "picking"`). `sane`
records whether anything was used that is not there.

`TestClient` EXTENDS `PeerConnection` and is composed with it: `client[c]` is the
`CAsioTCPClient` at the other end of connection `c`, `request` and the server's `wire` are
the two streams, `net` the datagrams of the probe and of the echo (a set that only grows: a datagram
may arrive never, once or again, late). A send and a read take a piece of what is there (`Piece`).
The server's read, probe and echo succeed only with something to receive. An exception
of `remote_endpoint()` (`AsioTCPClient.h:45`) ends all of TestClient (`run`).

`WinHttpW` has one action per method, or per early return of it, and one per turn of
the loop of `getRespondBody`. Handles are values that WinHTTP may give out again once
they are closed, to this object or to others in the process, which is what makes a stale
one harmful. The members start as the constructor leaves them: `m_hSession` is any value.
`request` is what WinHTTP keeps behind `m_hRequest`: the status of the answer and what is
unread of it. What is sent is left out, for no step tests it: the URL, the method, the content, the
header lines, the agent and the timeouts. So the models say nothing of whether it is what the
caller asked for; where the code departs from `IWinHttp.h` there is listed below.

Each "Mistake" operator in the modules is a wrong version of the operator after
it; each property is known to fail when one of them takes its place.

## The runs

| Run | Instance | What it shows |
|---|---|---|
| `task` | no constants, 248 states | the task's safety, that what it announced stands, that it implements `Detection`, and that it notifies whatever the network does |
| `connection` | one connection, a good request, one with a wrong name, one for port 0, any short read, both builds, 2962 states | exact getters, faithful reply, winding down, `PeerContract`, removable in the end |
| `fifo` | one connection, handlers in order, both builds, 4368 states | each queued handler runs once; a task not aborted is gone when its connection is removable |
| `server` | three connection objects, 37160 states | frees are safe, sweeps complete, the drain ends without SIGINT |
| `lifecycle` | `MaxConns` = 2, `MaxInterrupts` = 3, 1996 states | the count is of a whole list; nothing is used before it is there or before the delete has made it go; SIGINT ends the run, but for one inside the io_service |
| `test_client` | one client, requests cut at byte 2 (`Cut`), both builds, 242730 states | the result printed is the task's verdict and true; one operation at a time; the echo goes on; an accepted client stops |
| `winhttp` | six handle values, one status, bodies up to 3 (`MaxBody`), 6006 states up to a permutation of the handles (`MCWinHttpW`) | the handles and the body |

The instances are large enough: a task and a connection have finitely many
states and no counter is cut off (calls, disconnects and acks stay below 3 by
themselves), so nothing is bounded in the first three runs but the number of
connections and the requests. Connections meet nowhere but in the
server's list, so one is as good as many there; in the server three are needed
for a sweep, called by the third, to find two to erase. An accept waits for an
object to be free: `Conn` caps how many connections live at once, where the code has no
limit. Two connections let the list be swept of one and keep one, and three SIGINTs come
before the server, in its run and after it. With six handle values the objects of two
opens live at once, and a closed one is given again. A body of three is read in one call
or several, in turns of one byte or more. Clients of TestClient meet only in the UDP echo, which takes
one datagram at a time and answers whoever sent it, so one client stands for the 99. One cut
suffices, since the code only compares sizes
with 11 and 3. Sizes are bytes for the
request and the reply (3 bytes, every split of the write). Deadlock is not checked
since each of these systems ends: the task notified, the connection removable,
the server gone, TestClient ended by an exception. Only of `winhttp` is it checked: there the
caller can always call.

Five further runs find a disagreement between the code and what it says of
itself. The one of WinHttpW uses three handles, two statuses and no body.

* `partial_request`: `read_handler` appends the whole buffer whatever was read, so
  part of a request is taken for a whole one, zeros for the rest: it is refused, unless
  the last byte alone is missing, when it is accepted with half of `udp_port`. The branch
  that waits for the rest is dead (`peer_connection.cpp:107`).
* `assert_closed`: `BASSERT(!m_closed)` fires when the watch dog had expired before
  another handler closed (`peer_connection.cpp:193`). In the release build the second
  close is harmless, as the `connection` run shows.
* `task_gone`: the handler of a canceled task timer may outlive the connection that
  owns the task, when the watch dog aborts it (`peer_connection.h:97`).
* `server_drain`: after SIGINT the drain may wait for ever (`tcp_server.h:36`).
* `status_returned`: `getStatus` returns `true`, never the status it has read
  (`WinHttpW.cpp:239`; `IWinHttp.h:116`: "获取HTTP返回的状态值 (如：200 = 成功)", gets the
  status HTTP returned, say, 200 = success).

## Fairness

Every queued handler is called (weak fairness of each handler: one thread in
`io_service::run`, nothing else in it) and every deadline passes. Nothing is asked of
clients or the network: no completion is fair. In the server the handlers of a
connection are fair as `PeerContract` actions, which `EventuallyRemovable`, checked of
`PeerConnection`, justifies; the drain's loop and main are one thread that goes on.

In `Lifecycle` both threads go on (weak fairness of `Main` and of `PrintThread`) and a thread
that waits for a mutex which is free again and again gets it (strong fairness of
`MainLocks` and `Stops`). The print thread holds the lock for the length of a `printf` and
sleeps a second; the io_service's mutex is free whenever a handler runs. In `TestClient` the
client's one operation ends and its handler is called (`ClientGoesOn`: a connect and a send
of 11 bytes end, and the stream carries its bytes and its end), and the server's
watch dog expires and is handled. No datagram need arrive, and nobody need be accepted.

## The proofs

`PingPongTaskProofs` proves, with no assumption and for a call counter that is any
natural number, that every behaviour of `PingPongTaskSpec` satisfies
`NotifiedIffComplete`, `NotifiedOnce`, `VerdictTruthful`, `NeverStuck`, `AnnouncedStands`, and
that it implements `Detection` (`Refinement`).

The invariant is `TaskInv`: the type of the task, and four parts. `NotifyInv` (notified exactly when complete,
once) is not inductive alone: an aborted task's handlers complete their probe, notify
and go on, so one must know what is outstanding of a complete probe. `PendingInv`
says so: a complete TCP probe has nothing outstanding; a complete UDP probe at most
a receive that has failed, only if the task was aborted and its result was a failure
already, which is why no late handler changes the result that was announced. `ProgressInv` says who
will end the task, and that nothing waits once it is aborted, so that a receive
started by the send handler of an aborted task fails at once. `TruthInv` ties the
results, the operations' outcomes and the verdict to what was reached, and the results
to the verdict once it was announced.

`PingPongTaskLemmas` shows for every handler H and any task t that `TaskInv(t)` gives
`TaskInv(H(t))` and `Follows(t, H(t))`, the owner's view of the step; each is
about the operators alone, so that the proofs of `PeerConnection` can cite them.
`Unannounced` is `TaskInv` before `check_notify` has run: `CheckNotifyInv` shows that
`check_notify` mends it, and each handler is proved up to that call. `Refinement`
needs no further invariant: `Follows` and `TaskInv` make each handler one `Answer` or a
stutter, each success of the network a `Reach`.

`LifecycleProofs` proves `LifecycleTypeOK`, `CountIsWhole` and `SaneUntilDeleted` for
any number of connections and SIGINTs, assuming only that the bounds are natural numbers.
`LifecycleInv` adds who has the mutex (`LockInv`: main in the list has it and the print thread
while it prints; a list is torn only in main's hands, and an erase has something to
erase) and when the server exists (`ServerInv`: from main's assignment to its delete, and the
other thread and the handler of SIGINT only with it). `CountIsWhole` is not inductive
without the first, `SaneUntilDeleted` without the second.

`WinHttpWProofs` proves all four properties of the `winhttp` run for any sets of
handles and statuses and any length of body. It assumes `WinHttpAssumption`: NULL is no
handle, result of `getStatus` or body, and no status is 0 or 1. `HandleInv` says that the session of an open since the last `rest` is the
object's own or NULL, `RequestInv` gives the types, and that there is a request exactly when
`m_hRequest` is not NULL. `BodyStep` moves bytes from what is unread to what the call has
read and to what the caller has, by the associativity of concatenation.

`PeerConnectionProofs` proves all the safety properties of the `connection` run, for any
set of connections and messages (`MessageAssumption` is not needed). `PeerInv` is the
types and, of each connection, `Steady`: `ConnInv` and, while the io_service runs,
`Busy`. The parts of `ConnInv`:

* `TaskPart`: the task is in `TaskInv` from its start, and the connection knows that it has
  finished as soon as it has notified (the callback comes inside the task's handler);
* `IoPart`: the count, and what keeps it small. The read ends before the task begins, with nothing
  received yet, so a first read always yields a whole buffer and `Unserved` always closes;
* `ReplyPart`: nothing is written before the one reply, and sent and unsent bytes sum up to 3;
* `WatchPart`, `ClosedPart`: watched while open; once closed nothing waits, and the task is
  aborted or complete.

Hardly one of the properties is inductive alone. That a removable connection is quiet needs the count and the
watch dog, the count needs the order of read, task and reply, and that order needs the
task to notify once, which is why the task's lemmas come first. Each handler is
shown to leave a connection `Good`: in `ConnInv` and `Busy`, `SeenAs` a step of
`PeerContract` or none, and what was removable untouched (`Keeps`); one that throws
leaves it `Thrown`. `Steps` gathers this, and from it come the invariant, the action property
`RemovableForGood` and the refinement `ConnectionsKeepContract`.

`FifoConnectionProofs` proves both properties of the `fifo` run for any number of connections.
`Moves` says what a handler does to the seven operations: others' are left alone, ended or,
if idle, started; its own ends idle or started again. From that `QueueInv`: no entry
twice, each queued operation there, each entry outstanding, and `TimerFirst`: once a
task that was not aborted has told its result, the reply is under way until its timer has
been handled, for the timer's entry is in front of the write's. `FinishedTaskGone` is
not inductive without it: no member of the connection says that the timer has gone.

`TcpServerProofs` proves `ServerTypeOK` and the two action properties for any number of
connection objects. They need no invariant but the types: what makes them true is that
the sweep tests the getters it erases by, in the order in which each handler assigns
them. That the getters mean quiet is what `ConnectionsKeepContract` and `RemovableQuiet` add.

`TestClientProofs` proves all the safety properties of the `test_client` run for any number of
clients and any `Cut` (`CutAssumption` is not needed). `ClientInv` adds to `Steady` for
each accepted connection what the client knows: bytes of a reply are there only once the reply
has begun, after which its verdict is fixed (`KnowsReply`), and the client waits for one
operation while TestClient runs. `VerdictOfReply`: the client decodes what `ReplyCode` encodes. The
server's part of a step is taken from `ConnectionSteps`.

Only model-checked: the liveness properties (`EventuallyNotified`, `EventuallyRemovable`,
`NaturalDrainEnds`, `FailedAcceptQuits`, `StopEndsRun`, `AcceptedClientStops`), since TLAPS has no
ENABLED. Every safety and action property of a passing run is stated by a theorem. The properties of the five
runs that find a violation are false, so nothing is proved of them.

## What the models show of the code beside the properties

No run is about these: no text of the repository says otherwise, or the model leaves
out the data they are about, or a property would restate the one line that shows it. But a
reader should know of them. The first three are hazards that no property covers: the
properties say what holds until they happen.

* After the delete `g_ptr_tcp_server` is not cleared and the print thread is not
  joined: `SaneUntilDeleted` ends there, and both may use the freed server while `main` returns
  (`BlockDet.cpp:73`).
* A SIGINT that interrupts `io_service::run` while it holds its mutex hangs (`Hangs` in
  `StopEndsRun`): `io_service::stop` is not safe in a signal handler.
* An exception of `remote_endpoint()` ends the server for everybody
  (`peer_connection.cpp:100`), and in TestClient all 99 clients (`AsioTCPClient.h:45`).
* `CAsioTCPClient` has no timer. It stops because the server's watch dog does.
* The handlers of an aborted task announce its results and then set them again. What
  was announced stands (`AnnouncedStands`) but for a connect that had succeeded: it is
  announced as a failure, and `tcp_result()` says success afterwards.
* `getRespondBody` gives a body cut short by an error just like a whole one.
* An `open` that fails half way leaves the request of the one before, and `send` sends it.
* `rest` closes what `m_hSession` holds and neither clears it nor closes connection and
  request (`WinHttpW.cpp:35`, where `IWinHttp.h:32` says "重置(初始化)WinHttp,释放所有数据", resets,
  that is initialises, WinHttp and releases all data). No constructor sets it: the first
  `rest` of an object, or a second in a row, may close a handle of somebody else. After an `open`
  that got its session it is the object's own, which is `RestClosesItsOwn`.
* `setUserAgent` after `open` comes too late for the request, for the session is made with the
  agent of the moment (`WinHttpW.cpp:76`; `IWinHttp.h:36`: "必须在Open后使用", must be used after Open).
* A header set twice is sent twice (`WinHttpW.cpp:196`; `IWinHttp.h:98`: "添加或替换HTTP协议头",
  adds or replaces an HTTP header), an empty value does not delete it (`IWinHttp.h:100`), and
  `delRequestHeader` does nothing and returns true.
* `open` drops the query of a URL (`WinHttpW.cpp:107`; the comment at line 128 notes that parameters
  of some requests are lost).

## Not modelled

The members no handler reads (addresses, ports once checked, the datagram's bytes, so
also the echo sent from a buffer on the stack, `TestClient.cpp:35`); logging; the
Windows crash dump; build files. Of TestClient the TCP echo's loop, which closes what the
kernel has already connected, and the text of the resolver. Of WinHttpW `getRespondHeader` and
`GetAllResponseHeaders`, which return an empty string on every path, `autoCookies`, whose value nobody
reads, `setTimeouts`, `setUserAgent`, `setRequestHeader` and the methods that call it, the URL,
the method and the content, and the methods that are declared and
have no body (`setProxy`, cookies). ExpireTest is a
trial of one rule, that a cancel does not reach a timer that has expired, which `AsioOps`
states. `tcp_server::run` throws on an error code that `m_io.run` never sets.

## Plan

1. Done: the task, the connection, the contract, the server; the threads, TestClient,
   WinHttpW; every safety property of a passing run proved.
2. Left: the safety half of the drain on `PeerContract` (no accepted connection is forgotten once it is
   in the list until it is removable), which `NaturalDrainEnds` uses and no property states
   by itself; a lemma that composes `FreesQuiet` and `RemovableQuiet` in one statement.
