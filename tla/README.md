# A formal model of UpnpLan

UpnpLan is a UPnP stack in C: a host announces devices with SSDP, serves their
descriptions and actions over HTTP and sends events with GENA; a control point
finds devices, calls actions and subscribes to events. This directory holds TLA+
modules of its concurrent parts, the TLC runs that check them and the proofs
that TLAPS checks. `PROJECT.json` says, for each definition, which lines of the
source it stands for. Paths below are relative to `src/src`.

## Inventory

| part | state it keeps | operations | threads that enter it |
|---|---|---|---|
| `Tiny/Worker` (TinyWorker, TinyBlockingQueue) | queue, semaphore, `is_running`, listener and its context, thread | Start, Stop, PutJob, GetJob, Dispose; `worker_loop` | producers, owner, the worker |
| `UpnpProvider` | maps of devices, handlers and observers, mutex | Add, Remove, AddObserver, RemoveObserver, look-ups; `onServiceChanged` | application, HTTP thread, SSDP thread |
| `UpnpRegistry` with `Ssdp` | Ssdp sockets, IPC socket, thread; objects found and the discovery listener | Start, Stop, Dispose, Discover, StopDiscovery; observer callbacks; message handler | application, owner, the SSDP thread |
| `Tiny/Multicast`, `Tiny/Socket` | list of sockets, select sets, IPC socket | Open, Join, Close; RunOnce; SendStopMsg | owner, the SSDP thread |
| `UpnpRuntime` | the parts below it | Start, Stop, Register, Unregister, StartScan, Invoke, Subscribe | application |
| `UpnpHost` (ActionExecutor, DocumentGetter, GenaServer) | handlers set in the HTTP server, worker for notifications | Start, Stop, OnPost, OnGet, OnSubscribe, OnUnsubscribe, OnServiceChanged | HTTP connection threads, application, worker |
| `UpnpCtrlPoint` (GenaClient, ActionInvoker) | map of subscriptions, mutex | Subscribe, Unsubscribe, `notify_handler`, Invoke | application, HTTP connection threads |
| `UpnpHttp` (server, client, connection) | the handlers, one HttpClient | Start, Stop, Set...Handler, GET, POST, NOTIFY, SUBSCRIBE | connection threads, worker, application |
| `Tiny/Tcp`, `Tiny/Http` | listening socket, remembered port, pool of connections, clients | Start, Stop, `accept_loop`; Connect, Send, Read; Execute | accept thread, connection threads |
| `Tiny/Thread` | thread status, semaphore, mutex, condition | Start, Join; Wait, Post; Lock, Unlock; Notify | every thread |
| `Tiny/Timer` | `is_running`, IPC socket | Run, Stop | owner |
| `Tiny/Container` | linked list with its size; map and queue made of it | Add, Remove, Get | callers lock, or should |
| `UpnpTypedef`, parsers, `UpnpCommon`, Xml, String, Md5, Uuid, Log, Memory, Net | records and conversions | pure functions, input and output | one thread |
| `3rdpart_src` | expat and a JSON library | vendored | - |

How they interact. The application calls the runtime, which calls the provider
under the mutex of the provider. The provider calls its observers, which are the
registry (announcements) and the GENA server (events). `UpnpService_SendEvents`
calls the provider *without* the mutex. The GENA server puts copies of an event
into the queue of the worker, whose thread sends them. The SSDP thread reads
messages and takes the mutex of the provider to answer a search. Stop of the
registry joins that thread with the mutex held.

What is hard: listeners that are tested and later called, with no lock; walks
over lists that another thread changes; tokens, STOP datagrams and sockets left
over by one run for the next; joins with locks held; starts and stops that fail
half-way. `PROJECT.json` lists these hazards, each at its line.

What makes the parts correct: a job is handled once and never lost, and Stop
leaves no thread behind (worker); observers know exactly what the maps hold, and
an event reaches those that are attached (provider); the network's view of a
device follows the map, up to the goodbye (registry); a subscriber is notified
until it unsubscribes, and the last value it gets is the current one (GENA);
what started is stopped, in every order of failures (runtime).

## Modules

| module | models | abstract specification |
|---|---|---|
| `JobLedger` | the promise of a worker: each job is queued, held, then settled once | - |
| `TinyWorker` | `TinyWorker.c`, `TinyBlockingQueue.c`, and Join, Wait and Post of `Tiny/Thread` | `JobLedger` (`LedgerSpec`) |
| `UpnpProvider` | `UpnpProvider.c`, the event path of `UpnpService.c`, the sizes of `TinyList.c` | |
| `Advertisement` | the promise of a host to its network, without locks or threads | - |
| `UpnpRegistry` | announcing side of `UpnpRegistry.c`, `Ssdp.c`, and what they use of `TinyMulticast`, `TinySelector` and `TinySocketIpc` | `Advertisement` (`AdvertisementSpec`) |
| `UpnpDiscovery` | the finding side: `UpnpRuntime_StartScan` and `StopScan`, `UpnpRegistry.c` from Discover to OnResponse, `UpnpValidator.c`, `UpnpObjectList.c` | |
| `UpnpGenaServer` | `UpnpGenaServer.c`, the list of subscribers of `UpnpService.c` and `TinyList.c`, `UpnpEvent.c` | |
| `UpnpRuntime` | `UpnpRuntime.c` and what its parts return to it; Start, Stop and Dispose of `UpnpHost`, the handlers of `UpnpHttpServer.c`, `UpnpActionExecutor.c` and `UpnpDocumentGetter.c` under requests | |
| `TcpServer` | `TcpServer.c`, `TcpConn.c`, `TcpConnPool.c`, the TCP part of `tiny_socket.c`, the request loop of `UpnpHttpServer.c` | |
| `HttpClient` | `Tiny/Http/HttpClient.c` and `TcpClient.c` as `UpnpHttpClient.c` uses them, from several threads | |
| `UpnpGenaClient` | `UpnpGenaClient.c` on top of `HttpClient`, which it extends | |
| `HttpTransfer` | how a message is put together from pieces: `HttpClient.c`, `HttpMessage.c`, `HttpContent.c`, `conn_recv_http_msg` | |
| `TinyTimer` | `TinyTimer.c` with its IPC socket | |
| `TinyCondition` | `TinyCondition.c` | |
| `DataList` | a sequence of data, and what leaves it | - |
| `TinyList` | `TinyList.c`: nodes, links, positions, the size | `DataList` (`DataListSpec`) |
| `*Proofs` | theorems about the module of that name; `UpnpRegistryProofs` is about `UpnpDiscovery` as well, `UpnpGenaClientProofs` about `HttpClient` and `HttpTransfer` as well, `TinyProofs` about `TinyTimer`, `TinyCondition` and `TinyList` | |
| `MC*` | values and symmetry for TLC; `MCTiny` extends four modules and puts them into one run | |

How they compose. `UpnpGenaClient` is composed with the client it shares: its
actions are `HttpClient`'s with what the caller adds to them. `UpnpRuntime` sees
its parts through what their calls return, which the modules of the parts show.
`UpnpGenaServer` has a sequence where `TinyWorker` implements a `JobLedger`.

**TinyWorker.** A call runs up to its next access to shared state: PutJob is
`PutPush` and `PutPost` because the semaphore is posted after the mutex is left;
Stop is `StopClearListener`, `StopClearCtx`, `StopPost`, `StopJoin`; the loop is
`TakeWait`, `TakeJob` or `TakeNull`, `DropStopped` or `SeeRunning`, `LeakJob` or
`SeeListener`, `CallListener`, `ListenerReturns`. `UseNullCtx` is `DoNotify`
with the context that Stop has cleared. After a `fault` the process has crashed
and no step is possible. `fate` records what became of a job, for the properties
only; `stopPosts`, `polls` and `nullTakes` count the tokens that do not stand
for a job. One application thread, the owner, calls Start, Stop and Dispose.
Dispose is Stop, then `DisposeDrain` for each job that Poll finds,
`DisposeEmpty`, and `DisposeEnd`, which destroys the queue. Nobody keeps
producers away from it: `UpnpGenaServer_Dispose` has left the mutex that
OnSubscribe holds, and OnServiceChanged holds none. So a `PutPush` may come
between the drain and the end, and its job is then freed by nobody (`spilled`);
a PutJob that comes after the end (`PutDestroyed`) and a post that does are
faults. `late` are the jobs put since Dispose was called, and `overlap` says
that it was called while a producer was about to post.

**UpnpProvider.** What runs under the mutex is broken into steps only where the
event path, which takes no lock, can see the difference: `AddInsert`,
`AddListener`, `AddCtx`; `RemoveNotify`, `RemoveErase`; `AttachCount`,
`AttachLink`; `DetachUnlink`, `DetachCount`. An event is `EventBegin` (the test
of the listener in `UpnpService_SendEvents`), `EventCall`, then `EventFetch` and
`EventDeliver` for each index, and `EventReturn`. `balance`, `made`, `failed`,
`disturbed` and `delivered` are history: what each observer has been told, whom
an Add that gave up half-way should have told of which device, and whether
another thread changed something an event was using.

**UpnpRegistry.** Add and Remove of a device are one step with their messages,
since all they touch is read under the mutex only. Start is one step for the
same reason; it can be refused (already started, or multicast sockets listed),
fail to open its socket, or succeed with or without an interface. Stop is
`StopBegin` (goodbye, with the mutex), `StopSend`, `StopClose`,
`StopClearRunning`, `StopJoin`; Dispose goes the same way without mutex and
goodbye. The SSDP thread is `LoopAgain`/`LoopEnds`,
`SelectStop`/`SelectError`/`SelectMessage`, `ReadOther`/`ReadSearch`,
`SearchLock`, `SearchAnswer`. `heard` is the last claim the network was sent
about a device, and `leftover` says that this run began with a STOP datagram of
an earlier one in its socket. `select` fails on closed sockets only: the program
installs no handler that could interrupt it (`tiny_socket.c:68` ignores
SIGPIPE).

**UpnpGenaServer.** A SUBSCRIBE is `SubscribeCount`, `SubscribeLink` (a list
node is counted before it is linked), `SubscribeRead` (the initial event copies
the values) and `SubscribePut`; an UNSUBSCRIBE is `UnsubscribeUnlink` and
`UnsubscribeCount`. All run with the mutex of the provider, which `http` stands
for. An event is `EventRead`, `EventCount`, then `EventFetch` and `EventPut` for
each index, and `EventEnd`, with no lock. `DoNotify` is the worker, whose queue
is a sequence here: that jobs are neither lost nor doubled in it is what
`TinyWorker` shows. `disturbed`, `overlapped` and `suspect` are history: the
races and failures the properties name as excuses.

**TcpServer.** Sockets are entries of a table of descriptors, `file`, because
the code goes on using numbers of closed descriptors: `socket()` and `accept()`
give out the lowest free one. Start is `StartOpen` or `StartNoSocket`,
`StartThread` and `StartRunning`; Stop is one step; Dispose is `DisposeStop` and
`DisposeJoin`. The thread of the n-th Start is `AcceptWait(n)`, `AcceptConn(n)`,
`AcceptAdd(n)`, and `AcceptFails(n)`, `AcceptClean(n)`, `AcceptEnd(n)`. It reads
`socket_fd` before each accept and stays in that accept when `socket_fd` changes
(`at`). The thread of a connection is `ConnRecv` or `ConnRecvFails`,
`ConnReply`, `ConnDrop`, `ConnClose`. The memory of a connection may be freed
while its thread runs: `FdOf` is then any descriptor that memory may hold.
`shutdown` and `close` are one step. Reading a request in several parts is one
step, and a request is only told apart by who has sent it. Memory suffices.

**UpnpRuntime.** Start is `StartServer`, `StartHost`, `StartRegistry`, each of
which may fail and end it (`SetRunning` is apart, since the accept thread is
there before `running` is set); Stop is `StopRegistry`, `StopJoin` (with the
mutex held), `StopHost`, `StopServer`; Dispose takes the parts away in the
code's order, the handlers of the HTTP server field by field. Each successful
start of the HTTP server makes an accept thread of its own (`acceptor[n]`), and
Stop joins none: `AcceptReturns` and `Accept` are two steps, so that a
connection is started after a Stop that fell in between, and `AcceptEnds` clears
`running` whoever's it is by then. `DisposeJoin` joins the last of these threads
only, and frees the runtime. A connection is `Test` (is there a handler),
`Invoke` (it is read again with its context), `Enter` (the executor or getter
reads its provider), `Acquire`, `Serve`, `Written`. `WriteBlocks` is a client
that does not read: `tiny_tcp_write` calls `send` again and again, with the
mutex held and no time-out, until `WriteGoesOn`, which need not come. `Reenter`
is an action handler that registers a device: `TinyMutex` is not recursive.
`busy` and `partial` are history: Dispose was called with a request or an accept
thread still there, and a Start has failed in the registry. A fault ends the
behaviour.

**UpnpDiscovery.** The fields of a scan are written one by one (`StartScan`,
then `SetFilter` to `SetListenerCtx`, `SendSearch`), while a message is handled
in `Receive`, `Test`, `Validate`, `Lookup`, `CallListener`, `Notify`. A message
is its kind and its USN, of which only the types of the URIs are told apart; the
network is the set of all that was ever sent. `told`, `hearer`, `passed` and
`raced` are history: what was reported last about a device, and the scan whose
listener that was; the fields that the last message was judged by; and whether
StartScan or StopScan has run meanwhile.

**HttpClient.** `status` and `socket` are read and written between steps that
other threads may take: `Shutdown`, `Close`, `Disconnected`, `Connect`, `Open`,
`Dial`, `Send`, `Receive`. `Reactions` are those of the peer. A connection holds
the answers that can be read from it, each of them to a certain request. `left`
are the descriptors of connects that failed at once, `met` says that two
requests were under way at a time, and `overlapped` which threads sent them.

**UpnpGenaClient.** Subscribe and Unsubscribe are `Call`, `Lock`, a refusal or
`Subscribe`/`Unsubscribe`, the exchange, and `SubscribeEnds`/`UnsubscribeEnds`,
with the mutex from `Lock` to the end. A notification is `NotifyLock`, then
`NotifyUnknown` (404) or `NotifyCall` and `NotifyEnd`. `deaf` is history: an
accepted subscription whose notification was answered with 404.

**HttpTransfer.** A byte is its position in the stream, a chunk a number of
bytes; the head says how many bytes follow. The same loop receives requests and
answers, but for the codes it returns, of which the model has both.

**TinyTimer.** `left` counts down the times, `interval` is corrected by
arbitrary readings of the clock (`Elapsed`), `mail` is the number of STOP
datagrams that nobody has read. **TinyCondition.** `Wait` clears the flag and
sleeps, `Recheck` has the mutex again. **TinyList.** Nodes are numbers, `used`
the allocated ones; a node that a refused InsertAfter leaves behind stays in
`used` for ever.

## Runs

| run | bounds | shows |
|---|---|---|
| `worker` | 2 producers, 3 jobs, 3 starts, 1 GetJob, a listener that may end the loop, a Dispose at any time | a worker ends only when it is told to until a token is left over; Dispose returns and settles every job that was put before it was called; a job in hand is lost only in a Stop; a queued job is executed unless the owner stops, the listener ends the loop or a token is left over; refinement of `JobLedger` |
| `provider_observers` | 2 devices, 2 threads, two registry observers, one after the other, and the GENA server | observers are told exactly what the map holds, less one report for each failed Add; a service has its listener when its device has its handler; events fail only in named races, and the others are delivered once |
| `registry` | 2 devices, 3 starts | nothing is said of a device after its goodbye; a started registry hears the network until it is stopped, but for a run that finds the STOP of an earlier one; Stop returns unless the thread waits for the mutex Stop holds; Dispose returns; refinement of `Advertisement` |
| `gena_events` | 2 clients, 2 sending threads, 2 values, 2 subscriptions, 2 events | an undisturbed event reaches every subscriber once; subscribers end up with the current value but for named races and failed notifications; the list is counted right when nobody changes it |
| `tcp_server` | 3 descriptors, 2 connections, 2 starts | every socket of a connection is closed in the end; only a thread that has lost its socket serves another; Dispose returns unless an older accept thread has cleared `running` |
| `tiny_library` | timer: 0 or 2 times, 3 starts, 6 clock readings; condition: 3 waiters, 4 waits, 3 notifications, 2 spurious wake-ups; list: 4 nodes, 2 data; transfer: heads of 3, contents of up to 5 and surpluses of up to 2 bytes, a buffer of 5 | the timer's interval stays in its range and each STOP is read once, Stop returns; a wait ends only by a notification, and a notified one ends unless another Wait took it; links are whole, refinement of `DataList`; a message is whole however it was cut, and nobody waits for a byte that was not announced |
| `runtime` | 2 connections (an action, a document), 3 calls of Start and Stop, one Dispose | a runtime can be deleted when no request is under way and every accept thread it ever had has ended; what a failed Start leaves behind; a request is served but for the three waits named |
| `discovery` | 2 devices, one with an NT of another type, 3 scans with different filters, 3 comings and goings | listeners hear what their own scan wants unless a scan begins or ends meanwhile; reports alternate; the listener of a scan is told what is there, but for what is in the list since an earlier scan |
| `gena_client` | 1 service, 2 calls of the application with an exchange, 1 request of the worker, 2 descriptors | answers are one's own, and connections are closed but for one for each refused connect, unless requests meet; a subscription that succeeded is heard; the calls return unless a listener calls back |
| `registry_stop_blocks` | 1 device, 1 start | *violated*: Stop returns |
| `tcp_cross_talk` | 2 descriptors, 1 start | *violated*: a closed connection is not used again |
| `subscribe_again` | 1 service, 3 exchanges | *violated*: "already subscribed" means subscribed |

`tiny_library` checks four modules that share nothing: `part` says which of them
a behaviour is about and the others stay at their initial state, so that the
states of the four add up and are not multiplied.

Why the bounds are enough. Two producers give the token of one for the job of
the other; three starts let a token or a datagram of one run end the next one
and show that it ends no more than that. Two event threads and two observers are
enough for each to be in a different place of a walk while one observer moves;
devices share nothing but the maps, so two show every interference. Two
subscriptions are the shortest list in which a node can go while a walk is
behind, at or past it, and two events can carry an old and a new value. Three
descriptors hold the listening socket and two connections, so that a number is
free, reused by a connection and reused by the next Start, and none is left in
between; two starts let every phase of the old accept thread meet the new one.
Two requests of the runtime are one that holds the mutex and one that waits for
it; three calls are a Start that fails or succeeds, a Stop, and a Start that
meets the accept thread of the first.
Two scans can leave their fields mixed, the third lets one filter pass what two
others have or have not; three changes let a device go, come back and have an
old goodbye delivered. One request of the worker is enough to
fall into each step of an exchange, two exchanges let one find what the other
has left. Three waiters are the notified one, the one that takes its
notification, and one that sleeps on. Four nodes are two inner ones with both
ends. A head of three bytes can be cut in two places, a content of four bytes in
three pieces, and the fifth is more than `MaxContent` allows. The proofs cover
every number of each. The bounds are constants (`MaxStarts`, `MaxFd`, the sets),
named in the modules.

A violated run names a property which a comment, log message or test program of
the repository implies, and a finding in `PROJECT.json` quotes it:

- `UpnpRegistry.c:178` joins with the mutex held that the thread waits for;
- `TcpConn.c:169` closes the socket and leaves the status at connected: the
  thread reads on from a number that may belong to another connection;
- `UpnpGenaClient.c:258` ends a subscription at the device and leaves it in the
  map.

What else the code does that a reader may not expect. The models contain these,
and the properties name them as their excuses or hold in spite of them:

- `TinyWorker.c:248` calls `listener` after it was tested, with no lock: a Stop
  in between makes it call a cleared listener or context;
- `TinyWorker.c:242` leaves the loop with a job in hand and does not delete it;
  `LeakOnlyInStop` says that this takes a Stop in progress;
- a job that is put when `TinyWorker_Dispose` has found the queue empty is lost
  with it, and one that is put later uses a mutex and a semaphore that are
  destroyed; `UpnpGenaServer_Dispose` (`UpnpGenaServer.c:337-364`) keeps neither
  out. `DisposeSettlesAll` names such a PutJob as the excuse;
- the token that a Stop or a GetJob has left may end the next worker, which then
  serves nothing: `AliveUntilSurplusToken` and `JobServed` name it as the
  excuse;
- `TinyMulticast.c:157` closes the sockets and leaves them in the list: the next
  Start is refused as already opened. With an interface up a stopped host cannot
  be started again, and a Start that fails there leaves the HTTP server and the
  worker running until the runtime is deleted (`NoWayBack`);
- `TinyList.c:510` overwrites the result of a removal that succeeded; the GENA
  server answers it with "not subscribed". `DataList` promises the removal and
  this code;
- `UpnpGenaServer.c:72` gives all subscribers one SID, and UNSUBSCRIBE removes
  the first of them;
- `UpnpGenaServer.c:63` tests a pointer as an error code: whether a second
  subscription of one callback is found depends on a bit of an address. The
  model has both outcomes, so a callback may be twice in the list;
- `TcpServer.c:242` clears `running` at the end of a thread whose server has
  been started again, and Dispose then joins a thread that nobody ends;
- `TcpServer.c:124`: a listen that fails leaves its socket open;
- `TcpServer.c:177` remembers the port over a restart, which then is another
  one;
- `UpnpActionExecutor.c:76` calls the handler of an action with the mutex held,
  which is not recursive: a handler that registers a device waits for itself;
- `UpnpActionExecutor.c:83` and `UpnpDocumentGetter.c:42` send the answer with
  the mutex held, and `tiny_tcp_write` has no time-out: a client that does not
  read keeps all other requests, Start, Stop and Register waiting;
- `TcpServer_Stop` joins nobody: an accept that has returned starts its
  connection afterwards, and a runtime whose Stop has returned may still get a
  request. `test_BinaryLight/host/test.c:85-89` deletes it right after Stop;
  `FaultOnlyWhenBusy` says what must have ended before;
- a StartScan before the runtime is started returns an error, and the scan is on
  all the same; the max-age of an announcement is never used;
- StopScan leaves the list (`UpnpRegistry.c:221-228`), and an object in it is
  only refreshed (`UpnpRegistry.c:277-282`): the listener of the next scan is
  not told of it before it has said goodbye and come back. `Rediscovered` names
  this;
- the filter of a scan lets devices through and nothing else: USNs of root
  devices, UUIDs and services are dropped;
- `TcpClient.c:92`: on Linux an asynchronous connect counts as connected at
  once, and one that fails at once leaves its socket open (`left`), which
  `OneConnection` counts;
- bytes behind the announced content make `HttpContent_AddObject` refuse the
  whole first piece, and nobody looks at its result: `WholeWhenOK` holds of
  messages without such a surplus; a head that is cut inside a header value
  makes `HttpHeader_Parse` fail or run past the buffer (`InValue`);
- `UpnpProvider.c:138` does not dispose of the list of observers, a leak at the
  end of the process that no modelled step sees.

## Fairness

Safety does not depend on it. Liveness assumes weak fairness of steps of a
thread that is already inside a call or a loop: the worker, an owner in Stop or
Dispose, a producer about to post, the SSDP thread when it does not wait. This
is what a preemptive scheduler gives. No call of the application is obliged to
happen, no message or connection to arrive, and a thread that waits in `select`
need not notice that its sockets were closed. An accept on a socket that was
closed does return, because `tiny_tcp_close` shuts the socket down first
(`tiny_socket.c:398`). A listener is assumed to return.

`TinyTimer`: the thread, and a Stop that has begun, go on; nothing makes the
owner call. `TinyCondition`: a woken thread has the mutex in the end. In
`UpnpRuntime` and `UpnpGenaClient` those who wait for a mutex have strong
fairness: a pthread mutex is not fair, but it is not denied for ever to one who
waits while it comes free again and again. In `UpnpGenaClient` the steps of
those who hold it, and the time-outs of an exchange, have weak fairness. In
`UpnpRuntime` each request has one strong fairness for its steps, the end of a
write among them, because an answer is finite: a client that reads on again and
again gets all of it. No client is obliged to read. `UpnpDiscovery`: both
threads go on, and a device that is there repeats its announcement, not every
repetition of which is lost (strong fairness of `Announced`): UPnP asks devices
to repeat, and the model says so of the device, which is another program.

## Proofs

`TinyWorkerProofs` proves for any sets of producers and jobs and any number of
starts. The inductive invariant `IInv` of `TinyWorker` adds to the properties
`Hands` (what each place in the loop says about the job in hand), `Phases` (how
the owner's place in Stop or Dispose and the status of the thread go together),
`TokenBound` (tokens without a job come from Stop and Poll only) and `Lateness`
(what is in the queue, or about to be announced, when Dispose has drained it was
put since Dispose was called): without them `Accounting` is not preserved by
`TakeNull`, nor `Custody` by `TakeJob`. From it follow `TokensAccounted`,
`NoLostWakeup`, `JobsInCustody`, `QuietAfterStop`, `AliveInFirstRun`,
`DisposeSettles`, `LeaksOnlyInStop` and `Refinement`.

`UpnpProviderProofs` proves for any devices, threads and restarts of the
registry. The steps fall into those under the mutex and those of a sender
(`Steps`); the invariant `Inv` is `Custody` (who is inside a locked call holds
the mutex, alone), `Walk` (where a sender is between the first observer and the
last it has counted), `Served` (a listener is set but while its device is being
added or removed), `Calm` (a sender whom nobody has disturbed still finds what
it has tested) and `View` (what each observer was told, exactly, with `failed`
for the Adds that gave up). It yields `ViewsAreTheRegistry`,
`ListenersAreServed`, `FaultsOnlyInRaces` and `EventsAreDelivered`.

`UpnpRegistryProofs` proves for any set of devices and any bound on starts. Its
invariant adds to the properties `MutexHeld` (from the goodbye until Ssdp is
seen not running, the mutex is with Stop, so that no device can be added and no
search answered), `Phases` (the owner's place against sockets and thread),
`Hearing` (a run that found no datagram has no STOP but its own) and `Heard`
(what was said last of each device). `Refinement` maps `heard` to that of
`Advertisement`, step by step.

`TcpServerProofs` proves for any number of descriptors, connections and starts.
Its invariant `IInv` says who owns each entry of the table: `Places` (a
connection's socket is at the number it was accepted with, until its thread has
closed it, and it is there until somebody has) and `Listeners` (a listening
socket belongs to the running or starting server, or to a Start whose accept or
listen failed, or that an older thread has cleared). `Made`, `Phases`, `Serves`
and `HasThread` tie them to the owner and the threads. A close is treated once,
in `CloseKeeps`, for all who close: it takes away one entry, and `strays`
remembers it when it was not the closer's own. From the invariant follow
`RunningServed`, `StoppedClosed`, `SocketsClosed` and `CrossTalk`.

It proves of `UpnpDiscovery`, for any devices, scans and messages, that calls
are clean and reports alternate. `ScanOK` says how much of a scan is written at
each place of StartScan, `CleanOK` what holds of a message as long as `raced` is
false; a step of the application between two steps of the SSDP thread makes it
true (`AppRaces`). `ListOK` ties the list to what was told, with the one object
whose report is under way as the exception.

`UpnpRuntimeProofs` proves for any number of connections and calls. `Served`
says that the handlers and the provider are whole until Dispose, and that after
a Dispose that found every accept thread ended and no request no connection can
begin; `WayOK` says which parts run at each place of the owner, apart for a
runtime whose Start has failed half-way.

`TinyProofs` proves, of the timer, for every interval, clock and number of runs.
The interval needs `IntervalOK`: the remembered correction is not negative,
whatever the clock says. `StopInv` counts datagrams: those in the socket are the
one that was left by a run that ended by itself, plus what this run was sent,
less what it has read.

Of the condition variable it proves, for any number of threads, that nobody
returns without a notification. What makes it so is `ReadyForAll`: Wait clears
the flag for everybody, so a flag that is set was set by a notification that
came after each of the waits that are still going on.

Of the list it proves, for every finite memory, any data and all sequences of
calls, that the links are whole and that the list implements `DataList`. The
invariant says that there is a chain: a function on `0..k` that starts at
`first`, ends at `Null`, follows `next` in one direction and `prev` in the
other, and visits only allocated nodes, none of them twice (`Chain`). A node
comes in between two neighbours or goes from between two (`InsertedIsChain`,
`RemovedIsChain`, `InsertStep`, `RemoveStep`); each operation is one of these at
a certain place, and what it does to the nodes it does to the data, which
`InsertedSeq`, `RemovedSeq` and their special cases say in terms of sequences.
The walk of the code is the recursive function `NodeAt`; `WalkExists` shows that
there is such a function, and `ReadOff` that it reads off the chain. Both go by
induction over numbers, which is stated for sets (`Induction`), since the
prover cannot use the library's theorems, whose parameter is an operator; it is
proved from the well-foundedness of the numbers.

`UpnpGenaClientProofs` proves of `HttpClient`, for any threads, descriptors and
requests, that an answer is one's own: `Meet` says that of two requests under
way at a time both are in `overlapped`, and `PendingIsOwn` that a request which
met nobody finds nothing but its own answer in the connection, because the
connection is new. That no connection is open but one and those in `left` is by
`Tidy`, which follows it through the places of the one request there is, as long
as `met` is false.
`GenaUsesTheClient` shows that what the control point does is allowed by the
specification of the client, so that both hold there (`GenaAnswersAreOwn`).
`SubscribersAreHeard` rests on these and on `Holding` (who has the mutex where;
a request is under way only while the application has it, with the subscription
in the map) and `SubscriptionHeard`: from the moment the acceptance is on its
way, the device has the subscription and nobody can answer 404, since the
mutex is taken, and when it is free the map has the subscription.

Of the message loop it proves for every size of head, content and buffer.
`Collected` says that the content is the stream from the end of the head to the
last byte taken; two pieces joined are one (`BytesJoin`), which is proved from
sequences by their elements.

`UpnpGenaServerProofs` proves for any clients and threads and any number of
requests and events. `Sizes` gives the size of the list from its nodes and the
place of the request under way, `Places` what a sender has where, `Walks` that
the walk of a sender that no request has met has put the callbacks of exactly
the first nodes of a list that stood still. `SyncInv` is about what is on its
way: `EndsWith` says which value a client will have once the queue is worked
off. Whom an event that met nothing has passed ends up with its value
(`CleanEvents`), and between events everybody ends up with the value sent last
or a newer one read by OnSubscribe (`Settled`): without `Settled` a new event
has nothing to start from.

What the proofs assume: that the set of producers is finite (`Cardinality` means
nothing otherwise), that `NoJob` is no job and `None` no client and no
subscriber, that the bounds and sizes are numbers, that the memory of a list is
a finite set of numbers (`MemoryIsFinite`), that a control point has a service
to subscribe to (`SomeService`) and one thread beside the notify worker
(`TwoThreads`), and the parameters of the types their modules state as `ASSUME`.
Some theorems state what no run repeats, since their runs have the stronger
properties that rest on it: the accounting, custody and quiet of the worker,
`HeardIsRegistered` and `ThreadGone` of the registry, `RunningIsServed` and
`StoppedIsClosed` of the TCP server, and the types.

Only model-checked: everything that depends on fairness (`DisposeReturns`,
`JobServed`, `StopReturns`, `StopReturnsUnlessSearched`,
`DisposeReturnsUnlessCleared`, `CalledReturns`, `RequestServed`, `Rediscovered`,
`CallsReturn`), which is out of the prover's reach, and the violated runs. Every
invariant, action property and refinement that a passing run checks is also
proved.

## Not modelled

- Half of the lines of the repository are the vendored expat and JSON libraries.
  A good part of the rest is data: parsers of XML and HTTP headers, strings,
  hashes, URIs, values, headers, logs and look-ups of the network, in one thread
  and with no state to interleave, and the sample programs, which are used as
  evidence of how the stack is called. The map covers what remains: the parts
  with threads, locks, sockets and lists. It cannot come near a third of all
  lines.
- `AsyncHttpClient.c`: nothing in the stack uses it.
- `UpnpGenaClient_Dispose`, and failures of memory everywhere but in `TinyList`.
  One of them: when `UpnpSubscription_New` fails, Subscribe returns OK
  (`UpnpGenaClient.c:214`).
- `TinyMap` on its own: it is a list searched by key, and a function in the
  modules that use it. Insert ignores a failed AddTail and Erase the result of
  RemoveAt; keys are compared in their first 256 characters.
- A discovery listener that calls StartScan or StopScan itself.
- The composition of `UpnpGenaServer` with `TinyWorker`: the queue there is a
  sequence, which `JobLedger` justifies while no Stop is in progress.
- More than one request on a connection, in `UpnpRuntime`: `conn_recv_once`
  disconnects after each, and what a thread may read from its descriptor after
  that is in `TcpServer`.
