---------------------------- MODULE UpnpRuntime -----------------------------
(***************************************************************************)
(* UpnpStack/UpnpRuntime with the parts it starts and stops: the HTTP      *)
(* server, the worker of the GENA server and the registry, the provider    *)
(* they share, and the requests that the HTTP server hands to the host     *)
(* (UpnpHttpServer, UpnpActionExecutor, UpnpDocumentGetter).               *)
(*                                                                         *)
(* Start and Stop give up at the first part that fails and undo nothing.   *)
(* Stop closes the listening socket and joins nobody: an accept thread may *)
(* have a connection in its hands, or outlive the next Start.  Dispose     *)
(* takes the host and the provider away first and the HTTP server last,    *)
(* joins the last accept thread only, and nobody waits for the threads of  *)
(* the connections, which test a handler, read it again, then use the      *)
(* provider.  An answer is written with the mutex of the provider held.    *)
(*                                                                         *)
(* The parts are seen here through what their calls return; TcpServer,     *)
(* TinyWorker, UpnpRegistry and UpnpProvider model their insides.          *)
(***************************************************************************)
EXTENDS Naturals, FiniteSets

CONSTANTS
  Conns,       \* connections, each of which brings one request
  KindOf,      \* KindOf[c]: the method of that request
  Reentrant,   \* whether an action handler may register a device itself
  MaxCalls     \* bound: calls of Start and Stop

Kinds == {"GET", "POST"}

ASSUME ReentrantBoolean == Reentrant \in BOOLEAN
ASSUME KindOfKinds == KindOf \in [Conns -> Kinds]
ASSUME MaxCallsNat == MaxCalls \in Nat
ASSUME ConnsApart == Conns \cap {"none", "accept", "end", "done", "fault"} = {}

Runs == 1..MaxCalls   \* the times the HTTP server was started

VARIABLES
  server,     \* the HTTP server is running
  worker,     \* the worker of the GENA server is running
  registry,   \* the registry is running: SSDP is, and the provider has its observer
  listed,     \* the list of multicast sockets is not empty
  search,     \* where the SSDP thread is with a search
  lock,       \* who holds the mutex of the provider
  owner,      \* where the owner is in Start, Stop or Dispose
  hook,       \* hook[k]: OnGet, OnPost # NULL
  context,    \* context[k]: OnGetCtx, OnPostCtx # NULL
  link,       \* link[k]: provider # NULL in the document getter, the action executor
  provider,   \* the provider has not been disposed of
  runs,       \* accept threads that TcpServer_Start has made
  sockets,    \* of them, those whose listening socket is open
  acceptor,   \* acceptor[n]: where the n-th is, or the connection it has accepted
  conn,       \* conn[c]: where the thread of connection c is
  (* history, never read by the code's own steps *)
  calls,      \* calls of Start and Stop
  result,     \* what Start or Stop has returned last
  partial,    \* a Start failed when server and worker were up already
  busy        \* Dispose was called with an accept thread or a request there

parts  == <<server, worker, registry, listed>>
net    == <<runs, sockets, acceptor>>
hooks  == <<hook, context, link>>
calling == <<owner, calls, result, partial, busy>>
vars == <<parts, net, search, lock, hooks, provider, conn, calling>>

Init ==
  /\ server = FALSE /\ worker = FALSE /\ registry = FALSE /\ listed = FALSE
  /\ search = "none" /\ lock = "free" /\ owner = "idle"
  /\ hook = [k \in Kinds |-> TRUE] /\ context = hook /\ link = hook
  /\ provider = TRUE
  /\ runs = 0 /\ sockets = {} /\ acceptor = [n \in Runs |-> "none"]
  /\ conn = [c \in Conns |-> "none"]
  /\ calls = 0 /\ result = "none" /\ partial = FALSE /\ busy = FALSE

-----------------------------------------------------------------------------
(* The owner: UpnpRuntime_Start.                                           *)

Goto(from, to) == owner = from /\ owner' = to

Return(code) == result' = code /\ owner' = "idle"

Call == owner = "idle" /\ calls < MaxCalls /\ calls' = calls + 1

\* TcpServer_Start makes its thread first and says that it runs afterwards.
StartServer ==
  /\ Call
  /\ \/ Return("failed") /\ UNCHANGED net
     \/ /\ ~server /\ owner' = "setRunning"
        /\ runs' = runs + 1 /\ sockets' = sockets \cup {runs + 1}
        /\ acceptor' = [acceptor EXCEPT ![runs + 1] = "accept"]
        /\ UNCHANGED result
  /\ UNCHANGED <<parts, search, lock, hooks, provider, conn, partial, busy>>

SetRunning ==
  /\ Goto("setRunning", "startHost")
  /\ server' = TRUE
  /\ UNCHANGED <<worker, registry, listed, net, search, lock, hooks, provider, conn,
                 calls, result, partial, busy>>

StartHost ==
  /\ owner = "startHost"
  /\ IF worker THEN Return("failed") /\ UNCHANGED worker
               ELSE owner' = "startRegistry" /\ worker' = TRUE /\ UNCHANGED result
  /\ UNCHANGED <<server, registry, listed, net, search, lock, hooks, provider, conn, calls,
                 partial, busy>>

\* UpnpRegistry_Start takes the mutex; the list of sockets that an earlier
\* run has left, or a socket that cannot be opened, makes it fail.
StartRegistry ==
  /\ owner = "startRegistry" /\ lock = "free"
  /\ \/ /\ ~listed
        /\ listed' \in BOOLEAN
        /\ registry' = TRUE /\ search' = "idle"
        /\ Return("OK") /\ UNCHANGED partial
     \/ /\ listed' \in (IF listed THEN {TRUE} ELSE BOOLEAN)
        /\ Return("failed") /\ partial' = TRUE
        /\ UNCHANGED <<registry, search>>
  /\ UNCHANGED <<server, worker, net, lock, hooks, provider, conn, calls, busy>>

-----------------------------------------------------------------------------
(* The owner: UpnpRuntime_Stop.  The SSDP thread is joined with the mutex  *)
(* of the provider held.                                                   *)

StopRegistry ==
  /\ Call /\ lock = "free"
  /\ IF registry THEN lock' = "owner" /\ owner' = "joinSsdp" /\ UNCHANGED result
                 ELSE Return("failed") /\ UNCHANGED lock
  /\ UNCHANGED <<parts, net, search, hooks, provider, conn, partial, busy>>

StopJoin ==
  /\ Goto("joinSsdp", "stopHost")
  /\ search = "idle"
  /\ search' = "none" /\ registry' = FALSE /\ lock' = "free"
  /\ UNCHANGED <<server, worker, listed, net, hooks, provider, conn, calls, result,
                 partial, busy>>

\* Mutant: the worker is forgotten.
StopHost_Forgotten ==
  /\ Goto("stopHost", "stopServer")
  /\ UNCHANGED <<parts, net, search, lock, hooks, provider, conn, calls, result, partial, busy>>

\* Mutant: the host forgets its provider when it is stopped, not when it is disposed of.
StopHost_Unlinks ==
  /\ Goto("stopHost", "stopServer")
  /\ worker' = FALSE
  /\ link' = [k \in Kinds |-> FALSE]
  /\ UNCHANGED <<server, registry, listed, net, search, lock, hook, context, provider, conn,
                 calls, result, partial, busy>>

StopHost ==
  /\ owner = "stopHost"
  /\ IF worker THEN worker' = FALSE /\ owner' = "stopServer" /\ UNCHANGED result
               ELSE Return("failed") /\ UNCHANGED worker
  /\ UNCHANGED <<server, registry, listed, net, search, lock, hooks, provider, conn, calls,
                 partial, busy>>

\* TcpServer_Stop: it does nothing when the server says that it does not run.
CloseListening ==
  /\ server' = FALSE
  /\ sockets' = IF server THEN sockets \ {runs} ELSE sockets

StopServer ==
  /\ owner = "stopServer"
  /\ CloseListening
  /\ Return(IF server THEN "OK" ELSE "failed")
  /\ UNCHANGED <<worker, registry, listed, runs, acceptor, search, lock, hooks, provider, conn, calls,
                 partial, busy>>

-----------------------------------------------------------------------------
(* The owner: UpnpRuntime_Dispose, in its order: registry, GENA server,    *)
(* action executor, document getter, provider, HTTP server.                *)

Idle  == {"none", "closed"}
Ended == {"none", "done"}

DisposeBegin ==
  /\ Goto("idle", "disposeRegistry")
  /\ busy' = \/ \E n \in Runs : acceptor[n] \notin Ended
             \/ \E c \in Conns : conn[c] \notin Idle
  /\ UNCHANGED <<parts, net, search, lock, hooks, provider, conn, calls, result, partial>>

\* Ssdp_Dispose joins its thread, here with no mutex held.
DisposeRegistry ==
  /\ Goto("disposeRegistry", "disposeHost")
  /\ search \in {"none", "idle"}
  /\ search' = "none" /\ registry' = FALSE
  /\ UNCHANGED <<server, worker, listed, net, lock, hooks, provider, conn, calls,
                 result, partial, busy>>

\* UpnpGenaServer_Dispose takes the mutex to remove its observer.
DisposeHost ==
  /\ Goto("disposeHost", "clearHook")
  /\ lock = "free" /\ worker' = FALSE
  /\ UNCHANGED <<server, registry, listed, net, search, lock, hooks, provider, conn, calls,
                 result, partial, busy>>

\* The executor, then the getter: the handler, its context, their provider.
Clearing == IF hook["POST"] \/ context["POST"] \/ link["POST"] THEN "POST" ELSE "GET"

ClearHook ==
  /\ Goto("clearHook", "clearContext")
  /\ hook' = [hook EXCEPT ![Clearing] = FALSE]
  /\ UNCHANGED <<parts, net, search, lock, context, link, provider, conn, calls, result,
                 partial, busy>>

ClearContext ==
  /\ Goto("clearContext", "clearLink")
  /\ context' = [context EXCEPT ![Clearing] = FALSE]
  /\ UNCHANGED <<parts, net, search, lock, hook, link, provider, conn, calls, result,
                 partial, busy>>

ClearLink ==
  /\ owner = "clearLink"
  /\ link' = [link EXCEPT ![Clearing] = FALSE]
  /\ owner' = IF Clearing = "POST" THEN "clearHook" ELSE "disposeProvider"
  /\ UNCHANGED <<parts, net, search, lock, hook, context, provider, conn, calls, result,
                 partial, busy>>

DisposeProvider ==
  /\ Goto("disposeProvider", "disposeServer")
  /\ provider' = FALSE
  /\ UNCHANGED <<parts, net, search, lock, hooks, conn, calls, result, partial, busy>>

DisposeServer ==
  /\ Goto("disposeServer", "joinAccept")
  /\ CloseListening
  /\ UNCHANGED <<worker, registry, listed, runs, acceptor, search, lock, hooks, provider,
                 conn, calls, result, partial, busy>>

\* TinyThread_Dispose joins the thread that was made last; then the memory of
\* the runtime is freed.
DisposeJoin ==
  /\ Goto("joinAccept", "disposed")
  /\ runs > 0 => acceptor[runs] = "done"
  /\ UNCHANGED <<parts, net, search, lock, hooks, provider, conn, calls, result, partial,
                 busy>>

Freed == owner = "disposed"

-----------------------------------------------------------------------------
(* accept_loop, of the n-th start of the HTTP server.  Which socket it     *)
(* waits on, and that of a closed one, is the matter of TcpServer.         *)

Accepts(n, to) ==
  /\ acceptor' = [acceptor EXCEPT ![n] = to]
  /\ UNCHANGED <<worker, registry, listed, runs, sockets, search, lock, hooks, provider,
                 calling>>

\* tiny_tcp_accept returns; the connection has no thread yet.
AcceptReturns(n, c) ==
  /\ acceptor[n] = "accept" /\ sockets # {}
  /\ conn[c] = "none" /\ \A m \in Runs : acceptor[m] # c
  /\ Accepts(n, c) /\ UNCHANGED <<server, conn>>

\* TcpConn_Start, whatever Stop has done since; then the next accept.
Accept(n, c) ==
  /\ acceptor[n] = c
  /\ IF Freed THEN Accepts(n, "fault") /\ UNCHANGED conn
              ELSE Accepts(n, "accept") /\ conn' = [conn EXCEPT ![c] = "receive"]
  /\ UNCHANGED server

\* The socket was closed, there is no descriptor left, or the network fails.
AcceptFails(n) ==
  /\ acceptor[n] = "accept"
  /\ Accepts(n, "end") /\ UNCHANGED <<server, conn>>

\* thiz->running = false, which may be that of a later start by now.
AcceptEnds(n) ==
  /\ acceptor[n] = "end"
  /\ IF Freed THEN Accepts(n, "fault") /\ UNCHANGED server
              ELSE Accepts(n, "done") /\ server' = FALSE
  /\ UNCHANGED conn

AcceptStep(n) ==
  \/ \E c \in Conns : AcceptReturns(n, c) \/ Accept(n, c)
  \/ AcceptFails(n) \/ AcceptEnds(n)

-----------------------------------------------------------------------------
(* The SSDP thread takes the mutex to answer a search.                     *)

SearchArrives ==
  /\ search = "idle" /\ search' = "wait"
  /\ UNCHANGED <<parts, net, lock, hooks, provider, conn, calling>>

SearchAnswered ==
  /\ search = "wait" /\ lock = "free" /\ search' = "idle"
  /\ UNCHANGED <<parts, net, lock, hooks, provider, conn, calling>>

-----------------------------------------------------------------------------
(* A connection: conn_recv_once, doGet and doPost, OnGet and OnPost.       *)

Advance(c, from, to) ==
  /\ conn[c] = from
  /\ conn' = [conn EXCEPT ![c] = to]
  /\ UNCHANGED <<parts, net, search, hooks, provider, calling>>

\* A step that uses something: to where it leads, or to a fault.
Use(c, from, ok, to) == Advance(c, from, IF ok THEN to ELSE "fault")

\* Nothing comes any more: the thread ends.
Hangup(c) == Use(c, "receive", ~Freed, "closed") /\ UNCHANGED lock

\* if (thiz->OnGet == NULL): 404.
Test(c) ==
  /\ Use(c, "receive", ~Freed, IF hook[KindOf[c]] THEN "call" ELSE "closed")
  /\ UNCHANGED lock

\* The handler is read again, or kept from the test as the compiler likes,
\* and the context is read.
Invoke(c) ==
  /\ \E h \in {TRUE, hook[KindOf[c]]} : Use(c, "call", h /\ context[KindOf[c]], "enter")
  /\ UNCHANGED lock

\* UpnpProvider_Lock(thiz->provider)
Enter(c) == Use(c, "enter", link[KindOf[c]], "wait") /\ UNCHANGED lock

Acquire(c) ==
  /\ ~provider \/ lock = "free"
  /\ Use(c, "wait", provider, "serve")
  /\ lock' = IF provider THEN c ELSE lock

\* The handler of the application runs with the mutex held; when it registers
\* a device it waits for the mutex that its own thread holds.
Reenter(c) ==
  /\ Reentrant /\ KindOf[c] = "POST"
  /\ Advance(c, "serve", "reenter") /\ UNCHANGED lock

\* The document is made, or the handler of the application returns.
Serve(c) == Advance(c, "serve", "write") /\ UNCHANGED lock

\* tiny_tcp_write with the mutex held: while the client does not read, send
\* says EAGAIN and is called again, with no time-out ...
WriteBlocks(c) == Advance(c, "write", "stuck") /\ UNCHANGED lock

\* ... until the client reads on, or resets the connection.
WriteGoesOn(c) == Advance(c, "stuck", "write") /\ UNCHANGED lock

\* Mutant: an error answer leaves the mutex locked.
Written_NoUnlock(c) ==
  /\ Use(c, "write", link[KindOf[c]] /\ provider, "closed")
  /\ UNCHANGED lock

\* The answer is out: UpnpProvider_Unlock(thiz->provider), which is read again.
Written(c) ==
  /\ Use(c, "write", link[KindOf[c]] /\ provider, "closed")
  /\ lock' = IF link[KindOf[c]] /\ provider THEN "free" ELSE lock

ConnStep(c) ==
  \/ Hangup(c) \/ Test(c) \/ Invoke(c) \/ Enter(c) \/ Acquire(c) \/ Reenter(c)
  \/ Serve(c) \/ WriteBlocks(c) \/ WriteGoesOn(c) \/ Written(c)

-----------------------------------------------------------------------------
OwnerStep ==
  \/ SetRunning \/ StartHost \/ StartRegistry
  \/ StopJoin \/ StopHost \/ StopServer
  \/ DisposeRegistry \/ DisposeHost
  \/ ClearHook \/ ClearContext \/ ClearLink
  \/ DisposeProvider \/ DisposeServer \/ DisposeJoin

Faults ==
  \/ \E c \in Conns : conn[c] = "fault"
  \/ \E n \in Runs : acceptor[n] = "fault"

\* Nothing is said of a process that has used what is gone.
Next ==
  /\ ~Faults
  /\ \/ StartServer \/ StopRegistry \/ DisposeBegin
     \/ OwnerStep
     \/ SearchArrives \/ SearchAnswered
     \/ \E n \in Runs : AcceptStep(n)
     \/ \E c \in Conns : ConnStep(c)

Spec == Init /\ [][Next]_vars

(* What has begun goes on: a call of the owner, a search, a request that   *)
(* was received.  The mutex is not fair, but it is not denied for ever     *)
(* either while it comes free again and again.  An answer is finite: who   *)
(* reads on, again and again, gets all of it.  No client is obliged to     *)
(* read, though.                                                           *)
Fairness ==
  /\ SF_vars(~Faults /\ OwnerStep)
  /\ SF_vars(~Faults /\ SearchAnswered)
  /\ \A c \in Conns :
       SF_vars(~Faults /\ (Invoke(c) \/ Enter(c) \/ Acquire(c) \/ Serve(c) \/ Written(c)))

FairSpec == Spec /\ Fairness

-----------------------------------------------------------------------------
TypeOK ==
  /\ {server, worker, registry, listed, provider, partial, busy} \subseteq BOOLEAN
  /\ search \in {"none", "idle", "wait"}
  /\ lock \in {"free", "owner"} \cup Conns
  /\ owner \in {"idle", "setRunning", "startHost", "startRegistry", "joinSsdp", "stopHost",
                "stopServer", "disposeRegistry", "disposeHost", "clearHook", "clearContext",
                "clearLink", "disposeProvider", "disposeServer", "joinAccept", "disposed"}
  /\ hook \in [Kinds -> BOOLEAN] /\ context \in [Kinds -> BOOLEAN] /\ link \in [Kinds -> BOOLEAN]
  /\ conn \in [Conns -> {"none", "receive", "call", "enter", "wait", "serve", "reenter",
                         "write", "stuck", "closed", "fault"}]
  /\ calls \in 0..MaxCalls /\ runs \in 0..calls /\ sockets \subseteq Runs
  /\ acceptor \in [Runs -> {"none", "accept", "end", "done", "fault"} \cup Conns]
  /\ result \in {"none", "OK", "failed"}

\* A runtime can be deleted when no request is under way and every accept
\* thread there ever was has ended: nobody then calls a handler that is gone,
\* uses a provider that is gone, or finds the runtime freed.  That Stop has
\* returned is not enough, however long ago, since nobody joins those threads.
FaultOnlyWhenBusy == Faults => busy

\* After a Start that has failed in the registry there is no way back: neither
\* Start nor Stop succeeds ever again, and the worker of the host runs on until
\* the runtime is deleted.  Before that worker and registry go together, and a
\* Stop that returns OK leaves nothing that says it runs.
NoWayBack ==
  /\ (partial /\ owner = "idle") => worker /\ ~registry /\ result = "failed"
  /\ (~partial /\ owner = "idle") => (worker <=> registry)
  /\ (~partial /\ owner = "idle" /\ result = "OK" /\ ~registry) => ~server

\* A request that waits for the provider is served, unless an action handler
\* waits for the mutex it holds, Stop waits with the mutex for an SSDP thread
\* that waits for it, or the client of another request, whose answer is being
\* written with the mutex held, never reads it.
RequestServed ==
  \A c \in Conns :
    \/ conn[c] = "wait" ~>
         \/ conn[c] \in {"write", "closed"} \/ Faults
         \/ \E b \in Conns : conn[b] = "reenter"
         \/ owner = "joinSsdp" /\ search = "wait"
    \/ \E b \in Conns \ {c} : <>[](conn[b] = "stuck")
=============================================================================
