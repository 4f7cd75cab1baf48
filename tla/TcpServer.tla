----------------------------- MODULE TcpServer -----------------------------
(***************************************************************************)
(* Tiny/Tcp: TcpServer, TcpConn and TcpConnPool, with the listener of      *)
(* UpnpStack/UpnpHttp/UpnpHttpServer that reads requests on a connection.  *)
(*                                                                         *)
(* An owner starts, stops and disposes the server.  Every Start makes a    *)
(* thread that accepts; Stop closes the listening socket and does not wait *)
(* for that thread.  Every connection has a thread, which reads a request, *)
(* answers it and closes the socket, reads again from the number of the    *)
(* closed socket, and closes that number again.  Nobody waits for the      *)
(* thread of a connection.                                                 *)
(*                                                                         *)
(* Sockets are files in a table of descriptors; the kernel gives out the   *)
(* lowest that is free.  A peer sends one request.  Memory suffices.       *)
(***************************************************************************)
EXTENDS Integers, FiniteSets

CONSTANTS
  MaxFd,      \* bound: the process may have the descriptors 1 .. MaxFd
  MaxConns,   \* bound: connections that peers make
  MaxStarts   \* bound: calls of Start that get a socket

ASSUME Bounds == MaxFd \in Nat /\ MaxConns \in Nat /\ MaxStarts \in Nat

VARIABLES
  file,        \* file[f]: what descriptor f is open for
  running,     \* TcpServer.running
  socket_fd,   \* TcpServer.socket_fd; 0 stands for 0 and -1
  owner,       \* where the owner is in Start or Dispose
  starts,      \* sockets made by Start
  acc,         \* acc[n]: where the accepting thread of the n-th Start is
  at,          \* at[n]: the Start whose socket it waits on
  pool,        \* connections in conn_pool
  new,         \* new[n]: the connection accepted by thread n and not in conn_pool yet
  conn_id,     \* connections accepted
  fd,          \* fd[k]: TcpConn.socket_fd of connection k
  pc,          \* pc[k]: where the thread of connection k is
  asked,       \* connections whose peer has sent a request not yet read
  from,        \* from[k]: the connection whose request thread k has in hand
  freed,       \* connections whose memory is freed
  (* history *)
  own,         \* connections whose thread has closed its socket once
  strays,      \* files that were closed by who took them for another
  mixed,       \* threads that read or answered on the socket of another
  late,        \* Starts that set running after their thread had ended
  failed,      \* Starts whose thread ended, or never began, with the socket open
  cleared      \* Starts that were running when an older thread cleared running

serverVars == <<running, socket_fd, owner, starts>>
connVars == <<fd, pc, asked, from>>
poolVars == <<pool, new, conn_id>>
acceptVars == <<acc, at, poolVars>>
histVars == <<own, strays, mixed, late, failed, cleared>>
vars == <<file, serverVars, acceptVars, connVars, freed, histVars>>

Fds == 1..MaxFd
Conns == 1..MaxConns
Runs == 1..MaxStarts

NoFile == [kind |-> "none", id |-> 0]
Conn(k) == [kind |-> "conn", id |-> k]
Listening(n) == [kind |-> "listen", id |-> n]
Unused(n) == [kind |-> "unused", id |-> n]

Files == {Conn(k) : k \in Conns} \cup {Listening(n) : n \in Runs} \cup {Unused(n) : n \in Runs}

FileAt(f) == IF f \in Fds THEN file[f] ELSE NoFile

\* What socket() and accept() return: the lowest free descriptor.
Free == {f \in Fds : file[f] = NoFile}
Lowest(f) == f \in Free /\ \A g \in Free : f <= g

\* Mutant: the socket is shut down and not closed.
Closed_ShutdownOnly(f) == file

\* tiny_tcp_close; it fails, and changes nothing, when f is not open.
Closed(f) == IF f \in Fds THEN [file EXCEPT ![f] = NoFile] ELSE file

\* Close f, for what it is taken to be open for.
CloseAs(f, what) ==
  /\ file' = Closed(f)
  /\ strays' = strays \cup ({FileAt(f)} \ {NoFile, what})

Init ==
  /\ file = [f \in Fds |-> NoFile]
  /\ running = FALSE /\ socket_fd = 0
  /\ owner = "idle" /\ starts = 0 /\ acc = [n \in Runs |-> "none"]
  /\ at = [n \in Runs |-> 0]
  /\ pool = {} /\ new = [n \in Runs |-> 0] /\ conn_id = 0 /\ fd = [k \in Conns |-> 0]
  /\ pc = [k \in Conns |-> "none"] /\ asked = {} /\ from = [k \in Conns |-> 0]
  /\ freed = {}
  /\ own = {} /\ strays = {} /\ mixed = {} /\ late = {} /\ failed = {} /\ cleared = {}

-----------------------------------------------------------------------------
(* TcpServer_Start                                                         *)

StartOpen ==
  /\ owner = "idle" /\ ~running /\ starts < MaxStarts
  /\ starts' = starts + 1
  /\ \E f \in Fds :
       /\ Lowest(f) /\ socket_fd' = f
       /\ \/ /\ file' = [file EXCEPT ![f] = Listening(starts + 1)]
             /\ owner' = "thread" /\ failed' = failed
          \/ \* listen fails: the socket stays open
             /\ file' = [file EXCEPT ![f] = Unused(starts + 1)]
             /\ owner' = owner /\ failed' = failed \cup {starts + 1}
  /\ UNCHANGED <<running, acceptVars, connVars, freed, own, strays, mixed, late,
                 cleared>>

StartNoSocket ==
  /\ owner = "idle" /\ ~running /\ Free = {}
  /\ socket_fd' = 0
  /\ UNCHANGED <<file, running, owner, starts, acceptVars, connVars, freed,
                 histVars>>

\* TinyThread_Initialize forgets the thread of the Start before.
StartThread ==
  /\ owner = "thread" /\ owner' = "run"
  /\ acc' = [acc EXCEPT ![starts] = "accept"]
  /\ UNCHANGED <<file, running, socket_fd, starts, at, poolVars, connVars, freed,
                 histVars>>

StartRunning ==
  /\ owner = "run" /\ owner' = "idle"
  /\ running' = TRUE
  /\ late' = IF acc[starts] = "done" THEN late \cup {starts} ELSE late
  /\ UNCHANGED <<file, socket_fd, starts, acceptVars, connVars, freed,
                 own, strays, mixed, failed, cleared>>

-----------------------------------------------------------------------------
(* TcpServer_Stop and TcpServer_Dispose.  A server that does not run is    *)
(* not stopped, which Dispose does not look at.                            *)

Stop ==
  /\ owner = "idle" /\ running
  /\ CloseAs(socket_fd, Listening(starts))
  /\ running' = FALSE
  /\ UNCHANGED <<socket_fd, owner, starts, acceptVars, connVars, freed,
                 own, mixed, late, failed, cleared>>

\* Mutant: a server that runs is said to be stopped, and its socket stays open.
DisposeStop_NoClose ==
  /\ owner = "idle" /\ owner' = "join"
  /\ running' = FALSE
  /\ UNCHANGED <<file, strays, socket_fd, starts, acceptVars, connVars, freed,
                 own, mixed, late, failed, cleared>>

DisposeStop ==
  /\ owner = "idle" /\ owner' = "join"
  /\ IF running THEN CloseAs(socket_fd, Listening(starts)) ELSE UNCHANGED <<file, strays>>
  /\ running' = FALSE
  /\ UNCHANGED <<socket_fd, starts, acceptVars, connVars, freed,
                 own, mixed, late, failed, cleared>>

\* TinyThread_Dispose joins the thread of the last Start that made one.
LastThread == {n \in Runs : acc[n] # "none" /\ \A m \in Runs : acc[m] # "none" => m <= n}

DisposeJoin ==
  /\ owner = "join" /\ owner' = "disposed"
  /\ \A n \in LastThread : acc[n] = "done"
  /\ freed' = freed \cup pool /\ pool' = {}
  /\ UNCHANGED <<file, running, socket_fd, starts, acc, at, new, conn_id, connVars,
                 histVars>>

-----------------------------------------------------------------------------
(* accept_loop, of the n-th Start.  It reads socket_fd for each accept; a  *)
(* thread of an older Start that is late takes part in the next.           *)

Alive == owner # "disposed"

\* The socket a thread waits on stays the same when socket_fd changes.
AcceptWait(n) ==
  /\ Alive /\ acc[n] = "accept"
  /\ FileAt(socket_fd).kind = "listen"
  /\ at' = [at EXCEPT ![n] = FileAt(socket_fd).id]
  /\ acc' = [acc EXCEPT ![n] = "wait"]
  /\ UNCHANGED <<file, serverVars, poolVars, connVars, freed, histVars>>

Sockets == {file[f] : f \in Fds}

AcceptConn(n) ==
  /\ Alive /\ acc[n] = "wait" /\ conn_id < MaxConns
  /\ Listening(at[n]) \in Sockets
  /\ conn_id' = conn_id + 1
  /\ \E f \in Fds :
       /\ Lowest(f)
       /\ file' = [file EXCEPT ![f] = Conn(conn_id + 1)]
       /\ fd' = [fd EXCEPT ![conn_id + 1] = f]
  /\ pc' = [pc EXCEPT ![conn_id + 1] = "recv"]
  /\ asked' = asked \cup {conn_id + 1}
  /\ acc' = [acc EXCEPT ![n] = "add"] /\ at' = [at EXCEPT ![n] = 0]
  /\ new' = [new EXCEPT ![n] = conn_id + 1]
  /\ UNCHANGED <<serverVars, pool, from, freed, histVars>>

\* TcpConnPool_Add.  TcpConnPool_RemoveClosed then deletes nothing, since no
\* connection ever gets the status DISCONNECT.
AcceptAdd(n) ==
  /\ Alive /\ acc[n] = "add"
  /\ acc' = [acc EXCEPT ![n] = "accept"]
  /\ pool' = pool \cup {new[n]} /\ new' = [new EXCEPT ![n] = 0]
  /\ UNCHANGED <<file, serverVars, at, conn_id, connVars, freed, histVars>>

\* accept fails: the socket is not open any more, there is no descriptor left,
\* or the network reports an error.
AcceptFails(n) ==
  /\ Alive
  /\ \/ acc[n] = "accept" /\ FileAt(socket_fd).kind # "listen"
     \/ acc[n] = "wait"
  /\ acc' = [acc EXCEPT ![n] = "clean"] /\ at' = [at EXCEPT ![n] = 0]
  /\ failed' = IF Listening(n) \in Sockets THEN failed \cup {n} ELSE failed
  /\ UNCHANGED <<file, serverVars, poolVars, connVars, freed,
                 own, strays, mixed, late, cleared>>

\* TcpConnPool_Clean frees the connections, whether their threads run or not.
AcceptClean(n) ==
  /\ Alive /\ acc[n] = "clean"
  /\ acc' = [acc EXCEPT ![n] = "end"]
  /\ freed' = freed \cup pool /\ pool' = {}
  /\ UNCHANGED <<file, serverVars, at, new, conn_id, connVars, histVars>>

AcceptEnd(n) ==
  /\ Alive /\ acc[n] = "end"
  /\ acc' = [acc EXCEPT ![n] = "done"]
  /\ running' = FALSE
  /\ cleared' = IF running /\ n # starts THEN cleared \cup {starts} ELSE cleared
  /\ UNCHANGED <<file, socket_fd, owner, starts, at, poolVars, connVars, freed,
                 own, strays, mixed, late, failed>>

-----------------------------------------------------------------------------
(* conn_loop and conn_listener of connection k.                            *)

\* The descriptor a thread finds in its connection.  In freed memory it is the
\* 0 that TcpConn_Dispose wrote, or that of a connection which is there now.
FdOf(k) == IF k \in freed THEN {0} \cup {fd[j] : j \in 1..conn_id} ELSE {fd[k]}

\* Mutant: every thread reads from the latest connection.
ConnRecv_Latest(k) ==
  /\ Alive /\ pc[k] = "recv"
  /\ \E j \in asked :
       /\ FileAt(fd[conn_id]) = Conn(j)
       /\ from' = [from EXCEPT ![k] = j] /\ asked' = asked \ {j}
       /\ mixed' = IF j = k THEN mixed ELSE mixed \cup {k}
  /\ pc' = [pc EXCEPT ![k] = "reply"]
  /\ UNCHANGED <<file, serverVars, acceptVars, fd, freed,
                 own, strays, late, failed, cleared>>

\* conn_recv_http_msg
ConnRecv(k) ==
  /\ Alive /\ pc[k] = "recv"
  /\ \E f \in FdOf(k), j \in asked :
       /\ FileAt(f) = Conn(j)
       /\ from' = [from EXCEPT ![k] = j] /\ asked' = asked \ {j}
       /\ mixed' = IF j = k THEN mixed ELSE mixed \cup {k}
  /\ pc' = [pc EXCEPT ![k] = "reply"]
  /\ UNCHANGED <<file, serverVars, acceptVars, fd, freed,
                 own, strays, late, failed, cleared>>

\* The wait times out, the socket is closed, or what was read is no request.
ConnRecvFails(k) ==
  /\ Alive /\ pc[k] = "recv"
  /\ pc' = [pc EXCEPT ![k] = "fail"]
  /\ UNCHANGED <<file, serverVars, acceptVars, fd, asked, from, freed, histVars>>

\* The handler answers on what the descriptor is open for by then.
ConnReply(k) ==
  /\ Alive /\ pc[k] = "reply"
  /\ \E f \in FdOf(k) :
       mixed' = IF FileAt(f).kind = "conn" /\ FileAt(f).id # from[k]
                THEN mixed \cup {k} ELSE mixed
  /\ from' = [from EXCEPT ![k] = 0]
  /\ pc' = [pc EXCEPT ![k] = "drop"]
  /\ UNCHANGED <<file, serverVars, acceptVars, fd, asked, freed,
                 own, strays, late, failed, cleared>>

\* TcpConn_Disconnect: the status stays CONNECTED, and after a request that
\* was read well the thread reads again.
ConnDrop(k) ==
  /\ Alive /\ pc[k] \in {"drop", "fail"}
  /\ \E f \in FdOf(k) : CloseAs(f, Conn(k))
  /\ own' = own \cup {k}
  /\ pc' = [pc EXCEPT ![k] = IF @ = "drop" THEN "recv" ELSE "close"]
  /\ UNCHANGED <<serverVars, acceptVars, fd, asked, from, freed,
                 mixed, late, failed, cleared>>

\* The end of conn_loop.
ConnClose(k) ==
  /\ Alive /\ pc[k] = "close"
  /\ \E f \in FdOf(k) : CloseAs(f, Conn(k))
  /\ pc' = [pc EXCEPT ![k] = "done"]
  /\ UNCHANGED <<serverVars, acceptVars, fd, asked, from, freed,
                 own, mixed, late, failed, cleared>>

-----------------------------------------------------------------------------
OwnerStep == StartThread \/ StartRunning \/ DisposeJoin

AcceptStep(n) ==
  \/ AcceptWait(n) \/ AcceptConn(n) \/ AcceptAdd(n)
  \/ AcceptFails(n) \/ AcceptClean(n) \/ AcceptEnd(n)

ConnStep(k) == ConnRecv(k) \/ ConnRecvFails(k) \/ ConnReply(k) \/ ConnDrop(k) \/ ConnClose(k)

Next ==
  \/ StartOpen \/ StartNoSocket \/ Stop \/ DisposeStop \/ OwnerStep
  \/ \E n \in Runs : AcceptStep(n)
  \/ \E k \in Conns : ConnStep(k)

Spec == Init /\ [][Next]_vars

\* An accept on a closed socket returns; who runs goes on.  Nobody need connect,
\* and an accept on an open socket need not fail.
Fairness ==
  /\ WF_vars(OwnerStep)
  /\ \A n \in Runs :
       /\ WF_vars(Listening(at[n]) \notin Sockets /\ AcceptFails(n))
       /\ WF_vars(AcceptWait(n) \/ AcceptAdd(n) \/ AcceptClean(n) \/ AcceptEnd(n))

LiveSpec == Spec /\ Fairness
-----------------------------------------------------------------------------
(* Properties                                                              *)

\* The range of every variable.
FlowOK == running \in BOOLEAN /\ owner \in {"idle", "thread", "run", "join", "disposed"}

NumbersOK ==
  /\ socket_fd \in 0..MaxFd /\ starts \in 0..MaxStarts /\ conn_id \in 0..MaxConns

TablesOK ==
  /\ file \in [Fds -> Files \cup {NoFile}] /\ fd \in [Conns -> 0..MaxFd]
  /\ acc \in [Runs -> {"none", "accept", "wait", "add", "clean", "end", "done"}]
  /\ at \in [Runs -> 0..MaxStarts] /\ new \in [Runs -> 0..MaxConns]
  /\ pc \in [Conns -> {"none", "recv", "reply", "drop", "fail", "close", "done"}]
  /\ from \in [Conns -> 0..MaxConns]

SetsOK ==
  /\ pool \subseteq Conns /\ asked \subseteq Conns /\ freed \subseteq Conns
  /\ own \subseteq Conns /\ mixed \subseteq Conns /\ strays \subseteq Files
  /\ late \subseteq Runs /\ failed \subseteq Runs /\ cleared \subseteq Runs

TypeOK == FlowOK /\ NumbersOK /\ TablesOK /\ SetsOK

\* A server that says it runs has its socket open, unless the thread of a
\* connection has closed it, and has a thread that accepts, unless that had
\* ended before Start said so.
RunningIsServed ==
  running /\ owner = "idle" =>
    /\ FileAt(socket_fd) = Listening(starts) \/ Listening(starts) \in strays
    /\ acc[starts] \in {"none", "done"} => starts \in late

\* A server that says it does not run holds no listening socket, unless its
\* accept failed or the thread of an older Start has cleared running.
StoppedIsClosed ==
  ~running /\ owner = "idle" =>
    \A f \in Fds : file[f].kind = "listen" => file[f].id \in failed \cup cleared

\* Once a connection's thread has ended its socket is closed, unless the memory
\* that held the descriptor was freed before.
NoSocketLeft ==
  \A k \in Conns \ freed : pc[k] = "done" => \A f \in Fds : file[f] # Conn(k)

\* A thread that takes a request from another connection, or answers to another,
\* has closed its own socket before, or somebody has who took it for another
\* socket, or its connection is freed.
Dispossessed(k) == k \in own \/ k \in freed \/ Conn(k) \in strays
CrossTalkExplained == \A k \in mixed : Dispossessed(k)

\* Dispose returns, unless the thread of an older Start has cleared running.
DisposeReturnsUnlessCleared == owner = "join" ~> owner = "disposed" \/ cleared # {}

\* A closed connection is not used again: no thread answers for another.
NoCrossTalk == mixed = {}

-----------------------------------------------------------------------------
(* The inductive invariant, for the proofs.                                *)

\* Nothing has happened yet to what is not made yet, and who has the socket of
\* a Start.
Made ==
  /\ \A k \in Conns : k > conn_id =>
       pc[k] = "none" /\ k \notin own \cup freed \cup mixed \cup pool /\ Conn(k) \notin strays
  /\ \A n \in Runs : new[n] <= conn_id /\ (acc[n] = "add" => new[n] > 0)
  /\ \A n \in Runs : n > starts => acc[n] = "none" /\ Listening(n) \notin strays
  /\ \A n \in Runs : at[n] <= starts

Phases ==
  /\ running => owner = "idle" /\ starts > 0 /\ acc[starts] # "none"
  /\ owner = "thread" => starts > 0 /\ acc[starts] = "none"
  /\ owner = "run" => starts > 0 /\ acc[starts] # "none"

\* The newest Start has its socket until Stop.
Serves ==
  running \/ owner \in {"thread", "run"} =>
    FileAt(socket_fd) = Listening(starts) \/ Listening(starts) \in strays

HasThread == running /\ acc[starts] = "done" => starts \in late

\* Who still has a listening socket.
Listeners ==
  \A f \in Fds, n \in Runs : file[f] = Listening(n) =>
    /\ n <= starts
    /\ \/ n \in failed \cup cleared
       \/ n = starts /\ f = socket_fd /\ (running \/ owner \in {"thread", "run"})
    /\ acc[n] \in {"clean", "end", "done"} => n \in failed

\* A connection's socket is where the connection was accepted, until its thread
\* has closed it; and it is there until somebody has.
Places ==
  /\ \A f \in Fds, k \in Conns : file[f] = Conn(k) => k <= conn_id /\ f = fd[k]
  /\ \A f \in Fds, k \in Conns : k \in own \ freed => file[f] # Conn(k)
  /\ \A k \in 1..conn_id : Dispossessed(k) \/ FileAt(fd[k]) = Conn(k)
  /\ \A k \in Conns : pc[k] \in {"close", "done"} => k \in own
  /\ \A k \in Conns : pc[k] = "reply" /\ k \notin mixed => from[k] = k

IInv ==
  TypeOK /\ Made /\ Phases /\ Serves /\ HasThread /\ Listeners /\ Places /\ CrossTalkExplained
=============================================================================
