----------------------------- MODULE HttpClient ------------------------------
(***************************************************************************)
(* The one HttpClient of a runtime (Tiny/Http/HttpClient with              *)
(* Tiny/Tcp/TcpClient), as UpnpStack/UpnpHttp/UpnpHttpClient uses it:      *)
(* every request closes the connection that the request before has left,   *)
(* opens a new one, sends, and reads the answer, each step with a timeout. *)
(*                                                                         *)
(* The notify worker of the GENA server and the threads of the application *)
(* share it and no lock protects it: status and socket_fd are written and  *)
(* read again between the steps.  The build is the one for Linux, where    *)
(* TcpClient_Connect does not wait for the connection.                     *)
(***************************************************************************)
EXTENDS Naturals, Sequences, FiniteSets

CONSTANTS
  Threads,     \* the threads that send requests
  Fds,         \* descriptors the process may get for a connection
  MaxRequests, \* bound: MaxRequests[t], the requests of thread t
  NoFd         \* socket_fd before the first connection

ASSUME NoFdIsNone == NoFd \notin Fds
ASSUME MaxRequestsNat == MaxRequests \in [Threads -> Nat]

Reactions == {"accepted", "refused", "lost"}

Nothing == [is |-> "none"]
Error   == [is |-> "error"]

Closed == [open |-> FALSE, answers |-> <<>>]

VARIABLES
  status,      \* client.status: "disconnect" or "connected"
  socket,      \* client.socket_fd
  conns,       \* conns[fd]: whether it is open, and the answers to be read from it
  pc,          \* pc[t]: where thread t is in UpnpHttpClient_*
  got,         \* got[t]: what its last request was answered
  (* history *)
  made,        \* made[t]: requests of t so far
  overlapped,  \* threads whose last request met a request of another thread
  met,         \* some requests have met
  left         \* the descriptors of connections that were refused at once

vars == <<status, socket, conns, pc, got, made, overlapped, met, left>>

Init ==
  /\ status = "disconnect" /\ socket = NoFd
  /\ conns = [fd \in Fds |-> Closed]
  /\ pc = [t \in Threads |-> "idle"]
  /\ got = [t \in Threads |-> Nothing]
  /\ made = [t \in Threads |-> 0] /\ overlapped = {}
  /\ met = FALSE /\ left = {}

Busy == {t \in Threads : pc[t] # "idle"}

\* The request of t that is under way, or was its last.
Request(t) == <<t, made[t]>>

Goto(t, from, to) == pc[t] = from /\ pc' = [pc EXCEPT ![t] = to]

\* The request ends; what it has opened stays as it is.
Return(t, from, answer) ==
  /\ Goto(t, from, "idle")
  /\ got' = [got EXCEPT ![t] = answer]

-----------------------------------------------------------------------------
Begin(t) ==
  /\ Goto(t, "idle", "shutdown") /\ made[t] < MaxRequests[t]
  /\ made' = [made EXCEPT ![t] = @ + 1]
  /\ got' = [got EXCEPT ![t] = Nothing]
  /\ overlapped' = IF Busy = {} THEN overlapped \ {t} ELSE overlapped \cup Busy \cup {t}
  /\ met' = (met \/ Busy # {})
  /\ UNCHANGED <<status, socket, conns, left>>

\* HttpClient_Shutdown and TcpClient_Disconnect.
Shutdown(t) ==
  /\ IF status = "disconnect" THEN Goto(t, "shutdown", "connect") ELSE Goto(t, "shutdown", "close")
  /\ UNCHANGED <<status, socket, conns, got, made, overlapped, met, left>>

\* Mutant: the connection is kept for the next request.
Close_Keep(t) ==
  /\ Goto(t, "close", "send")
  /\ UNCHANGED <<status, socket, conns, got, made, overlapped, met, left>>

\* Mutant: the connection is forgotten, not closed.
Close_Forget(t) ==
  /\ Goto(t, "close", "disconnected")
  /\ UNCHANGED <<status, socket, conns, got, made, overlapped, met, left>>

\* tiny_tcp_close: whatever has that descriptor now.
Close(t) ==
  /\ Goto(t, "close", "disconnected")
  /\ conns' = [fd \in Fds |-> IF fd = socket THEN Closed ELSE conns[fd]]
  /\ UNCHANGED <<status, socket, got, made, overlapped, met, left>>

Disconnected(t) ==
  /\ Goto(t, "disconnected", "connect")
  /\ status' = "disconnect"
  /\ UNCHANGED <<socket, conns, got, made, overlapped, met, left>>

\* TcpClient_Connect.  A client that is connected by now is refused, and its
\* status says disconnected afterwards.
ConnectRefused(t) ==
  /\ status # "disconnect" /\ Return(t, "connect", Error)
  /\ status' = "disconnect"
  /\ UNCHANGED <<socket, conns, made, overlapped, met, left>>

Connect(t) ==
  /\ status = "disconnect" /\ Goto(t, "connect", "open")
  /\ UNCHANGED <<status, socket, conns, got, made, overlapped, met, left>>

Open(t) ==
  /\ \E fd \in Fds :
       /\ ~conns[fd].open
       /\ conns' = [conns EXCEPT ![fd] = [open |-> TRUE, answers |-> <<>>]]
       /\ socket' = fd
  /\ Goto(t, "open", "dial")
  /\ UNCHANGED <<status, got, made, overlapped, met, left>>

OpenFails(t) ==
  /\ Return(t, "open", Error)
  /\ status' = "disconnect"
  /\ UNCHANGED <<socket, conns, made, overlapped, met, left>>

\* tiny_tcp_async_connect has begun; nobody waits until it is done.
Dial(t) ==
  /\ Goto(t, "dial", "send")
  /\ status' = "connected"
  /\ UNCHANGED <<socket, conns, got, made, overlapped, met, left>>

\* No route, for instance: the socket is not closed, now or ever.
DialFails(t) ==
  /\ Return(t, "dial", Error)
  /\ status' = "disconnect" /\ left' = left \cup {socket}
  /\ UNCHANGED <<socket, conns, made, overlapped, met>>

IsOpen == socket \in Fds /\ conns[socket].open

\* The device that gets the request accepts or refuses it and answers; the
\* answer may be lost, or the request, and the connection with it.
Send(t, reaction) ==
  /\ status = "connected" /\ IsOpen
  /\ Goto(t, "send", "receive")
  /\ conns' = IF reaction = "lost" THEN conns
              ELSE [conns EXCEPT ![socket].answers =
                      Append(@, [to |-> Request(t), is |-> reaction])]
  /\ UNCHANGED <<status, socket, got, made, overlapped, met, left>>

\* Not connected, a timeout, or a connection that could not be made.
SendFails(t) ==
  /\ Return(t, "send", Error)
  /\ UNCHANGED <<status, socket, conns, made, overlapped, met, left>>

\* What TcpClient_Recv returns is taken for the answer.
Receive(t) ==
  /\ status = "connected" /\ IsOpen /\ conns[socket].answers # <<>>
  /\ Return(t, "receive", Head(conns[socket].answers))
  /\ conns' = [conns EXCEPT ![socket].answers = Tail(@)]
  /\ UNCHANGED <<status, socket, made, overlapped, met, left>>

\* The timeout; not connected any more; closed or reset by the other end.
ReceiveFails(t) ==
  /\ Return(t, "receive", Error)
  /\ UNCHANGED <<status, socket, conns, made, overlapped, met, left>>
-----------------------------------------------------------------------------
\* Every step but Begin and Send, which the callers of the client compose.
Exchange(t) ==
  \/ Shutdown(t) \/ Close(t) \/ Disconnected(t)
  \/ ConnectRefused(t) \/ Connect(t)
  \/ Open(t) \/ OpenFails(t) \/ Dial(t) \/ DialFails(t)
  \/ SendFails(t) \/ Receive(t) \/ ReceiveFails(t)

Step(t) == Begin(t) \/ Exchange(t) \/ \E reaction \in Reactions : Send(t, reaction)

Spec == Init /\ [][\E t \in Threads : Step(t)]_vars

-----------------------------------------------------------------------------
Answers == [to : Threads \X Nat, is : Reactions]

TypeOK ==
  /\ status \in {"disconnect", "connected"}
  /\ socket \in Fds \cup {NoFd}
  /\ conns \in [Fds -> [open : BOOLEAN, answers : Seq(Answers)]]
  /\ pc \in [Threads -> {"idle", "shutdown", "close", "disconnected", "connect", "open",
                         "dial", "send", "receive"}]
  /\ got \in [Threads -> {Nothing, Error} \cup Answers]
  /\ made \in [Threads -> Nat]
  /\ overlapped \subseteq Threads /\ met \in BOOLEAN
  /\ left \subseteq Fds \cup {NoFd}

\* A request that met no other request gets the answer to itself or an error;
\* never, for instance, the late answer to a request that has timed out.
AnswerIsOwn ==
  \A t \in Threads \ overlapped : got[t].is \in Reactions => got[t].to = Request(t)

\* Between requests that do not meet, no connection is open but the one that the
\* next request will close and those that a refused connect has left: what is
\* lost is one descriptor for each of these, and not one more.
OneConnection ==
  Busy = {} /\ ~met =>
    \A fd \in Fds \ left : conns[fd].open => status = "connected" /\ fd = socket
=============================================================================
