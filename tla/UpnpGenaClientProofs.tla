------------------------- MODULE UpnpGenaClientProofs ------------------------
(***************************************************************************)
(* The control point's way to a device.  HttpClient: a request that met no *)
(* other is answered by the answer to itself, and between requests one     *)
(* connection is open beside those a refused connect has left, for every   *)
(* number of threads and descriptors.                                      *)
(* UpnpGenaClient, which uses it: after a successful Subscribe the device  *)
(* notifies and the notifications find their listener.  And the message    *)
(* loop of HTTP: however a connection cuts a message, it is put together   *)
(* again, for heads, contents and buffers of every size.                   *)
(***************************************************************************)
EXTENDS UpnpGenaClient, HttpTransfer, SequenceTheorems, TLAPS

-----------------------------------------------------------------------------
(* The client: its state and what a step writes.                           *)

\* Of two requests under way at a time, both know that they have met.
Meet == \A t, u \in Busy : t = u \/ {t, u} \subseteq overlapped

\* What is to be read from the connection of the client.
Pending == IF socket \in Fds THEN conns[socket].answers ELSE <<>>

\* A connection is new when a request gets it, and a request that is alone finds
\* only its own answer there.
PendingIsOwn ==
  \A t \in Threads \ overlapped :
    /\ pc[t] \in {"dial", "send"} => Pending = <<>>
    /\ pc[t] = "receive" => \A i \in 1..Len(Pending) : Pending[i].to = Request(t)

OnlyLeft == \A fd \in Fds \ left : ~conns[fd].open

\* While requests do not meet, the one connection there may be, but for those a
\* refused connect has left, is the client's, and the status tells whether there
\* is one when Shutdown asks.
Tidy ==
  ~met =>
    /\ \A t, u \in Busy : t = u
    /\ \A fd \in Fds \ left : conns[fd].open => fd = socket
    /\ \A t \in Threads :
         /\ pc[t] = "shutdown" => OnlyLeft \/ status = "connected"
         /\ pc[t] = "disconnected" => OnlyLeft
         /\ pc[t] \in {"connect", "open"} => OnlyLeft /\ status = "disconnect"
         /\ pc[t] \in {"send", "receive"} => status = "connected"
    /\ Busy = {} => OnlyLeft \/ status = "connected"

LEMMA TypeStarts == Init => TypeOK
<1> SUFFICES ASSUME Init PROVE TypeOK
  OBVIOUS
<1>1. Closed \in [open : BOOLEAN, answers : Seq(Answers)]
  BY EmptySeq DEF Closed
<1> QED BY <1>1 DEF Init, TypeOK

\* Send and Receive change the answers of one connection, and nothing is opened.
LEMMA SendWrites ==
  ASSUME TypeOK, NEW t \in Threads, NEW reaction \in Reactions, Send(t, reaction)
  PROVE  /\ socket \in Fds
         /\ conns' \in [Fds -> [open : BOOLEAN, answers : Seq(Answers)]]
         /\ \A fd \in Fds : conns'[fd].open = conns[fd].open
         /\ Pending' = IF reaction = "lost" THEN Pending
                       ELSE Append(Pending, [to |-> Request(t), is |-> reaction])
<1>1. socket \in Fds /\ socket' = socket
  BY DEF Send, IsOpen
<1>2. [to |-> Request(t), is |-> reaction] \in Answers
  BY DEF TypeOK, Answers, Request
<1>3. conns[socket].answers \in Seq(Answers) /\ Pending = conns[socket].answers
  BY <1>1 DEF TypeOK, Pending
<1>4. Append(Pending, [to |-> Request(t), is |-> reaction]) \in Seq(Answers)
  BY <1>2, <1>3, AppendProperties
<1>5. CASE reaction = "lost"
  BY <1>1, <1>5 DEF Send, TypeOK, Pending
<1>6. CASE reaction # "lost"
  <2>1. PICK s \in Seq(Answers) :
          s = Append(Pending, [to |-> Request(t), is |-> reaction])
    BY <1>4
  <2>2. conns' = [conns EXCEPT ![socket].answers = s]
    BY <1>3, <1>6, <2>1 DEF Send
  <2>3. conns' \in [Fds -> [open : BOOLEAN, answers : Seq(Answers)]]
    BY <1>1, <2>2 DEF TypeOK
  <2>4. \A fd \in Fds : conns'[fd].open = conns[fd].open
    BY <1>1, <2>2 DEF TypeOK
  <2>5. Pending' = s
    BY <1>1, <2>2 DEF TypeOK, Pending
  <2> QED BY <1>1, <1>6, <2>1, <2>3, <2>4, <2>5
<1> QED BY <1>5, <1>6

LEMMA ReceiveWrites ==
  ASSUME TypeOK, NEW t \in Threads, Receive(t)
  PROVE  /\ socket \in Fds
         /\ conns' \in [Fds -> [open : BOOLEAN, answers : Seq(Answers)]]
         /\ \A fd \in Fds : conns'[fd].open = conns[fd].open
         /\ got' = [got EXCEPT ![t] = Pending[1]]
         /\ 1 \in 1..Len(Pending) /\ Pending[1] \in Answers
<1>1. socket \in Fds /\ Pending = conns[socket].answers /\ Pending # <<>>
  BY DEF Receive, IsOpen, Pending
<1>2. Pending \in Seq(Answers)
  BY <1>1 DEF TypeOK
<1>3. 1 \in 1..Len(Pending) /\ Pending[1] \in Answers /\ Tail(Pending) \in Seq(Answers)
  <2>1. Len(Pending) \in Nat \ {0}
    BY <1>1, <1>2, EmptySeq
  <2>2. Tail(Pending) \in Seq(Answers)
    BY <1>1, <1>2, HeadTailProperties
  <2> QED BY <1>2, <2>1, <2>2, ElementOfSeq
<1>4. PICK s \in Seq(Answers) : s = Tail(Pending)
  BY <1>3
<1>5. conns' = [conns EXCEPT ![socket].answers = s]
  BY <1>1, <1>4 DEF Receive
<1>6. conns' \in [Fds -> [open : BOOLEAN, answers : Seq(Answers)]]
  BY <1>1, <1>5 DEF TypeOK
<1>7. \A fd \in Fds : conns'[fd].open = conns[fd].open
  BY <1>1, <1>5 DEF TypeOK
<1>8. got' = [got EXCEPT ![t] = Pending[1]]
  BY <1>1 DEF Receive, Return
<1> QED BY <1>1, <1>3, <1>6, <1>7, <1>8

LEMMA OpenWrites ==
  ASSUME TypeOK, NEW t \in Threads, Open(t)
  PROVE  \E fd \in Fds :
           /\ socket' = fd /\ Pending' = <<>>
           /\ conns' \in [Fds -> [open : BOOLEAN, answers : Seq(Answers)]]
           /\ \A k \in Fds \ {fd} : conns'[k] = conns[k]
<1>1. PICK fd \in Fds : /\ conns' = [conns EXCEPT ![fd] = [open |-> TRUE, answers |-> <<>>]]
                        /\ socket' = fd
  BY DEF Open
<1>2. [open |-> TRUE, answers |-> <<>>] \in [open : BOOLEAN, answers : Seq(Answers)]
  BY EmptySeq
<1>3. conns' \in [Fds -> [open : BOOLEAN, answers : Seq(Answers)]]
  BY <1>1, <1>2 DEF TypeOK
<1>4. Pending' = <<>>
  BY <1>1 DEF TypeOK, Pending
<1> QED BY <1>1, <1>3, <1>4 DEF TypeOK

LEMMA CloseWrites ==
  ASSUME TypeOK, NEW t \in Threads, Close(t)
  PROVE  /\ conns' \in [Fds -> [open : BOOLEAN, answers : Seq(Answers)]]
         /\ \A fd \in Fds : conns'[fd].open => conns[fd].open /\ fd # socket
         /\ socket' = socket
<1>1. conns' = [fd \in Fds |-> IF fd = socket THEN Closed ELSE conns[fd]]
  BY DEF Close
<1>2. Closed \in [open : BOOLEAN, answers : Seq(Answers)] /\ ~Closed.open
  BY EmptySeq DEF Closed
<1> QED BY <1>1, <1>2 DEF TypeOK, Close

\* A step of the client but those that write conns: the ends of a request.
Ending(t) ==
  ConnectRefused(t) \/ OpenFails(t) \/ DialFails(t) \/ SendFails(t) \/ ReceiveFails(t)

Moving(t) == Shutdown(t) \/ Disconnected(t) \/ Connect(t) \/ Dial(t)

LEMMA TypeStep ==
  ASSUME TypeOK, NEW t \in Threads, Step(t)
  PROVE  TypeOK'
<1> USE DEF TypeOK
<1>1. CASE Begin(t)
  BY <1>1 DEF Begin, Goto, Busy
<1>2. CASE Moving(t)
  BY <1>2 DEF Moving, Shutdown, Disconnected, Connect, Dial, Goto
<1>3. CASE Ending(t)
  BY <1>3 DEF Ending, ConnectRefused, OpenFails, DialFails, SendFails, ReceiveFails, Return, Goto
<1>4. CASE Close(t)
  <2>1. conns' \in [Fds -> [open : BOOLEAN, answers : Seq(Answers)]]
    BY <1>4, CloseWrites
  <2> QED BY <1>4, <2>1 DEF Close, Goto
<1>5. CASE Open(t)
  <2>1. conns' \in [Fds -> [open : BOOLEAN, answers : Seq(Answers)]] /\ socket' \in Fds
    BY <1>5, OpenWrites
  <2> QED BY <1>5, <2>1 DEF Open, Goto
<1>6. CASE \E reaction \in Reactions : Send(t, reaction)
  <2>1. PICK reaction \in Reactions : Send(t, reaction)
    BY <1>6
  <2>2. conns' \in [Fds -> [open : BOOLEAN, answers : Seq(Answers)]]
    BY <2>1, SendWrites
  <2> QED BY <2>1, <2>2 DEF Send, Goto
<1>7. CASE Receive(t)
  <2>1. /\ conns' \in [Fds -> [open : BOOLEAN, answers : Seq(Answers)]]
        /\ got' = [got EXCEPT ![t] = Pending[1]] /\ Pending[1] \in Answers
    BY <1>7, ReceiveWrites
  <2> QED BY <1>7, <2>1 DEF Receive, Return, Goto
<1> QED BY <1>1, <1>2, <1>3, <1>4, <1>5, <1>6, <1>7 DEF Step, Exchange, Moving, Ending

-----------------------------------------------------------------------------
(* Whose answer it is.                                                     *)

\* A step moves one thread, and only Begin changes who has met whom.
LEMMA OneMoves ==
  ASSUME TypeOK, NEW t \in Threads, Exchange(t) \/ \E reaction \in Reactions : Send(t, reaction)
  PROVE  /\ overlapped' = overlapped /\ made' = made
         /\ \A u \in Threads : u # t => pc'[u] = pc[u] /\ got'[u] = got[u]
         /\ pc[t] # "idle"
<1> USE DEF TypeOK
<1>1. CASE Moving(t)
  BY <1>1 DEF Moving, Shutdown, Disconnected, Connect, Dial, Goto
<1>2. CASE Ending(t)
  BY <1>2 DEF Ending, ConnectRefused, OpenFails, DialFails, SendFails, ReceiveFails, Return, Goto
<1>3. CASE Close(t) \/ Open(t) \/ \E reaction \in Reactions : Send(t, reaction)
  BY <1>3 DEF Close, Open, Send, Goto
<1>4. CASE Receive(t)
  BY <1>4 DEF Receive, Return, Goto
<1> QED BY <1>1, <1>2, <1>3, <1>4 DEF Exchange, Moving, Ending

AnswerInv == TypeOK /\ Meet /\ PendingIsOwn /\ AnswerIsOwn

LEMMA AnswerStarts == Init => AnswerInv
BY TypeStarts DEF Init, AnswerInv, Meet, PendingIsOwn, AnswerIsOwn, Busy, Nothing, Reactions

LEMMA AnswerBegin ==
  ASSUME AnswerInv, NEW t \in Threads, Begin(t)
  PROVE  Meet' /\ PendingIsOwn' /\ AnswerIsOwn'
<1> USE DEF AnswerInv, TypeOK
<1>1. /\ pc[t] = "idle" /\ pc' = [pc EXCEPT ![t] = "shutdown"] /\ Busy' = Busy \cup {t}
      /\ got' = [got EXCEPT ![t] = Nothing] /\ made' = [made EXCEPT ![t] = @ + 1]
      /\ overlapped' = IF Busy = {} THEN overlapped \ {t} ELSE overlapped \cup Busy \cup {t}
      /\ Pending' = Pending
  BY DEF Begin, Goto, Busy, Pending
<1>2. Meet'
  BY <1>1 DEF Meet
<1>3. ASSUME NEW u \in Threads, u \notin overlapped'
      PROVE  /\ u = t => pc'[u] = "shutdown" /\ got'[u] = Nothing
             /\ u # t => /\ u \notin overlapped /\ pc'[u] = pc[u] /\ got'[u] = got[u]
                         /\ Request(u)' = Request(u)
  BY <1>1, <1>3 DEF Request
<1>4. PendingIsOwn'
  BY <1>1, <1>3 DEF PendingIsOwn
<1>5. ASSUME NEW u \in Threads, u \notin overlapped', got'[u].is \in Reactions
      PROVE  got'[u].to = Request(u)'
  <2>1. CASE u = t
    BY <1>3, <1>5, <2>1 DEF Nothing, Reactions
  <2>2. CASE u # t
    BY <1>3, <1>5, <2>2 DEF AnswerIsOwn
  <2> QED BY <2>1, <2>2
<1>6. AnswerIsOwn'
  BY <1>5 DEF AnswerIsOwn
<1> QED BY <1>2, <1>4, <1>6

\* What is left to show of another step, when the thread met nobody.
LEMMA AnswerAlone ==
  ASSUME AnswerInv, NEW t \in Threads,
         Exchange(t) \/ \E reaction \in Reactions : Send(t, reaction),
         t \notin overlapped =>
           /\ pc'[t] \in {"dial", "send"} => Pending' = <<>>
           /\ pc'[t] = "receive" => \A i \in 1..Len(Pending') : Pending'[i].to = Request(t)
           /\ got'[t].is \in Reactions => got'[t].to = Request(t)
  PROVE  Meet' /\ PendingIsOwn' /\ AnswerIsOwn'
<1>1. /\ overlapped' = overlapped /\ made' = made /\ pc[t] # "idle"
      /\ \A u \in Threads : u # t => pc'[u] = pc[u] /\ got'[u] = got[u]
  BY OneMoves DEF AnswerInv
<1>2. t \in Busy /\ Busy' \subseteq Busy /\ \A u \in Threads : Request(u)' = Request(u)
  BY <1>1 DEF Busy, Request
<1>3. Meet'
  BY <1>1, <1>2 DEF AnswerInv, Meet
<1>4. ASSUME NEW u \in Threads \ overlapped, u # t PROVE pc'[u] = "idle"
  BY <1>1, <1>2, <1>4 DEF AnswerInv, Meet, Busy
<1>5. PendingIsOwn'
  BY <1>1, <1>2, <1>4 DEF PendingIsOwn
<1>6. AnswerIsOwn'
  BY <1>1, <1>2 DEF AnswerInv, AnswerIsOwn
<1> QED BY <1>3, <1>5, <1>6

LEMMA AnswerStep ==
  ASSUME AnswerInv, NEW t \in Threads, Step(t)
  PROVE  AnswerInv'
<1> DEFINE Alone ==
      t \notin overlapped =>
        /\ pc'[t] \in {"dial", "send"} => Pending' = <<>>
        /\ pc'[t] = "receive" => \A i \in 1..Len(Pending') : Pending'[i].to = Request(t)
        /\ got'[t].is \in Reactions => got'[t].to = Request(t)
<1>1. TypeOK /\ TypeOK'
  BY TypeStep DEF AnswerInv
<1>2. t \notin overlapped /\ got[t].is \in Reactions => got[t].to = Request(t)
  BY DEF AnswerInv, AnswerIsOwn
<1>3. CASE Begin(t)
  BY <1>1, <1>3, AnswerBegin DEF AnswerInv
<1>4. CASE Shutdown(t) \/ Close(t) \/ Disconnected(t) \/ Connect(t)
  <2>1. pc'[t] \in {"close", "connect", "disconnected", "open"} /\ got' = got
    BY <1>1, <1>4 DEF Shutdown, Close, Disconnected, Connect, Goto, TypeOK
  <2>2. Alone
    BY <1>2, <2>1
  <2> QED BY <1>1, <1>4, <2>2, AnswerAlone DEF AnswerInv, Exchange
<1>5. CASE Open(t)
  <2>1. pc'[t] = "dial" /\ got' = got
    BY <1>1, <1>5 DEF Open, Goto, TypeOK
  <2>2. Pending' = <<>>
    BY <1>1, <1>5, OpenWrites
  <2>3. Alone
    BY <1>2, <2>1, <2>2
  <2> QED BY <1>1, <1>5, <2>3, AnswerAlone DEF AnswerInv, Exchange
<1>6. CASE Dial(t)
  <2>1. pc[t] = "dial" /\ pc'[t] = "send" /\ got' = got /\ Pending' = Pending
    BY <1>1, <1>6 DEF Dial, Goto, TypeOK, Pending
  <2>2. Alone
    BY <1>2, <2>1 DEF AnswerInv, PendingIsOwn
  <2> QED BY <1>1, <1>6, <2>2, AnswerAlone DEF AnswerInv, Exchange
<1>7. CASE \E reaction \in Reactions : Send(t, reaction)
  <2>1. PICK reaction \in Reactions : Send(t, reaction)
    BY <1>7
  <2>2. pc[t] = "send" /\ pc'[t] = "receive" /\ got' = got
    BY <1>1, <2>1 DEF Send, Goto, TypeOK
  <2>3. Pending' = IF reaction = "lost" THEN Pending
                   ELSE Append(Pending, [to |-> Request(t), is |-> reaction])
    BY <1>1, <2>1, SendWrites
  <2>4. t \notin overlapped => \A i \in 1..Len(Pending') : Pending'[i].to = Request(t)
    <3>1. SUFFICES ASSUME t \notin overlapped
                   PROVE  \A i \in 1..Len(Pending') : Pending'[i].to = Request(t)
      OBVIOUS
    <3>2. Pending = <<>>
      BY <2>2, <3>1 DEF AnswerInv, PendingIsOwn
    <3>3. Pending' = <<>> \/ Pending' = <<[to |-> Request(t), is |-> reaction]>>
      BY <2>3, <3>2
    <3> QED BY <3>3
  <2>5. Alone
    BY <1>2, <2>2, <2>4
  <2> QED BY <1>1, <1>7, <2>5, AnswerAlone DEF AnswerInv
<1>8. CASE Receive(t)
  <2>1. pc[t] = "receive" /\ pc'[t] = "idle"
    BY <1>1, <1>8 DEF Receive, Return, Goto, TypeOK
  <2>2. got' = [got EXCEPT ![t] = Pending[1]] /\ 1 \in 1..Len(Pending)
    BY <1>1, <1>8, ReceiveWrites
  <2>3. got'[t] = Pending[1]
    BY <1>1, <2>2 DEF TypeOK
  <2>4. Alone
    BY <2>1, <2>2, <2>3 DEF AnswerInv, PendingIsOwn
  <2> QED BY <1>1, <1>8, <2>4, AnswerAlone DEF AnswerInv, Exchange
<1>9. CASE Ending(t)
  <2>1. pc'[t] = "idle" /\ got'[t] = Error
    BY <1>1, <1>9 DEF Ending, ConnectRefused, OpenFails, DialFails, SendFails, ReceiveFails,
                      Return, Goto, TypeOK
  <2>2. Alone
    BY <2>1 DEF Error, Reactions
  <2> QED BY <1>1, <1>9, <2>2, AnswerAlone DEF AnswerInv, Exchange, Ending
<1> QED BY <1>3, <1>4, <1>5, <1>6, <1>7, <1>8, <1>9 DEF Step, Exchange, Ending

LEMMA AnswerRests == AnswerInv /\ UNCHANGED vars => AnswerInv'
BY DEF AnswerInv, TypeOK, Meet, PendingIsOwn, AnswerIsOwn, Pending, Busy, Request, vars

LEMMA AnswerNext ==
  AnswerInv /\ [\E t \in Threads : Step(t)]_vars => AnswerInv'
BY AnswerStep, AnswerRests

-----------------------------------------------------------------------------
(* One connection.                                                         *)

LEMMA TidyStarts == Init => Tidy
BY DEF Init, Tidy, OnlyLeft, Busy, Closed

\* Once requests have met, that stays known.
LEMMA MetStays ==
  ASSUME NEW t \in Threads, Step(t), met
  PROVE  met'
BY DEF Step, Exchange, Begin, Shutdown, Close, Disconnected, ConnectRefused, Connect, Open,
       OpenFails, Dial, DialFails, Send, SendFails, Receive, ReceiveFails

\* A step of the one request under way, by what it leaves behind.
LEMMA TidyAlone ==
  ASSUME TypeOK, Tidy, ~met', ~met, NEW t \in Threads,
         Exchange(t) \/ \E reaction \in Reactions : Send(t, reaction),
         \A fd \in Fds \ left' : conns'[fd].open => fd = socket',
         pc'[t] \in {"shutdown", "idle"} => OnlyLeft' \/ status' = "connected",
         pc'[t] = "disconnected" => OnlyLeft',
         pc'[t] \in {"connect", "open"} => OnlyLeft' /\ status' = "disconnect",
         pc'[t] \in {"send", "receive"} => status' = "connected"
  PROVE  Tidy'
<1>1. pc[t] # "idle" /\ \A u \in Threads : u # t => pc'[u] = pc[u]
  BY OneMoves
<1>2. \A u \in Threads : u # t => pc[u] = "idle"
  BY <1>1 DEF Tidy, Busy
<1>3. \A u \in Threads : u # t => pc'[u] = "idle"
  BY <1>1, <1>2
<1>4. Busy' \subseteq {t} /\ (Busy' = {} => pc'[t] = "idle")
  BY <1>3 DEF Busy
<1>5. \A u, v \in Busy' : u = v
  BY <1>4
<1>6. Busy' = {} => OnlyLeft' \/ status' = "connected"
  BY <1>4
<1>7. ASSUME NEW u \in Threads
      PROVE  /\ pc'[u] = "shutdown" => OnlyLeft' \/ status' = "connected"
             /\ pc'[u] = "disconnected" => OnlyLeft'
             /\ pc'[u] \in {"connect", "open"} => OnlyLeft' /\ status' = "disconnect"
             /\ pc'[u] \in {"send", "receive"} => status' = "connected"
  BY <1>3
<1> QED BY <1>5, <1>6, <1>7 DEF Tidy

LEMMA TidyStep ==
  ASSUME TypeOK, Tidy, NEW t \in Threads, Step(t)
  PROVE  Tidy'
<1> SUFFICES ASSUME ~met' PROVE Tidy'
  BY DEF Tidy
<1>1. ~met
  BY MetStays
<1>2. /\ \A fd \in Fds \ left : conns[fd].open => fd = socket
      /\ pc[t] = "shutdown" => OnlyLeft \/ status = "connected"
      /\ pc[t] = "disconnected" => OnlyLeft
      /\ pc[t] \in {"connect", "open"} => OnlyLeft /\ status = "disconnect"
      /\ pc[t] \in {"send", "receive"} => status = "connected"
      /\ Busy = {} => OnlyLeft \/ status = "connected"
  BY <1>1 DEF Tidy
<1>3. CASE Begin(t)
  <2>1. /\ Busy = {} /\ Busy' = {t} /\ pc'[t] = "shutdown"
        /\ status' = status /\ socket' = socket /\ conns' = conns /\ left' = left
    BY <1>3 DEF Begin, Goto, Busy, TypeOK
  <2>2. OnlyLeft' = OnlyLeft
    BY <2>1 DEF OnlyLeft
  <2>3. \A u \in Threads : u # t => pc'[u] = "idle"
    BY <2>1 DEF Busy
  <2> QED BY <1>2, <2>1, <2>2, <2>3 DEF Tidy
<1>4. CASE Shutdown(t)
  <2>1. /\ pc[t] = "shutdown" /\ pc'[t] = IF status = "disconnect" THEN "connect" ELSE "close"
        /\ status' = status /\ socket' = socket /\ conns' = conns /\ left' = left
    BY <1>4 DEF Shutdown, Goto, TypeOK
  <2>2. OnlyLeft' = OnlyLeft
    BY <2>1 DEF OnlyLeft
  <2> QED BY <1>1, <1>2, <1>4, <2>1, <2>2, TidyAlone DEF Exchange
<1>5. CASE Close(t)
  <2>1. pc'[t] = "disconnected" /\ left' = left
    BY <1>5 DEF Close, Goto, TypeOK
  <2>2. OnlyLeft'
    BY <1>2, <1>5, <2>1, CloseWrites DEF OnlyLeft
  <2>3. \A fd \in Fds \ left' : conns'[fd].open => fd = socket'
    BY <2>2 DEF OnlyLeft
  <2> QED BY <1>1, <1>5, <2>1, <2>2, <2>3, TidyAlone DEF Exchange
<1>6. CASE Disconnected(t) \/ Connect(t)
  <2>1. /\ pc[t] \in {"disconnected", "connect"} /\ pc'[t] \in {"connect", "open"}
        /\ status' = "disconnect" /\ socket' = socket /\ conns' = conns /\ left' = left
    BY <1>6 DEF Disconnected, Connect, Goto, TypeOK
  <2>2. OnlyLeft'
    BY <1>2, <2>1 DEF OnlyLeft
  <2> QED BY <1>1, <1>2, <1>6, <2>1, <2>2, TidyAlone DEF Exchange
<1>7. CASE ConnectRefused(t)
  BY <1>2, <1>7 DEF ConnectRefused, Return, Goto
<1>8. CASE Open(t)
  <2>1. pc[t] = "open" /\ pc'[t] = "dial" /\ left' = left
    BY <1>8 DEF Open, Goto, TypeOK
  <2>2. \A fd \in Fds \ left' : conns'[fd].open => fd = socket'
    BY <1>2, <1>8, <2>1, OpenWrites DEF OnlyLeft
  <2> QED BY <1>1, <1>8, <2>1, <2>2, TidyAlone DEF Exchange
<1>9. CASE OpenFails(t)
  <2>1. pc[t] = "open" /\ pc'[t] = "idle" /\ socket' = socket /\ conns' = conns /\ left' = left
    BY <1>9 DEF OpenFails, Return, Goto, TypeOK
  <2>2. OnlyLeft'
    BY <1>2, <2>1 DEF OnlyLeft
  <2> QED BY <1>1, <1>2, <1>9, <2>1, <2>2, TidyAlone DEF Exchange
<1>10. CASE Dial(t)
  <2>1. pc'[t] = "send" /\ status' = "connected" /\ socket' = socket /\ conns' = conns /\ left' = left
    BY <1>10 DEF Dial, Goto, TypeOK
  <2> QED BY <1>1, <1>2, <1>10, <2>1, TidyAlone DEF Exchange
<1>11. CASE DialFails(t)
  <2>1. /\ pc'[t] = "idle" /\ socket' = socket /\ conns' = conns
        /\ left' = left \cup {socket}
    BY <1>11 DEF DialFails, Return, Goto, TypeOK
  <2>2. OnlyLeft'
    BY <1>2, <2>1 DEF OnlyLeft
  <2>3. \A fd \in Fds \ left' : conns'[fd].open => fd = socket'
    BY <1>2, <2>1
  <2> QED BY <1>1, <1>11, <2>1, <2>2, <2>3, TidyAlone DEF Exchange
<1>12. CASE \E reaction \in Reactions : Send(t, reaction)
  <2>1. PICK reaction \in Reactions : Send(t, reaction)
    BY <1>12
  <2>2. pc'[t] = "receive" /\ status' = "connected" /\ socket' = socket /\ left' = left
    BY <2>1 DEF Send, Goto, TypeOK
  <2>3. \A fd \in Fds \ left' : conns'[fd].open => fd = socket'
    BY <1>2, <2>1, <2>2, SendWrites
  <2> QED BY <1>1, <1>12, <2>2, <2>3, TidyAlone
<1>13. CASE Receive(t)
  <2>1. pc'[t] = "idle" /\ status' = "connected" /\ socket' = socket /\ left' = left
    BY <1>13 DEF Receive, Return, Goto, TypeOK
  <2>2. \A fd \in Fds \ left' : conns'[fd].open => fd = socket'
    BY <1>2, <1>13, <2>1, ReceiveWrites
  <2> QED BY <1>1, <1>13, <2>1, <2>2, TidyAlone DEF Exchange
<1>14. CASE SendFails(t) \/ ReceiveFails(t)
  <2>1. /\ pc[t] \in {"send", "receive"} /\ pc'[t] = "idle"
        /\ status' = status /\ socket' = socket /\ conns' = conns /\ left' = left
    BY <1>14 DEF SendFails, ReceiveFails, Return, Goto, TypeOK
  <2> QED BY <1>1, <1>2, <1>14, <2>1, TidyAlone DEF Exchange
<1> QED BY <1>3, <1>4, <1>5, <1>6, <1>7, <1>8, <1>9, <1>10, <1>11, <1>12, <1>13, <1>14
        DEF Step, Exchange

LEMMA TidyRests == Tidy /\ UNCHANGED vars => Tidy'
BY DEF Tidy, OnlyLeft, Busy, vars

LEMMA TidyNext ==
  TypeOK /\ Tidy /\ [\E t \in Threads : Step(t)]_vars => Tidy'
BY TidyStep, TidyRests

LEMMA TidyIsOne == Tidy => OneConnection
BY DEF Tidy, OneConnection, OnlyLeft, Busy

-----------------------------------------------------------------------------
(* The theorems of the client: for every use of it, and so for the use that *)
(* UpnpGenaClient makes of it.                                             *)

LEMMA ClientIsTyped == Spec => []TypeOK
<1>1. AnswerInv => TypeOK
  BY DEF AnswerInv
<1> QED BY <1>1, AnswerStarts, AnswerNext, PTL DEF Spec

\* A request that met no other is answered by its own answer, if at all: never
\* by the late answer to a request that has timed out, nor by what was left in
\* a connection (HttpClient.c:97-198, TcpClient.c:206-274).
THEOREM AnswersAreOwn == Spec => []AnswerIsOwn
<1>1. AnswerInv => AnswerIsOwn
  BY DEF AnswerInv
<1> QED BY <1>1, AnswerStarts, AnswerNext, PTL DEF Spec

\* Requests that do not meet leave one connection open, which the client knows
\* of and the next request closes, and one more for each connect that was refused
\* at once (HttpClient.c:207-229, TcpClient.c:92-169).
THEOREM OneConnectionAtMost == Spec => []OneConnection
<1>1. Spec => []Tidy
  BY ClientIsTyped, TidyStarts, TidyNext, PTL DEF Spec
<1> QED BY <1>1, TidyIsOne, PTL

-----------------------------------------------------------------------------
(* The control point: what it does with the client are the client's steps. *)

LEMMA AppBegins == ASSUME Begin(App) PROVE \E t \in Threads : Step(t)
BY TwoThreads DEF Step

LEMMA GenaIsClientStep ==
  GenaNext => (\E t \in Threads : Step(t)) \/ UNCHANGED vars
<1> SUFFICES ASSUME GenaNext PROVE (\E t \in Threads : Step(t)) \/ UNCHANGED vars
  OBVIOUS
<1>1. App \in Threads /\ Worker \in Threads
  BY TwoThreads
<1>2. CASE Subscribe \/ Unsubscribe
  BY <1>2, AppBegins DEF Subscribe, Unsubscribe
<1>3. CASE Exchanging(App) \/ \E reaction \in Reactions : SendRequest(reaction)
  BY <1>1, <1>3 DEF Exchanging, SendRequest, Step
<1>4. CASE OtherRequest \/ Exchanging(Worker)
  BY <1>1, <1>4 DEF OtherRequest, Exchanging, Step
<1>5. CASE \/ \E op \in {"subscribe", "unsubscribe"}, s \in Services : Call(op, s)
           \/ Lock \/ RefuseStopped \/ RefuseSubscribed \/ RefuseUnknown
           \/ SubscribeEnds \/ UnsubscribeEnds
  BY <1>5 DEF Call, Lock, RefuseStopped, RefuseSubscribed, RefuseUnknown, Refuse,
              SubscribeEnds, UnsubscribeEnds
<1>6. CASE \/ \E s \in Services : Notification(s)
           \/ NotifyLock \/ NotifyStep \/ ServingToggles
  BY <1>6 DEF Notification, NotifyLock, NotifyStep, NotifyUnknown, NotifyCall, NotifyReenter,
              NotifyEnd, ConnStep, ServingToggles
<1> QED BY <1>2, <1>3, <1>4, <1>5, <1>6 DEF GenaNext, AppStep

\* The control point uses the client as the specification of the client allows,
\* so what is proved of the client holds of it here.
LEMMA GenaUsesTheClient == GenaSpec => Spec
<1>1. GenaInit => Init
  BY DEF GenaInit
<1>2. [GenaNext]_allVars => [\E t \in Threads : Step(t)]_vars
  BY GenaIsClientStep DEF allVars, vars
<1> QED BY <1>1, <1>2, PTL DEF GenaSpec, Spec

-----------------------------------------------------------------------------
(* After Subscribe.                                                        *)

GenaKinds ==
  /\ mutex \in {"free", "app", "conn"}
  /\ map \subseteq Services /\ uri \subseteq Services /\ device \subseteq Services
  /\ deaf \subseteq Services /\ serving \in BOOLEAN
  /\ call \in [op : {"none", "subscribe", "unsubscribe"}, service : Services]
  /\ app \in {"idle", "wait", "check", "exchange"}
  /\ result \in {"none", "OK", "failed", "E_STOPPED", "E_ITEM_EXIST", "E_NOT_FOUND"}
  /\ conn \in {"idle", "wait", "lookup", "listener", "reenter"} /\ about \in Services

\* Who has the mutex; and a request of the application is under way only while
\* the application has it, with the subscription in the map.
Holding ==
  /\ app \in {"check", "exchange"} <=> mutex = "app"
  /\ conn \in {"lookup", "listener", "reenter"} <=> mutex = "conn"
  /\ pc[App] # "idle" => app = "exchange"
  /\ app = "exchange" => call.op \in {"subscribe", "unsubscribe"}
  /\ app = "exchange" /\ call.op = "subscribe" => call.service \in map

Heard == call.service \in device /\ call.service \notin deaf

\* When the answer that the device has accepted the subscription is on its way,
\* or has come, the device has it and no notification was lost since.
SubscriptionHeard ==
  App \notin overlapped /\ app = "exchange" /\ call.op = "subscribe" =>
    /\ pc[App] = "receive" =>
         \A i \in 1..Len(Pending) : Pending[i].is = "accepted" => Heard
    /\ pc[App] = "idle" /\ Accepted => Heard

GenaInv == GenaKinds /\ Holding /\ SubscriptionHeard /\ SubscribedIsHeard

LEMMA GenaStarts == GenaInit => GenaInv
<1> SUFFICES ASSUME GenaInit PROVE GenaInv
  OBVIOUS
<1>1. NoCall.service \in Services /\ NoCall.op = "none"
  BY SomeService DEF NoCall
<1>2. GenaKinds
  BY <1>1 DEF GenaInit, GenaKinds, NoCall
<1> QED BY <1>1, <1>2, TwoThreads DEF GenaInit, Init, GenaInv, Holding, SubscriptionHeard,
                                      SubscribedIsHeard

\* The steps that leave the client alone.
LEMMA QuietGenaStep ==
  ASSUME GenaInv, UNCHANGED vars,
         \/ \E op \in {"subscribe", "unsubscribe"}, s \in Services : Call(op, s)
         \/ Lock \/ RefuseStopped \/ RefuseSubscribed \/ RefuseUnknown
         \/ SubscribeEnds \/ UnsubscribeEnds
         \/ \E s \in Services : Notification(s)
         \/ NotifyLock \/ NotifyStep \/ ServingToggles
  PROVE  GenaInv'
<1>1. Pending' = Pending /\ Accepted' = Accepted /\ pc' = pc /\ overlapped' = overlapped
  BY DEF vars, Pending, Accepted
<1>2. /\ GenaKinds /\ Holding /\ SubscriptionHeard /\ SubscribedIsHeard
  BY DEF GenaInv
<1>3. CASE \E op \in {"subscribe", "unsubscribe"}, s \in Services : Call(op, s)
  <2>1. PICK op \in {"subscribe", "unsubscribe"}, s \in Services : Call(op, s)
    BY <1>3
  <2>2. GenaKinds'
    BY <1>2, <2>1 DEF Call, GenaKinds
  <2>3. Holding' /\ app' # "exchange" /\ result' # "OK"
    BY <1>1, <1>2, <2>1 DEF Call, Holding
  <2> QED BY <2>2, <2>3 DEF GenaInv, SubscriptionHeard, SubscribedIsHeard
<1>4. CASE Lock \/ RefuseStopped \/ RefuseSubscribed \/ RefuseUnknown \/ UnsubscribeEnds
  <2>1. /\ GenaKinds' /\ call' = call /\ app' # "exchange"
        /\ call'.op = "unsubscribe" \/ app' # "idle" \/ result' # "OK"
    BY <1>2, <1>4 DEF Lock, RefuseStopped, RefuseSubscribed, RefuseUnknown, Refuse,
                      UnsubscribeEnds, GenaKinds
  <2>2. Holding'
    BY <1>1, <1>2, <1>4 DEF Lock, RefuseStopped, RefuseSubscribed, RefuseUnknown, Refuse,
                      UnsubscribeEnds, Holding
  <2> QED BY <2>1, <2>2 DEF GenaInv, SubscriptionHeard, SubscribedIsHeard
<1>5. CASE SubscribeEnds
  <2>1. GenaKinds' /\ app' = "idle"
    BY <1>2, <1>5 DEF SubscribeEnds, GenaKinds
  <2>2. Holding'
    BY <1>1, <1>2, <1>5 DEF SubscribeEnds, Holding
  <2>3. CASE Accepted
    <3>1. /\ call' = call /\ device' = device /\ deaf' = deaf /\ map' = map
          /\ app = "exchange" /\ pc[App] = "idle" /\ call.op = "subscribe"
      BY <1>5, <2>3 DEF SubscribeEnds
    <3>2. App \notin overlapped => Heard /\ call.service \in map
      BY <1>2, <2>3, <3>1 DEF SubscriptionHeard, Holding
    <3>3. SubscribedIsHeard'
      BY <1>1, <3>1, <3>2 DEF Heard, SubscribedIsHeard
    <3> QED BY <2>1, <2>2, <3>3 DEF GenaInv, SubscriptionHeard
  <2>4. CASE ~Accepted
    BY <1>5, <2>1, <2>2, <2>4 DEF SubscribeEnds, GenaInv, SubscriptionHeard, SubscribedIsHeard
  <2> QED BY <2>3, <2>4
<1>6. CASE \/ \E s \in Services : Notification(s)
           \/ NotifyLock \/ NotifyCall \/ NotifyReenter \/ NotifyEnd \/ ServingToggles
  <2>1. /\ app' = app /\ call' = call /\ result' = result /\ device' = device
        /\ map' = map /\ deaf' = deaf
    BY <1>6 DEF Notification, NotifyLock, NotifyCall, NotifyReenter, NotifyEnd, ConnStep,
                ServingToggles
  <2>2. GenaKinds'
    <3>1. uri' = uri /\ mutex' \in {mutex, "conn", "free"}
          /\ conn' \in {conn, "idle", "wait", "lookup", "listener", "reenter"}
      BY <1>6 DEF Notification, NotifyLock, NotifyCall, NotifyReenter, NotifyEnd, ConnStep,
                  ServingToggles
    <3>2. about' \in {about} \cup Services
      BY <1>6 DEF Notification, NotifyLock, NotifyCall, NotifyReenter, NotifyEnd, ConnStep,
                  ServingToggles
    <3>3. serving' = serving \/ serving' = ~serving
      BY <1>6 DEF Notification, NotifyLock, NotifyCall, NotifyReenter, NotifyEnd, ConnStep,
                  ServingToggles
    <3>4. serving' \in BOOLEAN
      BY <1>2, <3>3 DEF GenaKinds
    <3> QED BY <1>2, <2>1, <3>1, <3>2, <3>4 DEF GenaKinds
  <2>3. \/ mutex' = mutex /\ (conn' \in {"lookup", "listener", "reenter"}
                              <=> conn \in {"lookup", "listener", "reenter"})
        \/ mutex = "free" /\ mutex' = "conn" /\ conn' = "lookup"
        \/ conn = "listener" /\ conn' = "idle" /\ mutex' = "free"
    BY <1>6 DEF Notification, NotifyLock, NotifyCall, NotifyReenter, NotifyEnd, ConnStep,
                ServingToggles
  <2>4. Holding'
    BY <1>1, <1>2, <2>1, <2>3 DEF Holding
  <2>5. SubscriptionHeard' /\ SubscribedIsHeard'
    BY <1>1, <1>2, <2>1 DEF SubscriptionHeard, SubscribedIsHeard, Heard
  <2> QED BY <2>2, <2>4, <2>5 DEF GenaInv
<1>7. CASE NotifyUnknown
  <2>1. /\ app' = app /\ call' = call /\ result' = result /\ device' = device /\ map' = map
        /\ conn = "lookup" /\ conn' = "idle" /\ mutex' = "free"
        /\ about \notin map /\ deaf' \in {deaf, deaf \cup {about}}
    BY <1>7 DEF NotifyUnknown, ConnStep
  <2>2. mutex = "conn" /\ app \notin {"check", "exchange"}
    BY <1>2, <2>1 DEF Holding
  <2>3. GenaKinds'
    BY <1>2, <1>7, <2>1 DEF NotifyUnknown, ConnStep, GenaKinds
  <2>4. Holding'
    BY <1>1, <1>2, <2>1, <2>2 DEF Holding
  <2>5. SubscriptionHeard'
    BY <2>1, <2>2 DEF SubscriptionHeard
  <2>6. SubscribedIsHeard'
    BY <1>1, <1>2, <2>1 DEF SubscribedIsHeard
  <2> QED BY <2>3, <2>4, <2>5, <2>6 DEF GenaInv
<1> QED BY <1>3, <1>4, <1>5, <1>6, <1>7 DEF NotifyStep

\* A request of the application begins: nothing is on its way yet.
LEMMA AppBeginsStep ==
  ASSUME TypeOK, GenaInv, Subscribe \/ Unsubscribe
  PROVE  GenaInv'
<1>1. /\ pc[App] = "idle" /\ pc' = [pc EXCEPT ![App] = "shutdown"]
      /\ app = "check" /\ app' = "exchange" /\ map \subseteq map'
      /\ UNCHANGED <<mutex, uri, serving, call, result, device, conn, about, deaf>>
      /\ map' \subseteq map \cup {call.service}
      /\ call.op = "unsubscribe" \/ (call.op = "subscribe" /\ call.service \in map')
  BY DEF Subscribe, Unsubscribe, Begin, Goto
<1>2. pc'[App] = "shutdown"
  BY <1>1, TwoThreads DEF TypeOK
<1>3. GenaKinds'
  BY <1>1 DEF GenaInv, GenaKinds
<1>4. Holding'
  BY <1>1 DEF GenaInv, Holding
<1> QED BY <1>1, <1>2, <1>3, <1>4 DEF GenaInv, SubscriptionHeard, SubscribedIsHeard

LEMMA AppExchanges ==
  ASSUME TypeOK, GenaInv, Exchanging(App)
  PROVE  GenaInv'
<1>1. App \in Threads /\ Exchange(App) /\ UNCHANGED genaVars
  BY TwoThreads DEF Exchanging
<1>2. overlapped' = overlapped /\ pc[App] # "idle"
  BY <1>1, OneMoves
<1>3. app = "exchange" /\ app' = "exchange"
  BY <1>1, <1>2 DEF GenaInv, Holding, genaVars
<1>4. GenaKinds' /\ Holding'
  BY <1>1, <1>3 DEF GenaInv, GenaKinds, Holding, genaVars
<1>5. pc'[App] # "receive"
  BY <1>1 DEF TypeOK, Exchange, Shutdown, Close, Disconnected, ConnectRefused, Connect, Open,
              OpenFails, Dial, DialFails, SendFails, Receive, ReceiveFails, Return, Goto
<1>6. CASE Receive(App)
  <2>1. pc[App] = "receive"
    BY <1>6 DEF Receive, Return, Goto
  <2>2. got'[App] = Pending[1] /\ 1 \in 1..Len(Pending)
    BY <1>1, <1>6, ReceiveWrites DEF TypeOK
  <2>3. SubscriptionHeard'
    BY <1>1, <1>2, <1>3, <1>5, <2>1, <2>2
       DEF GenaInv, SubscriptionHeard, Accepted, Heard, genaVars
  <2> QED BY <1>3, <1>4, <2>3 DEF GenaInv, SubscribedIsHeard
<1>7. CASE Ending(App)
  <2>1. got'[App] = Error
    BY <1>1, <1>7 DEF Ending, ConnectRefused, OpenFails, DialFails, SendFails, ReceiveFails,
                      Return, Goto, TypeOK
  <2>2. ~Accepted'
    BY <2>1 DEF Accepted, Error
  <2> QED BY <1>3, <1>4, <1>5, <2>2 DEF GenaInv, SubscriptionHeard, SubscribedIsHeard
<1>8. CASE Moving(App) \/ Close(App) \/ Open(App)
  <2>1. pc'[App] # "idle"
    BY <1>1, <1>8 DEF Moving, Shutdown, Disconnected, Connect, Dial, Close, Open, Goto, TypeOK
  <2> QED BY <1>3, <1>4, <1>5, <2>1 DEF GenaInv, SubscriptionHeard, SubscribedIsHeard
<1> QED BY <1>1, <1>6, <1>7, <1>8 DEF Exchange, Moving, Ending

\* The device gets the request: from here on the answer is on its way.
LEMMA AppSends ==
  ASSUME AnswerInv, GenaInv, NEW reaction \in Reactions, SendRequest(reaction)
  PROVE  GenaInv'
<1> DEFINE done == IF call.op = "subscribe" THEN device \cup {call.service}
                                            ELSE device \ {call.service}
<1>1. App \in Threads /\ Send(App, reaction) /\ TypeOK
  BY TwoThreads DEF SendRequest, AnswerInv
<1>2. /\ app = "exchange" /\ UNCHANGED <<mutex, map, uri, serving, call, app, result, conn, about>>
      /\ deaf' = IF call.op = "subscribe" /\ reaction = "accepted"
                 THEN deaf \ {call.service} ELSE deaf
  BY DEF SendRequest
<1>3. device' \in (CASE reaction = "accepted" -> {done}
                     [] reaction = "refused" -> {device}
                     [] OTHER -> {device, done})
  BY DEF SendRequest
<1>4. reaction = "accepted" => device' = done
  BY <1>3
<1>5. device' \in {device, done}
  <2>1. CASE reaction = "accepted"
    BY <1>4, <2>1
  <2>2. CASE reaction = "refused"
    BY <1>3, <2>2
  <2>3. CASE reaction # "accepted" /\ reaction # "refused"
    BY <1>3, <2>3
  <2> QED BY <2>1, <2>2, <2>3
<1>6. pc[App] = "send" /\ pc'[App] = "receive" /\ overlapped' = overlapped
  BY <1>1 DEF Send, Goto, TypeOK
<1>7. GenaKinds'
  BY <1>2, <1>5 DEF GenaInv, GenaKinds
<1>8. Holding'
  BY <1>2 DEF GenaInv, Holding
<1>9. SubscriptionHeard'
  <2>1. SUFFICES ASSUME App \notin overlapped, call.op = "subscribe",
                        NEW i \in 1..Len(Pending'), Pending'[i].is = "accepted"
                 PROVE  Heard'
    BY <1>2, <1>6 DEF SubscriptionHeard
  <2>2. Pending = <<>>
    BY <1>1, <1>6, <2>1 DEF AnswerInv, PendingIsOwn
  <2>3. Pending' = <<>> \/ Pending' = <<[to |-> Request(App), is |-> reaction]>>
    BY <1>1, <2>2, SendWrites
  <2>4. reaction = "accepted"
    BY <2>1, <2>3
  <2> QED BY <1>2, <1>4, <2>1, <2>4 DEF Heard
<1> QED BY <1>2, <1>7, <1>8, <1>9 DEF GenaInv, SubscribedIsHeard

\* The other thread's requests: what the application found, it found alone.
LEMMA OthersRequest ==
  ASSUME AnswerInv, GenaInv, OtherRequest \/ Exchanging(Worker)
  PROVE  GenaInv'
<1>1. App \in Threads /\ Worker \in Threads /\ App # Worker /\ TypeOK /\ UNCHANGED genaVars
  BY TwoThreads DEF AnswerInv, OtherRequest, Exchanging
<1>2. pc'[App] = pc[App] /\ Accepted' = Accepted
      /\ (App \notin overlapped' => App \notin overlapped /\ pc[App] # "receive")
  <2>1. CASE Begin(Worker)
    BY <1>1, <2>1 DEF Begin, Goto, Busy, TypeOK, Accepted
  <2>2. CASE Exchange(Worker) \/ \E reaction \in Reactions : Send(Worker, reaction)
    <3>1. /\ overlapped' = overlapped /\ pc[Worker] # "idle"
          /\ pc'[App] = pc[App] /\ got'[App] = got[App]
      BY <1>1, <2>2, OneMoves
    <3>2. App \notin overlapped => pc[App] # "receive"
      BY <1>1, <3>1 DEF AnswerInv, Meet, Busy
    <3> QED BY <3>1, <3>2 DEF Accepted
  <2> QED BY <2>1, <2>2 DEF OtherRequest, Exchanging
<1>3. GenaKinds' /\ Holding'
  BY <1>1, <1>2 DEF GenaInv, GenaKinds, Holding, genaVars
<1>4. SubscriptionHeard' /\ SubscribedIsHeard'
  BY <1>1, <1>2 DEF GenaInv, SubscriptionHeard, SubscribedIsHeard, Heard, genaVars
<1> QED BY <1>3, <1>4 DEF GenaInv

LEMMA GenaStep ==
  ASSUME AnswerInv, GenaInv, GenaNext
  PROVE  GenaInv'
<1>1. CASE Subscribe \/ Unsubscribe
  BY <1>1, AppBeginsStep DEF AnswerInv
<1>2. CASE Exchanging(App)
  BY <1>2, AppExchanges DEF AnswerInv
<1>3. CASE \E reaction \in Reactions : SendRequest(reaction)
  BY <1>3, AppSends
<1>4. CASE OtherRequest \/ Exchanging(Worker)
  BY <1>4, OthersRequest
<1>5. CASE \/ \E op \in {"subscribe", "unsubscribe"}, s \in Services : Call(op, s)
           \/ Lock \/ RefuseStopped \/ RefuseSubscribed \/ RefuseUnknown
           \/ SubscribeEnds \/ UnsubscribeEnds
           \/ \E s \in Services : Notification(s)
           \/ NotifyLock \/ NotifyStep \/ ServingToggles
  <2>1. UNCHANGED vars
    BY <1>5 DEF Call, Lock, RefuseStopped, RefuseSubscribed, RefuseUnknown, Refuse,
              SubscribeEnds, UnsubscribeEnds, Notification, NotifyLock, NotifyStep, NotifyUnknown,
              NotifyCall, NotifyReenter, NotifyEnd, ConnStep, ServingToggles
  <2> QED BY <1>5, <2>1, QuietGenaStep
<1> QED BY <1>1, <1>2, <1>3, <1>4, <1>5 DEF GenaNext, AppStep

LEMMA GenaRests == GenaInv /\ UNCHANGED allVars => GenaInv'
BY DEF GenaInv, GenaKinds, Holding, SubscriptionHeard, SubscribedIsHeard, Heard, Accepted,
       Pending, allVars

LEMMA GenaKeeps == GenaSpec => []GenaInv
<1>1. Spec => []AnswerInv
  BY AnswerStarts, AnswerNext, PTL DEF Spec
<1>2. AnswerInv /\ GenaInv /\ [GenaNext]_allVars => GenaInv'
  BY GenaStep, GenaRests
<1> QED BY <1>1, <1>2, GenaStarts, GenaUsesTheClient, PTL DEF GenaSpec

\* The control point's state is of its type, that of the client included.
THEOREM GenaIsTyped == GenaSpec => []GenaTypeOK
<1>1. TypeOK /\ GenaInv => GenaTypeOK
  BY DEF GenaInv, GenaKinds, GenaTypeOK
<1> QED BY <1>1, ClientIsTyped, GenaUsesTheClient, GenaKeeps, PTL

\* When Subscribe succeeds and its request met no other, the device has accepted
\* this subscription, and every notification finds its listener, also those that
\* come before Subscribe has returned (UpnpGenaClient.c:124-256).
THEOREM SubscribersAreHeard == GenaSpec => []SubscribedIsHeard
<1>1. GenaInv => SubscribedIsHeard
  BY DEF GenaInv
<1> QED BY <1>1, GenaKeeps, PTL

\* The two theorems of the client, for the control point.
THEOREM GenaAnswersAreOwn == GenaSpec => [](AnswerIsOwn /\ OneConnection)
BY AnswersAreOwn, OneConnectionAtMost, GenaUsesTheClient, PTL

-----------------------------------------------------------------------------
(* The message loop.                                                       *)

USE SizesAreNumbers

\* Bytes(from, to) is the sequence of the positions from+1..to.
LEMMA BytesLength ==
  ASSUME NEW a \in Nat, NEW b \in Nat, a <= b
  PROVE  Bytes(a, b) \in Seq(Nat) /\ Len(Bytes(a, b)) = b - a
<1>1. b - a \in Nat
  OBVIOUS
<1>2. \A i \in 1..(b - a) : a + i \in Nat
  OBVIOUS
<1>3. Bytes(a, b) \in [1..(b - a) -> Nat]
  BY <1>2 DEF Bytes
<1> QED BY <1>1, <1>3

LEMMA BytesJoin ==
  ASSUME NEW a \in Nat, NEW b \in Nat, NEW c \in Nat, a <= b, b <= c
  PROVE  Bytes(a, b) \o Bytes(b, c) = Bytes(a, c)
<1> DEFINE l == Bytes(a, b)
           r == Bytes(b, c)
           w == Bytes(a, c)
<1>1. l \in Seq(Nat) /\ Len(l) = b - a
  BY BytesLength
<1>2. r \in Seq(Nat) /\ Len(r) = c - b
  BY BytesLength
<1>3. a <= c
  OBVIOUS
<1>4. w \in Seq(Nat) /\ Len(w) = c - a
  BY <1>3, BytesLength
<1>5. /\ \A i \in 1..(b - a) : l[i] = a + i
      /\ \A i \in 1..(c - b) : r[i] = b + i
      /\ \A i \in 1..(c - a) : w[i] = a + i
  BY DEF Bytes
<1> HIDE DEF l, r, w
<1>6. l \o r \in Seq(Nat) /\ Len(l \o r) = c - a
  BY <1>1, <1>2
<1>7. ASSUME NEW i \in 1..(c - a) PROVE (l \o r)[i] = w[i]
  <2>1. CASE i <= b - a
    BY <1>1, <1>2, <1>5, <2>1
  <2>2. CASE i > b - a
    <3>1. i - (b - a) \in 1..(c - b)
      BY <2>2
    <3>2. (l \o r)[i] = r[i - (b - a)]
      BY <1>1, <1>2, <2>2
    <3>3. r[i - (b - a)] = b + (i - (b - a)) /\ w[i] = a + i
      BY <1>5, <3>1
    <3>4. b + (i - (b - a)) = a + i
      OBVIOUS
    <3> QED BY <3>2, <3>3, <3>4, Zenon
  <2>3. i <= b - a \/ i > b - a
    OBVIOUS
  <2> QED BY <2>1, <2>2, <2>3, Zenon
<1>8. l \o r = w
  BY <1>4, <1>6, <1>7, SeqEqual
<1> QED BY <1>8 DEF l, r, w

-----------------------------------------------------------------------------
Counts ==
  /\ length \in Nat /\ surplus \in Nat /\ arrived \in Nat /\ taken \in Nat
  /\ taken <= arrived /\ arrived <= HeadLen + length + surplus
  /\ phase \in {"first", "more", "done"}

\* Until it ends, the content is what was taken behind the head.
Collected ==
  /\ phase = "first" => taken = 0 /\ content = <<>> /\ outcome = "none"
  /\ phase = "more" => outcome = "none" /\ bufSize = length
  /\ (phase = "more" /\ surplus = 0) =>
       /\ HeadLen <= taken /\ taken < HeadLen + length
       /\ content = Bytes(HeadLen, taken)

TransferInv == Counts /\ Collected /\ WholeWhenOK

LEMMA ChunkIsPositive ==
  ASSUME Counts, arrived > taken
  PROVE  Chunk \in Nat /\ taken + Chunk <= arrived
BY DEF Counts, Chunk, Min

LEMMA InvInit == TransferInit => TransferInv
BY DEF TransferInit, TransferInv, Counts, Collected, WholeWhenOK

\* The first piece, without a surplus: none of it is lost.
LEMMA FirstPiece ==
  ASSUME TransferInv, RecvFirst, surplus = 0
  PROVE  Collected' /\ WholeWhenOK'
<1> USE DEF TransferInv, Counts
<1>1. taken = 0 /\ content = <<>> /\ Chunk \in Nat /\ Chunk <= arrived /\ taken' = Chunk
  BY ChunkIsPositive DEF RecvFirst, Collected
<1>2. Chunk <= HeadLen + length /\ length' = length /\ surplus' = surplus
  BY <1>1 DEF RecvFirst
<1>3. CASE HeadCut
  BY <1>1, <1>2, <1>3 DEF RecvFirst, HeadCut, Ends, Collected, WholeWhenOK
<1>4. CASE HeadRead /\ length = 0
  <2>1. Bytes(HeadLen, HeadLen + 0) = <<>>
    BY BytesLength
  <2> QED BY <1>1, <1>2, <1>4, <2>1 DEF RecvFirst, HeadRead, Ends, Collected, WholeWhenOK
<1>5. CASE HeadRead /\ length # 0 /\ length > MaxContent
  BY <1>1, <1>2, <1>5 DEF RecvFirst, HeadRead, Ends, Collected, WholeWhenOK
<1>6. CASE HeadRead /\ length # 0 /\ ~(length > MaxContent)
  <2>1. Chunk >= HeadLen /\ Chunk - HeadLen <= length
    BY <1>1, <1>2, <1>6 DEF HeadRead
  <2>2. GoOnUnlessFull(length, Bytes(HeadLen, Chunk))
    BY <1>6, <2>1 DEF HeadRead
  <2>3. Len(Bytes(HeadLen, Chunk)) = Chunk - HeadLen
    BY <1>1, <2>1, BytesLength
  <2>4. CASE Len(Bytes(HeadLen, Chunk)) = length
    <3>1. Chunk = HeadLen + length
      BY <1>1, <2>1, <2>3, <2>4
    <3> QED BY <1>2, <2>2, <2>4, <3>1 DEF GoOnUnlessFull, Ends, Collected, WholeWhenOK
  <2>5. CASE Len(Bytes(HeadLen, Chunk)) # length
    <3>1. Chunk < HeadLen + length
      BY <1>1, <2>1, <2>3, <2>5
    <3>2. phase' = "more" /\ outcome' = outcome /\ bufSize' = length
          /\ content' = Bytes(HeadLen, Chunk)
      BY <2>2, <2>5 DEF GoOnUnlessFull
    <3>3. outcome = "none"
      BY DEF RecvFirst, Collected
    <3>4. Bytes(HeadLen, taken)' = Bytes(HeadLen, Chunk)
      BY <1>1 DEF Bytes
    <3> QED BY <1>1, <1>2, <2>1, <3>1, <3>2, <3>3, <3>4 DEF Collected, WholeWhenOK
  <2> QED BY <2>4, <2>5
<1> QED BY <1>3, <1>4, <1>5, <1>6 DEF RecvFirst

\* A later piece goes on where the one before has ended.
LEMMA LaterPiece ==
  ASSUME TransferInv, RecvMore, surplus = 0
  PROVE  Collected' /\ WholeWhenOK'
<1> USE DEF TransferInv, Counts
<1> DEFINE joined == content \o Bytes(taken, taken + Chunk)
<1>0. HeadLen \in Nat /\ taken \in Nat
  OBVIOUS
<1>1. /\ bufSize = length /\ outcome = "none" /\ content = Bytes(HeadLen, taken)
      /\ HeadLen <= taken /\ taken < HeadLen + length
  BY DEF RecvMore, Collected
<1>2. Chunk \in Nat /\ taken + Chunk <= HeadLen + length
  BY ChunkIsPositive DEF RecvMore
<1>3. length' = length /\ surplus' = surplus /\ taken' = taken + Chunk
  BY DEF RecvMore
<1>4. Room = HeadLen + length - taken
  <2>1. Len(Bytes(HeadLen, taken)) = taken - HeadLen
    BY <1>0, <1>1, BytesLength
  <2> QED BY <1>1, <2>1 DEF Room
<1>5. GoOnUnlessFull(bufSize, joined)
  BY <1>2, <1>4 DEF RecvMore, AddContent
<1>6. joined = Bytes(HeadLen, taken + Chunk)
  <2>1. taken + Chunk \in Nat /\ taken <= taken + Chunk
    BY <1>0, <1>2
  <2>2. Bytes(HeadLen, taken) \o Bytes(taken, taken + Chunk) = Bytes(HeadLen, taken + Chunk)
    BY <1>0, <1>1, <2>1, BytesJoin
  <2> QED BY <1>1, <2>2
<1>7. Len(joined) = (taken + Chunk) - HeadLen
  <2>1. taken + Chunk \in Nat /\ HeadLen <= taken + Chunk
    BY <1>0, <1>1, <1>2
  <2>2. Len(Bytes(HeadLen, taken + Chunk)) = (taken + Chunk) - HeadLen
    BY <1>0, <2>1, BytesLength
  <2> QED BY <1>6, <2>2, Zenon
<1> HIDE DEF joined
<1>8. CASE Len(joined) = length
  <2>1. taken + Chunk = HeadLen + length
    BY <1>1, <1>2, <1>7, <1>8
  <2>2. phase' = "done" /\ content' = Bytes(HeadLen, HeadLen + length)
    BY <1>1, <1>5, <1>6, <1>8, <2>1 DEF GoOnUnlessFull, Ends
  <2>3. Bytes(HeadLen, HeadLen + length)' = Bytes(HeadLen, HeadLen + length)
    BY <1>3 DEF Bytes
  <2> QED BY <2>2, <2>3 DEF Collected, WholeWhenOK
<1>9. CASE Len(joined) # length
  <2>1. taken + Chunk < HeadLen + length
    BY <1>1, <1>2, <1>7, <1>9
  <2>2. /\ phase' = "more" /\ outcome' = "none" /\ bufSize' = length
        /\ content' = Bytes(HeadLen, taken + Chunk)
    BY <1>1, <1>5, <1>6, <1>9 DEF GoOnUnlessFull
  <2>3. Bytes(HeadLen, taken)' = Bytes(HeadLen, taken + Chunk)
    BY <1>3 DEF Bytes
  <2> QED BY <1>1, <1>2, <1>3, <2>1, <2>2, <2>3 DEF Collected, WholeWhenOK
<1> QED BY <1>8, <1>9

\* With a surplus the content may be anything; how the loop goes on is the same.
LEMMA WithSurplus ==
  ASSUME TransferInv, RecvFirst \/ RecvMore, surplus # 0
  PROVE  Collected' /\ WholeWhenOK'
<1> USE DEF TransferInv, Collected, WholeWhenOK, Ends, GoOnUnlessFull
<1>1. surplus' # 0 /\ length' = length
  BY DEF RecvFirst, RecvMore
<1>2. CASE RecvFirst /\ HeadCut
  BY <1>1, <1>2 DEF RecvFirst, HeadCut
<1>3. CASE RecvFirst /\ HeadRead
  BY <1>1, <1>3 DEF RecvFirst, HeadRead
<1>4. CASE RecvMore
  BY <1>1, <1>4 DEF RecvMore, AddContent
<1> QED BY <1>2, <1>3, <1>4 DEF RecvFirst

LEMMA TransferStep ==
  ASSUME TransferInv, [TransferNext]_transferVars
  PROVE  TransferInv'
<1>1. CASE Arrive
  <2>1. Counts'
    BY <1>1 DEF TransferInv, Counts, Arrive
  <2>2. Collected' /\ WholeWhenOK'
    BY <1>1 DEF TransferInv, Collected, WholeWhenOK, Arrive, Bytes
  <2> QED BY <2>1, <2>2 DEF TransferInv
<1>2. CASE RecvFirst \/ RecvMore
  <2>1. phase' \in {"first", "more", "done"}
    BY <1>2 DEF RecvFirst, RecvMore, HeadCut, HeadRead, AddContent, GoOnUnlessFull, Ends
  <2>2. arrived > taken
    BY <1>2 DEF RecvFirst, RecvMore
  <2>3. Counts'
    BY <1>2, <2>1, <2>2, ChunkIsPositive
       DEF TransferInv, Counts, RecvFirst, RecvMore
  <2>4. Collected' /\ WholeWhenOK'
    BY <1>2, FirstPiece, LaterPiece, WithSurplus
  <2> QED BY <2>3, <2>4 DEF TransferInv
<1>3. CASE NothingCame
  BY <1>3 DEF TransferInv, Counts, Collected, WholeWhenOK, NothingCame, Ends
<1>4. CASE UNCHANGED transferVars
  BY <1>4 DEF TransferInv, Counts, Collected, WholeWhenOK, transferVars, Bytes
<1> QED BY <1>1, <1>2, <1>3, <1>4 DEF TransferNext

\* An exchange that returns OK has the content that was sent, however it was
\* cut (HttpClient.c:130-190, UpnpHttpServer.c:330-398).
THEOREM ContentIsWhole == TransferSpec => []WholeWhenOK
<1>1. TransferInv => WholeWhenOK
  BY DEF TransferInv
<1>2. TransferInit => TransferInv
  BY InvInit
<1>3. TransferInv /\ [TransferNext]_transferVars => TransferInv'
  BY TransferStep
<1> QED BY <1>1, <1>2, <1>3, PTL DEF TransferSpec

\* The loop never waits for a byte that was not announced.
THEOREM NeverWaitsInVain == TransferSpec => []WaitsForNoMore
<1>1. TransferInv => WaitsForNoMore
  BY DEF TransferInv, Collected, WaitsForNoMore
<1>2. TransferInit => TransferInv
  BY InvInit
<1>3. TransferInv /\ [TransferNext]_transferVars => TransferInv'
  BY TransferStep
<1> QED BY <1>1, <1>2, <1>3, PTL DEF TransferSpec
=============================================================================
