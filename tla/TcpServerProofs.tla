-------------------------- MODULE TcpServerProofs --------------------------
(***************************************************************************)
(* TcpServer keeps its type, tells the truth about running but for the     *)
(* races named, leaves no socket open, and mixes up connections only when  *)
(* a thread has lost its socket; for all bounds.                           *)
(***************************************************************************)
EXTENDS TcpServer, TLAPS

\* Files of different kinds, or with different numbers, differ.
LEMMA FilesDiffer ==
  /\ \A k, n : Conn(k) # Listening(n) /\ Conn(k) # Unused(n) /\ Listening(k) # Unused(n)
  /\ \A k, j : Conn(k) = Conn(j) => k = j
  /\ \A n, m : Listening(n) = Listening(m) => n = m
  /\ \A k : NoFile # Conn(k) /\ NoFile # Listening(k) /\ NoFile # Unused(k)
BY DEF Conn, Listening, Unused, NoFile

\* What a descriptor is open for.
LEMMA FileAtType == TypeOK => \A f : FileAt(f) \in Files \cup {NoFile}
BY DEF TypeOK, TablesOK, FileAt

\* A file that listens is the socket of a Start.
LEMMA ListenType ==
  TypeOK => \A f : FileAt(f).kind = "listen" =>
              FileAt(f).id \in Runs /\ FileAt(f) = Listening(FileAt(f).id) /\ f \in Fds
BY FileAtType DEF Files, Conn, Listening, Unused, NoFile, FileAt

\* A close changes the table at one descriptor at most, and remembers what it
\* took away from others.
LEMMA CloseChanges ==
  ASSUME TypeOK, NEW f, NEW what, CloseAs(f, what)
  PROVE  /\ file' \in [Fds -> Files \cup {NoFile}] /\ strays' \subseteq Files
         /\ strays \subseteq strays'
         /\ \A g \in Fds : file'[g] = IF g = f THEN NoFile ELSE file[g]
         /\ \A g : FileAt(g)' = FileAt(g) \/ (g = f /\ FileAt(g) \in {what} \cup strays')
         /\ \A x \in strays' : x \in strays \/ (f \in Fds /\ x = file[f] /\ x # NoFile)
<1>1. FileAt(f) \in Files \cup {NoFile}
  BY FileAtType
<1>2. /\ file' \in [Fds -> Files \cup {NoFile}]
      /\ \A g \in Fds : file'[g] = IF g = f THEN NoFile ELSE file[g]
  BY DEF CloseAs, Closed, TypeOK, TablesOK
<1>3. /\ strays' \subseteq Files /\ strays \subseteq strays'
      /\ FileAt(f) \in {what, NoFile} \cup strays'
      /\ \A x \in strays' : x \in strays \/ (f \in Fds /\ x = file[f] /\ x # NoFile)
  BY <1>1 DEF CloseAs, TypeOK, SetsOK, FileAt
<1>4. \A g : FileAt(g)' = FileAt(g) \/ (g = f /\ FileAt(g) \in {what} \cup strays')
  <2>1. ASSUME NEW g, g # f PROVE FileAt(g)' = FileAt(g)
    BY <1>2, <2>1 DEF FileAt
  <2>2. FileAt(f)' = FileAt(f) \/ FileAt(f) \in {what} \cup strays'
    BY <1>2, <1>3 DEF FileAt
  <2>3. QED
    BY <2>1, <2>2 DEF FileAt
<1>5. QED
  BY <1>2, <1>3, <1>4

\* At first every variable is in its range, and the invariant holds.
LEMMA InitType == Init => TypeOK
<1> SUFFICES ASSUME Init PROVE TypeOK
  OBVIOUS
<1> USE Bounds DEF Bounds
<1>1. FlowOK
  BY DEF Init, FlowOK
<1>2. NumbersOK
  BY DEF Init, NumbersOK
<1>3. TablesOK
  BY DEF Init, TablesOK
<1>4. SetsOK
  BY DEF Init, SetsOK
<1>5. QED
  BY <1>1, <1>2, <1>3, <1>4 DEF TypeOK

LEMMA InitInv == Init => IInv
<1> SUFFICES ASSUME Init PROVE IInv
  OBVIOUS
<1> USE Bounds DEF Bounds
<1>1. TypeOK
  BY InitType
<1>2. Made /\ Phases /\ Serves /\ HasThread
  BY DEF Init, Made, Phases, Serves, HasThread, Conns, Runs
<1>3. Listeners
  BY FilesDiffer DEF Init, Listeners
<1>4. Places
  <2>1. \A f \in Fds, k \in Conns : file[f] # Conn(k)
    BY FilesDiffer DEF Init
  <2>2. 1..conn_id = {}
    BY DEF Init
  <2>3. QED
    BY <2>1, <2>2 DEF Init, Places
<1>5. CrossTalkExplained
  BY DEF Init, CrossTalkExplained
<1>6. QED
  BY <1>1, <1>2, <1>3, <1>4, <1>5 DEF IInv

\* After a close: the types, who has lost a socket, and where sockets are.
ClosedWell ==
  /\ file' \in [Fds -> Files \cup {NoFile}] /\ strays' \subseteq Files
  /\ strays \subseteq strays'
  /\ \A g \in Fds : file'[g] = file[g] \/ file'[g] = NoFile
  /\ \A k \in Conns : k > conn_id => Conn(k) \notin strays'
  /\ \A n \in Runs : n > starts => Listening(n) \notin strays'
  /\ \A g \in Fds, k \in Conns : file'[g] = Conn(k) => k <= conn_id /\ g = fd[k]
  /\ \A g \in Fds, k \in Conns : k \in own' \ freed => file'[g] # Conn(k)
  /\ \A k \in 1..conn_id : Dispossessed(k)' \/ FileAt(fd[k])' = Conn(k)

\* Whoever closes his own, or what he takes for his own, leaves it so.
LEMMA CloseKeeps ==
  ASSUME IInv, NEW f, NEW what, CloseAs(f, what), UNCHANGED <<fd, freed>>, own \subseteq own',
         \A k \in Conns : k \in own' \ own => f \in FdOf(k),
         \A k \in Conns : what = Conn(k) => k \in own'
  PROVE  ClosedWell
<1> USE DEF IInv
<1>1. /\ file' \in [Fds -> Files \cup {NoFile}] /\ strays' \subseteq Files
      /\ strays \subseteq strays'
      /\ \A g \in Fds : file'[g] = IF g = f THEN NoFile ELSE file[g]
      /\ \A g : FileAt(g)' = FileAt(g) \/ (g = f /\ FileAt(g) \in {what} \cup strays')
      /\ \A x \in strays' : x \in strays \/ (f \in Fds /\ x = file[f] /\ x # NoFile)
  BY CloseChanges
<1>2. conn_id \in 0..MaxConns /\ starts \in 0..MaxStarts /\ 1..conn_id \subseteq Conns
  BY Bounds DEF TypeOK, NumbersOK, Bounds, Conns
<1>3. \A k \in Conns : k > conn_id => Conn(k) \notin strays'
  BY <1>1, <1>2, FilesDiffer, Bounds DEF Made, Places, Conns, Bounds
<1>4. \A n \in Runs : n > starts => Listening(n) \notin strays'
  BY <1>1, <1>2, FilesDiffer, Bounds DEF Made, Listeners, Runs, Bounds
<1>5. \A g \in Fds, k \in Conns : file'[g] = Conn(k) => k <= conn_id /\ g = fd[k]
  BY <1>1, FilesDiffer DEF Places
<1>6. \A g \in Fds, k \in Conns : k \in own' \ freed => file'[g] # Conn(k)
  BY <1>1, <1>5, FilesDiffer DEF Places, FdOf
<1>7. \A k \in 1..conn_id : Dispossessed(k)' \/ FileAt(fd[k])' = Conn(k)
  <2> SUFFICES ASSUME NEW k \in 1..conn_id, ~Dispossessed(k)'
               PROVE  FileAt(fd[k])' = Conn(k)
    OBVIOUS
  <2>1. FileAt(fd[k]) = Conn(k) /\ Conn(k) \notin strays' /\ k \notin own'
    BY <1>1 DEF Places, Dispossessed
  <2>2. Conn(k) # what
    BY <1>2, <2>1
  <2>3. FileAt(fd[k])' = FileAt(fd[k])
    BY <1>1, <2>1, <2>2 DEF FileAt
  <2>4. QED
    BY <2>1, <2>3
<1>8. QED
  BY <1>1, <1>3, <1>4, <1>5, <1>6, <1>7 DEF ClosedWell

\* So does whoever closes nothing.
LEMMA NothingClosed ==
  ASSUME IInv, UNCHANGED <<file, strays, own, fd, freed>>
  PROVE  ClosedWell
BY DEF IInv, ClosedWell, TypeOK, TablesOK, SetsOK, Made, Places, Dispossessed, FileAt

-----------------------------------------------------------------------------
(* Every action keeps the inductive invariant.  The owner's steps.         *)

LEMMA StartNoSocketKeeps == ASSUME IInv, StartNoSocket PROVE IInv'
<1> USE Bounds DEF Bounds, IInv
<1>1. TypeOK'
  <2>1. FlowOK'
    BY DEF TypeOK, FlowOK, StartNoSocket, connVars, acceptVars, histVars, poolVars
  <2>2. NumbersOK'
    BY DEF TypeOK, NumbersOK, StartNoSocket, connVars, acceptVars, histVars, poolVars
  <2>3. TablesOK'
    BY DEF TypeOK, TablesOK, StartNoSocket, connVars, acceptVars, histVars, poolVars
  <2>4. SetsOK'
    BY DEF TypeOK, SetsOK, StartNoSocket, connVars, acceptVars, histVars, poolVars
  <2>5. QED
    BY <2>1, <2>2, <2>3, <2>4 DEF TypeOK
<1>2. Made' /\ Phases' /\ Serves' /\ HasThread' /\ Listeners' /\ Places' /\ CrossTalkExplained'
  BY DEF Made, Phases, Serves, HasThread, Listeners, Places, CrossTalkExplained, StartNoSocket,
     connVars, acceptVars, histVars, poolVars, FileAt, Dispossessed
<1>3. QED
  BY <1>1, <1>2 DEF IInv

LEMMA StartThreadKeeps == ASSUME IInv, StartThread PROVE IInv'
<1> USE Bounds DEF Bounds, IInv
<1>1. TypeOK'
  <2>1. FlowOK'
    BY DEF TypeOK, FlowOK, StartThread, connVars, poolVars, histVars
  <2>2. NumbersOK'
    BY DEF TypeOK, NumbersOK, StartThread, connVars, poolVars, histVars
  <2>3. TablesOK'
    BY DEF TypeOK, TablesOK, StartThread, connVars, poolVars, histVars
  <2>4. SetsOK'
    BY DEF TypeOK, SetsOK, StartThread, connVars, poolVars, histVars
  <2>5. QED
    BY <2>1, <2>2, <2>3, <2>4 DEF TypeOK
<1>2. Phases'
  BY DEF TypeOK, NumbersOK, TablesOK, Phases, StartThread, Runs
<1>3. Made' /\ Serves' /\ HasThread' /\ Listeners' /\ Places' /\ CrossTalkExplained'
  BY DEF Made, Serves, HasThread, Listeners, Places, CrossTalkExplained, StartThread, connVars,
     poolVars, histVars, Runs, FileAt, Dispossessed
<1>4. QED
  BY <1>1, <1>2, <1>3 DEF IInv

LEMMA StartRunningKeeps == ASSUME IInv, StartRunning PROVE IInv'
<1> USE Bounds DEF Bounds, IInv
<1>1. TypeOK'
  <2>1. FlowOK'
    BY DEF TypeOK, FlowOK, StartRunning, connVars, acceptVars, poolVars
  <2>2. NumbersOK'
    BY DEF TypeOK, NumbersOK, StartRunning, connVars, acceptVars, poolVars
  <2>3. TablesOK'
    BY DEF TypeOK, TablesOK, StartRunning, connVars, acceptVars, poolVars
  <2>4. SetsOK'
    <3>1. starts \in Runs
      BY DEF TypeOK, NumbersOK, Phases, StartRunning, Runs
    <3>2. QED
      BY <3>1 DEF TypeOK, SetsOK, StartRunning, connVars, acceptVars, poolVars
  <2>5. QED
    BY <2>1, <2>2, <2>3, <2>4 DEF TypeOK
<1>2. Made' /\ Phases' /\ Serves' /\ HasThread' /\ Listeners' /\ Places' /\ CrossTalkExplained'
  BY DEF Made, Phases, Serves, HasThread, Listeners, Places, CrossTalkExplained, StartRunning,
     connVars, acceptVars, poolVars, FileAt, Dispossessed
<1>3. QED
  BY <1>1, <1>2 DEF IInv

LEMMA StopKeeps == ASSUME IInv, Stop PROVE IInv'
<1> USE Bounds DEF Bounds, IInv
<1> DEFINE what == Listening(starts)
<1>0. ClosedWell /\ \A f \in Fds : f = socket_fd => file'[f] = NoFile
  <2>1. CloseAs(socket_fd, what) /\ \A k \in Conns : what # Conn(k)
    BY FilesDiffer DEF Stop
  <2>2. UNCHANGED <<fd, freed, own>>
    BY DEF Stop, connVars
  <2>3. QED
    BY <2>1, <2>2, CloseKeeps, CloseChanges
<1>1. TypeOK'
  <2>1. FlowOK'
    BY DEF TypeOK, FlowOK, Stop, connVars, acceptVars, poolVars
  <2>2. NumbersOK'
    BY DEF TypeOK, NumbersOK, Stop, connVars, acceptVars, poolVars
  <2>3. TablesOK'
    BY <1>0 DEF TypeOK, TablesOK, ClosedWell, Stop, connVars, acceptVars, poolVars
  <2>4. SetsOK'
    BY <1>0 DEF TypeOK, SetsOK, ClosedWell, Stop, connVars, acceptVars, poolVars
  <2>5. QED
    BY <2>1, <2>2, <2>3, <2>4 DEF TypeOK
<1>2. Made'
  BY <1>0 DEF Made, ClosedWell, Stop, connVars, acceptVars, poolVars, TypeOK, NumbersOK,
     TablesOK, Conns
<1>3. Listeners'
  BY <1>0, FilesDiffer DEF Listeners, ClosedWell, Phases, Stop, connVars, acceptVars, poolVars
<1>4. Places'
  BY <1>0 DEF Places, ClosedWell, Stop, connVars, acceptVars, poolVars, TypeOK, TablesOK
<1>5. CrossTalkExplained'
  BY <1>0 DEF CrossTalkExplained, ClosedWell, Dispossessed, Stop, connVars, acceptVars, poolVars
<1>6. Phases' /\ Serves' /\ HasThread'
  BY DEF Phases, Serves, HasThread, Stop
<1>7. QED
  BY <1>1, <1>2, <1>3, <1>4, <1>5, <1>6 DEF IInv

LEMMA DisposeStopKeeps == ASSUME IInv, DisposeStop PROVE IInv'
<1> USE Bounds DEF Bounds, IInv
<1> DEFINE what == Listening(starts)
<1>0. ClosedWell /\ \A f \in Fds : f = socket_fd /\ running => file'[f] = NoFile
  <2>0. UNCHANGED <<fd, freed, own>>
    BY DEF DisposeStop, connVars
  <2>1. CASE running
    <3>1. CloseAs(socket_fd, what) /\ \A k \in Conns : what # Conn(k)
      BY <2>1, FilesDiffer DEF DisposeStop
    <3>2. QED
      BY <2>0, <3>1, CloseKeeps, CloseChanges
  <2>2. CASE ~running
    <3>1. UNCHANGED <<file, strays>>
      BY <2>2 DEF DisposeStop
    <3>2. QED
      BY <2>0, <2>2, <3>1, NothingClosed
  <2>3. QED
    BY <2>1, <2>2
<1>1. TypeOK'
  <2>1. FlowOK'
    BY DEF TypeOK, FlowOK, DisposeStop, connVars, acceptVars, poolVars
  <2>2. NumbersOK'
    BY DEF TypeOK, NumbersOK, DisposeStop, connVars, acceptVars, poolVars
  <2>3. TablesOK'
    BY <1>0 DEF TypeOK, TablesOK, ClosedWell, DisposeStop, connVars, acceptVars, poolVars
  <2>4. SetsOK'
    BY <1>0 DEF TypeOK, SetsOK, ClosedWell, DisposeStop, connVars, acceptVars, poolVars
  <2>5. QED
    BY <2>1, <2>2, <2>3, <2>4 DEF TypeOK
<1>2. Made'
  BY <1>0 DEF Made, ClosedWell, DisposeStop, connVars, acceptVars, poolVars, TypeOK, NumbersOK,
     TablesOK, Conns
<1>3. Listeners'
  BY <1>0, FilesDiffer DEF Listeners, ClosedWell, Phases, DisposeStop, connVars, acceptVars,
     poolVars
<1>4. Places'
  BY <1>0 DEF Places, ClosedWell, DisposeStop, connVars, acceptVars, poolVars, TypeOK, TablesOK
<1>5. CrossTalkExplained'
  BY <1>0 DEF CrossTalkExplained, ClosedWell, Dispossessed, DisposeStop, connVars, acceptVars,
     poolVars
<1>6. Phases' /\ Serves' /\ HasThread'
  BY DEF Phases, Serves, HasThread, DisposeStop
<1>7. QED
  BY <1>1, <1>2, <1>3, <1>4, <1>5, <1>6 DEF IInv

LEMMA DisposeJoinKeeps == ASSUME IInv, DisposeJoin PROVE IInv'
<1> USE Bounds DEF Bounds, IInv
<1>1. TypeOK'
  <2>1. FlowOK'
    BY DEF TypeOK, FlowOK, DisposeJoin, connVars, histVars
  <2>2. NumbersOK'
    BY DEF TypeOK, NumbersOK, DisposeJoin, connVars, histVars
  <2>3. TablesOK'
    BY DEF TypeOK, TablesOK, DisposeJoin, connVars, histVars
  <2>4. SetsOK'
    BY DEF TypeOK, SetsOK, DisposeJoin, connVars, histVars
  <2>5. QED
    BY <2>1, <2>2, <2>3, <2>4 DEF TypeOK
<1>2. Made' /\ Phases' /\ Serves' /\ HasThread' /\ Listeners' /\ Places' /\ CrossTalkExplained'
  BY DEF Made, Phases, Serves, HasThread, Listeners, Places, CrossTalkExplained, DisposeJoin,
     connVars, histVars, FileAt, Dispossessed
<1>3. QED
  BY <1>1, <1>2 DEF IInv

LEMMA StartOpenKeeps == ASSUME IInv, StartOpen PROVE IInv'
<1> USE Bounds DEF Bounds, IInv
<1>1. TypeOK'
  <2>1. FlowOK'
    BY DEF TypeOK, FlowOK, StartOpen, connVars, acceptVars, poolVars
  <2>2. NumbersOK'
    BY DEF TypeOK, NumbersOK, StartOpen, connVars, acceptVars, poolVars, Fds
  <2>3. TablesOK'
    <3>1. starts + 1 \in Runs
      BY DEF TypeOK, NumbersOK, StartOpen, Runs
    <3>2. QED
      BY <3>1 DEF TypeOK, TablesOK, StartOpen, connVars, acceptVars, poolVars, Files
  <2>4. SetsOK'
    <3>1. starts + 1 \in Runs
      BY DEF TypeOK, NumbersOK, StartOpen, Runs
    <3>2. QED
      BY <3>1 DEF TypeOK, SetsOK, StartOpen, connVars, acceptVars, poolVars
  <2>5. QED
    BY <2>1, <2>2, <2>3, <2>4 DEF TypeOK
<1>2. Made'
  BY DEF TypeOK, NumbersOK, TablesOK, Made, StartOpen, connVars, acceptVars, poolVars, Runs
<1>3. Phases'
  BY DEF TypeOK, NumbersOK, Phases, Made, StartOpen, acceptVars, Runs
<1>4. Serves'
  BY DEF TypeOK, TablesOK, Serves, StartOpen, FileAt
<1>5. Listeners'
  <2>1. acc \in [Runs -> {"none", "accept", "wait", "add", "clean", "end", "done"}]
        /\ starts \in Nat /\ Runs' = Runs /\ Fds' = Fds
    BY DEF TypeOK, NumbersOK, TablesOK
  <2>2. /\ ~running /\ owner = "idle" /\ starts' = starts + 1 /\ failed \subseteq failed'
        /\ UNCHANGED <<running, acc, cleared>>
    BY DEF StartOpen, acceptVars
  <2>3. ASSUME NEW f \in Fds, NEW n \in Runs, file'[f] = Listening(n)
        PROVE  file[f] = Listening(n) \/ (n = starts' /\ f = socket_fd' /\ owner' = "thread")
    BY <2>3, FilesDiffer DEF StartOpen, TypeOK, TablesOK
  <2>4. ASSUME NEW f \in Fds, NEW n \in Runs, file[f] = Listening(n)
        PROVE  /\ n <= starts /\ n \in failed \cup cleared
               /\ acc[n] \in {"clean", "end", "done"} => n \in failed
    BY <2>2, <2>4 DEF Listeners
  <2>5. \A n \in Runs : n > starts => acc[n] = "none"
    BY DEF Made
  <2>6. ASSUME NEW f \in Fds, NEW n \in Runs, file'[f] = Listening(n)
        PROVE  /\ n <= starts'
               /\ \/ n \in failed' \cup cleared'
                  \/ n = starts' /\ f = socket_fd' /\ (running' \/ owner' \in {"thread", "run"})
               /\ acc'[n] \in {"clean", "end", "done"} => n \in failed'
    <3>1. CASE file[f] = Listening(n)
      BY <2>1, <2>2, <2>4, <3>1 DEF Runs
    <3>2. CASE n = starts' /\ f = socket_fd' /\ owner' = "thread"
      BY <2>1, <2>2, <2>5, <3>2 DEF Runs
    <3> QED BY <2>3, <2>6, <3>1, <3>2
  <2> QED BY <2>6 DEF Listeners
<1>6. Places'
  <2>1. \A f \in Fds, j \in Conns : file'[f] = Conn(j) <=> file[f] = Conn(j)
    BY FilesDiffer DEF StartOpen, TypeOK, TablesOK, Lowest, Free
  <2>2. \A j \in Conns : FileAt(fd[j])' = Conn(j) <=> FileAt(fd[j]) = Conn(j)
    BY <2>1, FilesDiffer DEF FileAt, StartOpen, connVars, acceptVars, poolVars
  <2>3. 1..conn_id \subseteq Conns
    BY DEF TypeOK, NumbersOK, Conns
  <2>4. QED
    BY <2>1, <2>2, <2>3 DEF Places, Dispossessed, StartOpen, connVars, acceptVars, poolVars
<1>7. HasThread' /\ CrossTalkExplained'
  BY DEF HasThread, CrossTalkExplained, StartOpen, Dispossessed
<1>8. QED
  BY <1>1, <1>2, <1>3, <1>4, <1>5, <1>6, <1>7 DEF IInv

-----------------------------------------------------------------------------
(* The steps of a thread that accepts.                                     *)

LEMMA AcceptWaitKeeps == ASSUME IInv, NEW n \in Runs, AcceptWait(n) PROVE IInv'
<1> USE Bounds DEF Bounds, IInv
<1>1. TypeOK'
  <2>1. FlowOK'
    BY DEF TypeOK, FlowOK, AcceptWait, serverVars, connVars, poolVars, histVars
  <2>2. NumbersOK'
    BY DEF TypeOK, NumbersOK, AcceptWait, serverVars, connVars, poolVars, histVars
  <2>3. TablesOK'
    <3>1. FileAt(socket_fd).id \in 0..MaxStarts
      BY ListenType DEF AcceptWait, Runs
    <3>2. QED
      BY <3>1 DEF TypeOK, TablesOK, AcceptWait, serverVars, connVars, poolVars, histVars
  <2>4. SetsOK'
    BY DEF TypeOK, SetsOK, AcceptWait, serverVars, connVars, poolVars, histVars
  <2>5. QED
    BY <2>1, <2>2, <2>3, <2>4 DEF TypeOK
<1>2. Made'
  <2>1. FileAt(socket_fd).id <= starts
    BY ListenType DEF AcceptWait, Listeners, FileAt
  <2>2. QED
    BY <2>1 DEF Made, AcceptWait, serverVars, connVars, poolVars, histVars, TypeOK, TablesOK
<1>3. Phases' /\ Serves' /\ HasThread' /\ Listeners' /\ Places' /\ CrossTalkExplained'
  BY DEF Phases, Serves, HasThread, Listeners, Places, CrossTalkExplained, AcceptWait,
     serverVars, histVars, FileAt, connVars, poolVars, Dispossessed
<1>4. QED
  BY <1>1, <1>2, <1>3 DEF IInv

LEMMA AcceptConnKeeps == ASSUME IInv, NEW n \in Runs, AcceptConn(n) PROVE IInv'
<1> USE Bounds DEF Bounds, IInv
<1> DEFINE k == conn_id + 1
<1> PICK f \in Fds : /\ Lowest(f) /\ file' = [file EXCEPT ![f] = Conn(k)]
                    /\ fd' = [fd EXCEPT ![k] = f]
  BY DEF AcceptConn
<1>0. k \in Conns /\ conn_id \in Nat /\ conn_id' = k /\ 1..conn_id' \subseteq Conns
  BY DEF AcceptConn, TypeOK, NumbersOK, Conns
<1>10. /\ file[f] = NoFile /\ file'[f] = Conn(k) /\ fd'[k] = f
       /\ \A g \in Fds : g # f => file'[g] = file[g]
       /\ \A j \in Conns : j # k => fd'[j] = fd[j] /\ pc'[j] = pc[j]
       /\ pc'[k] = "recv"
  BY <1>0 DEF AcceptConn, TypeOK, TablesOK, Lowest, Free
<1>1. TypeOK'
  <2>1. FlowOK'
    BY DEF TypeOK, FlowOK, AcceptConn, serverVars, histVars
  <2>2. NumbersOK'
    BY DEF TypeOK, NumbersOK, AcceptConn, serverVars, histVars
  <2>3. TablesOK'
    <3>1. k \in 0..MaxConns /\ f \in 0..MaxFd
      BY <1>0 DEF Conns, Fds
    <3>2. file' \in [Fds -> Files \cup {NoFile}] /\ fd' \in [Conns -> 0..MaxFd]
      BY <1>0, <3>1 DEF TypeOK, TablesOK, Files
    <3>3. QED
      BY <1>0, <3>1, <3>2 DEF TypeOK, TablesOK, AcceptConn, serverVars, histVars
  <2>4. SetsOK'
    BY <1>0 DEF TypeOK, SetsOK, AcceptConn, serverVars, histVars
  <2>5. QED
    BY <2>1, <2>2, <2>3, <2>4 DEF TypeOK
<1>2. Made'
  <2>1. \A j \in Conns : j > conn_id' => j > conn_id /\ j # k
    BY <1>0 DEF Conns
  <2>2. \A m \in Runs : new'[m] <= conn_id' /\ (acc'[m] = "add" => new'[m] > 0)
    BY <1>0 DEF Made, AcceptConn, TypeOK, TablesOK
  <2>3. \A m \in Runs : /\ m > starts => acc'[m] = "none" /\ Listening(m) \notin strays
                      /\ at'[m] <= starts
    BY DEF Made, AcceptConn, TypeOK, TablesOK, NumbersOK
  <2>4. QED
    BY <1>10, <2>1, <2>2, <2>3 DEF Made, AcceptConn, serverVars, histVars
<1>3. Serves'
  <2>1. FileAt(socket_fd) = Listening(starts) => FileAt(socket_fd)' = Listening(starts)
    BY <1>10, FilesDiffer DEF FileAt, AcceptConn, serverVars, histVars
  <2>2. QED
    BY <2>1 DEF Serves, AcceptConn, serverVars, histVars
<1>4. Listeners'
  BY FilesDiffer DEF Listeners, AcceptConn, serverVars, histVars
<1>5. Places'
  <2>1. \A g \in Fds, j \in Conns : file'[g] = Conn(j) =>
         (g = f /\ j = k) \/ (file[g] = Conn(j) /\ j # k /\ g # f)
    <3>1. \A j \in Conns : Conn(j) = Conn(k) => j = k
      BY FilesDiffer
    <3>2. \A g \in Fds : file[g] # Conn(k)
      BY <1>0 DEF Places
    <3>3. \A j \in Conns : file'[f] = Conn(j) => j = k
      BY <1>10, <3>1
    <3>4. \A g \in Fds : g # f => file'[g] = file[g]
      BY <1>10
    <3>5. QED
      BY <3>2, <3>3, <3>4
  <2>2. \A g \in Fds, j \in Conns : file'[g] = Conn(j) => j <= conn_id' /\ g = fd'[j]
    BY <1>0, <1>10, <2>1 DEF Places, Conns
  <2>3. k \notin own
    BY <1>0 DEF Made
  <2>4. \A g \in Fds, j \in Conns : j \in own \ freed => file'[g] # Conn(j)
    BY <2>1, <2>3 DEF Places
  <2>5. \A j \in 1..conn_id' : Dispossessed(j) \/ FileAt(fd[j])' = Conn(j)
    <3> SUFFICES ASSUME NEW j \in 1..conn_id', ~Dispossessed(j)
                 PROVE  FileAt(fd[j])' = Conn(j)
      OBVIOUS
    <3>1. CASE j = k
      BY <1>10, <3>1 DEF FileAt
    <3>2. CASE j # k
      <4>1. FileAt(fd[j]) = Conn(j) /\ fd'[j] = fd[j]
        BY <1>0, <1>10, <3>2 DEF Places, Conns
      <4>2. QED
        BY <1>10, <4>1, FilesDiffer DEF FileAt
    <3>3. QED
      BY <3>1, <3>2
  <2>6. /\ \A j \in Conns : pc'[j] \in {"close", "done"} => j \in own
        /\ \A j \in Conns : pc'[j] = "reply" /\ j \notin mixed => from[j] = j
    BY <1>10 DEF Places
  <2>7. QED
    BY <2>2, <2>4, <2>5, <2>6 DEF Places, Dispossessed, AcceptConn, serverVars, histVars
<1>6. Phases' /\ HasThread' /\ CrossTalkExplained'
  BY DEF Phases, HasThread, CrossTalkExplained, AcceptConn, serverVars, histVars, Dispossessed
<1>7. QED
  BY <1>1, <1>2, <1>3, <1>4, <1>5, <1>6 DEF IInv

LEMMA AcceptAddKeeps == ASSUME IInv, NEW n \in Runs, AcceptAdd(n) PROVE IInv'
<1> USE Bounds DEF Bounds, IInv
<1>1. TypeOK'
  <2>1. FlowOK'
    BY DEF TypeOK, FlowOK, AcceptAdd, serverVars, connVars, histVars
  <2>2. NumbersOK'
    BY DEF TypeOK, NumbersOK, AcceptAdd, serverVars, connVars, histVars
  <2>3. TablesOK'
    BY DEF TypeOK, TablesOK, AcceptAdd, serverVars, connVars, histVars
  <2>4. SetsOK'
    <3>1. new[n] \in Conns
      BY DEF Made, AcceptAdd, TypeOK, TablesOK, Conns
    <3>2. QED
      BY <3>1 DEF TypeOK, SetsOK, AcceptAdd, serverVars, connVars, histVars
  <2>5. QED
    BY <2>1, <2>2, <2>3, <2>4 DEF TypeOK
<1>2. Made'
  <2>1. \A j \in Conns : j > conn_id => j \notin pool'
    BY DEF Made, AcceptAdd, TypeOK, TablesOK, NumbersOK, Conns
  <2>2. \A m \in Runs : new'[m] <= conn_id /\ (acc'[m] = "add" => new'[m] > 0)
    BY DEF Made, AcceptAdd, TypeOK, TablesOK, NumbersOK
  <2>3. \A m \in Runs : m > starts => acc'[m] = "none"
    BY DEF Made, AcceptAdd, TypeOK, TablesOK
  <2>4. QED
    BY <2>1, <2>2, <2>3 DEF Made, AcceptAdd, serverVars, connVars, histVars
<1>3. Phases' /\ Serves' /\ HasThread' /\ Listeners' /\ Places' /\ CrossTalkExplained'
  BY DEF Phases, Serves, HasThread, Listeners, Places, CrossTalkExplained, AcceptAdd,
     serverVars, histVars, FileAt, connVars, Dispossessed
<1>4. QED
  BY <1>1, <1>2, <1>3 DEF IInv

LEMMA AcceptFailsKeeps == ASSUME IInv, NEW n \in Runs, AcceptFails(n) PROVE IInv'
<1> USE Bounds DEF Bounds, IInv
<1>1. TypeOK'
  <2>1. FlowOK'
    BY DEF TypeOK, FlowOK, AcceptFails, serverVars, connVars, poolVars
  <2>2. NumbersOK'
    BY DEF TypeOK, NumbersOK, AcceptFails, serverVars, connVars, poolVars
  <2>3. TablesOK'
    BY DEF TypeOK, TablesOK, AcceptFails, serverVars, connVars, poolVars
  <2>4. SetsOK'
    BY DEF TypeOK, SetsOK, AcceptFails, serverVars, connVars, poolVars
  <2>5. QED
    BY <2>1, <2>2, <2>3, <2>4 DEF TypeOK
<1>2. Made'
  BY DEF TypeOK, NumbersOK, Made, AcceptFails, serverVars, connVars, poolVars
<1>3. Phases' /\ Serves' /\ HasThread' /\ Listeners' /\ Places' /\ CrossTalkExplained'
  BY DEF Phases, Serves, HasThread, Listeners, Places, CrossTalkExplained, AcceptFails,
     serverVars, FileAt, Sockets, connVars, poolVars, Dispossessed
<1>4. QED
  BY <1>1, <1>2, <1>3 DEF IInv

LEMMA AcceptCleanKeeps == ASSUME IInv, NEW n \in Runs, AcceptClean(n) PROVE IInv'
<1> USE Bounds DEF Bounds, IInv
<1>1. TypeOK'
  <2>1. FlowOK'
    BY DEF TypeOK, FlowOK, AcceptClean, serverVars, connVars, histVars
  <2>2. NumbersOK'
    BY DEF TypeOK, NumbersOK, AcceptClean, serverVars, connVars, histVars
  <2>3. TablesOK'
    BY DEF TypeOK, TablesOK, AcceptClean, serverVars, connVars, histVars
  <2>4. SetsOK'
    BY DEF TypeOK, SetsOK, AcceptClean, serverVars, connVars, histVars
  <2>5. QED
    BY <2>1, <2>2, <2>3, <2>4 DEF TypeOK
<1>2. Made' /\ Phases' /\ Serves' /\ HasThread' /\ Listeners' /\ Places' /\ CrossTalkExplained'
  BY DEF Made, Phases, Serves, HasThread, Listeners, Places, CrossTalkExplained, AcceptClean,
     serverVars, connVars, histVars, FileAt, Dispossessed
<1>3. QED
  BY <1>1, <1>2 DEF IInv

LEMMA AcceptEndKeeps == ASSUME IInv, NEW n \in Runs, AcceptEnd(n) PROVE IInv'
<1> USE Bounds DEF Bounds, IInv
<1>1. TypeOK'
  <2>1. FlowOK'
    BY DEF TypeOK, FlowOK, AcceptEnd, connVars, poolVars
  <2>2. NumbersOK'
    BY DEF TypeOK, NumbersOK, AcceptEnd, connVars, poolVars
  <2>3. TablesOK'
    BY DEF TypeOK, TablesOK, AcceptEnd, connVars, poolVars
  <2>4. SetsOK'
    <3>1. running => starts \in Runs
      BY DEF TypeOK, NumbersOK, Phases, Runs
    <3>2. QED
      BY <3>1 DEF TypeOK, SetsOK, AcceptEnd, connVars, poolVars
  <2>5. QED
    BY <2>1, <2>2, <2>3, <2>4 DEF TypeOK
<1>2. Made' /\ Phases' /\ Serves' /\ HasThread' /\ Listeners' /\ Places' /\ CrossTalkExplained'
  BY DEF Made, Phases, Serves, HasThread, Listeners, Places, CrossTalkExplained, AcceptEnd,
     connVars, poolVars, FileAt, Dispossessed
<1>3. QED
  BY <1>1, <1>2 DEF IInv

-----------------------------------------------------------------------------
(* The steps of the thread of a connection.                                *)

LEMMA ConnRecvKeeps == ASSUME IInv, NEW k \in Conns, ConnRecv(k) PROVE IInv'
<1> USE Bounds DEF Bounds, IInv
<1>1. TypeOK'
  <2>1. FlowOK'
    BY DEF TypeOK, FlowOK, ConnRecv, serverVars, acceptVars, poolVars
  <2>2. NumbersOK'
    BY DEF TypeOK, NumbersOK, ConnRecv, serverVars, acceptVars, poolVars
  <2>3. TablesOK'
    <3>1. asked \subseteq 0..MaxConns
      BY DEF TypeOK, SetsOK, Conns
    <3>2. QED
      BY <3>1 DEF TypeOK, TablesOK, ConnRecv, serverVars, acceptVars, poolVars
  <2>4. SetsOK'
    BY DEF TypeOK, SetsOK, ConnRecv, serverVars, acceptVars, poolVars
  <2>5. QED
    BY <2>1, <2>2, <2>3, <2>4 DEF TypeOK
<1>2. Places'
  BY DEF TypeOK, TablesOK, Places, ConnRecv, acceptVars, poolVars, FileAt, Dispossessed
<1>3. CrossTalkExplained'
  <2> SUFFICES ASSUME NEW j \in asked, NEW f \in FdOf(k), FileAt(f) = Conn(j), j # k
               PROVE  Dispossessed(k)
    BY DEF ConnRecv, CrossTalkExplained, Dispossessed, serverVars, acceptVars, poolVars
  <2>1. k \in 1..conn_id
    BY DEF Made, ConnRecv, Conns, TypeOK, NumbersOK
  <2>2. k \in freed \/ f = fd[k]
    BY DEF FdOf
  <2>3. QED
    BY <2>1, <2>2, FilesDiffer DEF Places, Dispossessed
<1>4. Made' /\ Phases' /\ Serves' /\ HasThread' /\ Listeners'
  BY DEF Made, Phases, Serves, HasThread, Listeners, ConnRecv, serverVars, acceptVars,
     poolVars, FileAt
<1>5. QED
  BY <1>1, <1>2, <1>3, <1>4 DEF IInv

LEMMA ConnRecvFailsKeeps == ASSUME IInv, NEW k \in Conns, ConnRecvFails(k) PROVE IInv'
<1> USE Bounds DEF Bounds, IInv
<1>1. TypeOK'
  <2>1. FlowOK'
    BY DEF TypeOK, FlowOK, ConnRecvFails, serverVars, acceptVars, histVars, poolVars
  <2>2. NumbersOK'
    BY DEF TypeOK, NumbersOK, ConnRecvFails, serverVars, acceptVars, histVars, poolVars
  <2>3. TablesOK'
    BY DEF TypeOK, TablesOK, ConnRecvFails, serverVars, acceptVars, histVars, poolVars
  <2>4. SetsOK'
    BY DEF TypeOK, SetsOK, ConnRecvFails, serverVars, acceptVars, histVars, poolVars
  <2>5. QED
    BY <2>1, <2>2, <2>3, <2>4 DEF TypeOK
<1>2. Made' /\ Phases' /\ Serves' /\ HasThread' /\ Listeners' /\ Places' /\ CrossTalkExplained'
  BY DEF Made, Phases, Serves, HasThread, Listeners, Places, CrossTalkExplained, ConnRecvFails,
     serverVars, acceptVars, histVars, poolVars, FileAt, Dispossessed
<1>3. QED
  BY <1>1, <1>2 DEF IInv

LEMMA ConnReplyKeeps == ASSUME IInv, NEW k \in Conns, ConnReply(k) PROVE IInv'
<1> USE Bounds DEF Bounds, IInv
<1>1. TypeOK'
  <2>1. FlowOK'
    BY DEF TypeOK, FlowOK, ConnReply, serverVars, acceptVars, poolVars
  <2>2. NumbersOK'
    BY DEF TypeOK, NumbersOK, ConnReply, serverVars, acceptVars, poolVars
  <2>3. TablesOK'
    BY DEF TypeOK, TablesOK, ConnReply, serverVars, acceptVars, poolVars
  <2>4. SetsOK'
    BY DEF TypeOK, SetsOK, ConnReply, serverVars, acceptVars, poolVars
  <2>5. QED
    BY <2>1, <2>2, <2>3, <2>4 DEF TypeOK
<1>2. Places'
  BY DEF TypeOK, TablesOK, Places, ConnReply, acceptVars, poolVars, FileAt, Dispossessed
<1>3. CrossTalkExplained'
  <2> SUFFICES ASSUME NEW f \in FdOf(k), FileAt(f).kind = "conn", FileAt(f).id # from[k],
                      k \notin mixed
               PROVE  Dispossessed(k)
    BY DEF ConnReply, CrossTalkExplained, Dispossessed, serverVars, acceptVars, poolVars
  <2>1. k \in 1..conn_id /\ from[k] = k
    BY DEF Made, Places, ConnReply, Conns, TypeOK, NumbersOK
  <2>2. k \in freed \/ f = fd[k]
    BY DEF FdOf
  <2>3. Conn(k).id = k
    BY DEF Conn
  <2>4. QED
    BY <2>1, <2>2, <2>3 DEF Places, Dispossessed
<1>4. Made' /\ Phases' /\ Serves' /\ HasThread' /\ Listeners'
  BY DEF Made, Phases, Serves, HasThread, Listeners, ConnReply, serverVars, acceptVars,
     poolVars, FileAt
<1>5. QED
  BY <1>1, <1>2, <1>3, <1>4 DEF IInv

LEMMA ConnDropKeeps == ASSUME IInv, NEW k \in Conns, ConnDrop(k) PROVE IInv'
<1> USE Bounds DEF Bounds, IInv
<1> PICK f \in FdOf(k) : CloseAs(f, Conn(k))
  BY DEF ConnDrop
<1>0. ClosedWell
  <2>1. /\ UNCHANGED <<fd, freed>> /\ own \subseteq own' /\ k \in own'
        /\ \A j \in Conns : j \in own' \ own => j = k
    BY DEF ConnDrop, Places
  <2>2. \A j \in Conns : (j \in own' \ own => f \in FdOf(j)) /\ (Conn(k) = Conn(j) => j \in own')
    BY <2>1, FilesDiffer
  <2>3. QED
    BY <2>1, <2>2, CloseKeeps
<1>1. TypeOK'
  <2>1. FlowOK'
    BY DEF TypeOK, FlowOK, ConnDrop, serverVars, acceptVars, poolVars
  <2>2. NumbersOK'
    BY DEF TypeOK, NumbersOK, ConnDrop, serverVars, acceptVars, poolVars
  <2>3. TablesOK'
    BY <1>0 DEF TypeOK, TablesOK, ClosedWell, ConnDrop, serverVars, acceptVars, poolVars
  <2>4. SetsOK'
    BY <1>0 DEF TypeOK, SetsOK, ClosedWell, ConnDrop, serverVars, acceptVars, poolVars
  <2>5. QED
    BY <2>1, <2>2, <2>3, <2>4 DEF TypeOK
<1>2. Made'
  BY <1>0 DEF Made, ClosedWell, ConnDrop, serverVars, acceptVars, poolVars, TypeOK, NumbersOK,
     TablesOK, Conns
<1>3. Serves'
  BY CloseChanges, FilesDiffer DEF Serves, ConnDrop, serverVars, acceptVars, poolVars
<1>4. Listeners'
  BY <1>0, FilesDiffer DEF Listeners, ClosedWell, Phases, ConnDrop, serverVars, acceptVars,
     poolVars
<1>5. Places'
  BY <1>0 DEF Places, ClosedWell, ConnDrop, serverVars, acceptVars, poolVars, TypeOK, TablesOK
<1>6. CrossTalkExplained'
  BY <1>0 DEF CrossTalkExplained, ClosedWell, Dispossessed, ConnDrop, serverVars, acceptVars,
     poolVars
<1>7. Phases' /\ HasThread'
  BY DEF Phases, HasThread, ConnDrop, serverVars, acceptVars
<1>8. QED
  BY <1>1, <1>2, <1>3, <1>4, <1>5, <1>6, <1>7 DEF IInv

LEMMA ConnCloseKeeps == ASSUME IInv, NEW k \in Conns, ConnClose(k) PROVE IInv'
<1> USE Bounds DEF Bounds, IInv
<1> PICK f \in FdOf(k) : CloseAs(f, Conn(k))
  BY DEF ConnClose
<1>0. ClosedWell
  <2>1. /\ UNCHANGED <<fd, freed>> /\ own \subseteq own' /\ k \in own'
        /\ \A j \in Conns : j \in own' \ own => j = k
    BY DEF ConnClose, Places
  <2>2. \A j \in Conns : (j \in own' \ own => f \in FdOf(j)) /\ (Conn(k) = Conn(j) => j \in own')
    BY <2>1, FilesDiffer
  <2>3. QED
    BY <2>1, <2>2, CloseKeeps
<1>1. TypeOK'
  <2>1. FlowOK'
    BY DEF TypeOK, FlowOK, ConnClose, serverVars, acceptVars, poolVars
  <2>2. NumbersOK'
    BY DEF TypeOK, NumbersOK, ConnClose, serverVars, acceptVars, poolVars
  <2>3. TablesOK'
    BY <1>0 DEF TypeOK, TablesOK, ClosedWell, ConnClose, serverVars, acceptVars, poolVars
  <2>4. SetsOK'
    BY <1>0 DEF TypeOK, SetsOK, ClosedWell, ConnClose, serverVars, acceptVars, poolVars
  <2>5. QED
    BY <2>1, <2>2, <2>3, <2>4 DEF TypeOK
<1>2. Made'
  BY <1>0 DEF Made, ClosedWell, ConnClose, serverVars, acceptVars, poolVars, TypeOK, NumbersOK,
     TablesOK, Conns
<1>3. Serves'
  BY CloseChanges, FilesDiffer DEF Serves, ConnClose, serverVars, acceptVars, poolVars
<1>4. Listeners'
  BY <1>0, FilesDiffer DEF Listeners, ClosedWell, Phases, ConnClose, serverVars, acceptVars,
     poolVars
<1>5. Places'
  BY <1>0 DEF Places, ClosedWell, ConnClose, serverVars, acceptVars, poolVars, TypeOK, TablesOK
<1>6. CrossTalkExplained'
  BY <1>0 DEF CrossTalkExplained, ClosedWell, Dispossessed, ConnClose, serverVars, acceptVars,
     poolVars
<1>7. Phases' /\ HasThread'
  BY DEF Phases, HasThread, ConnClose, serverVars, acceptVars
<1>8. QED
  BY <1>1, <1>2, <1>3, <1>4, <1>5, <1>6, <1>7 DEF IInv

-----------------------------------------------------------------------------
\* So does every step, and a stutter.
LEMMA AcceptKeeps == ASSUME IInv, NEW n \in Runs, AcceptStep(n) PROVE IInv'
BY AcceptWaitKeeps, AcceptConnKeeps, AcceptAddKeeps, AcceptFailsKeeps, AcceptCleanKeeps,
   AcceptEndKeeps DEF AcceptStep

LEMMA ConnKeeps == ASSUME IInv, NEW k \in Conns, ConnStep(k) PROVE IInv'
BY ConnRecvKeeps, ConnRecvFailsKeeps, ConnReplyKeeps, ConnDropKeeps, ConnCloseKeeps
   DEF ConnStep

LEMMA NextKeeps == IInv /\ [Next]_vars => IInv'
<1> SUFFICES ASSUME IInv, [Next]_vars PROVE IInv'
  OBVIOUS
<1>1. CASE Next
  <2>1. CASE \E n \in Runs : AcceptStep(n)
    BY <2>1, AcceptKeeps
  <2>2. CASE \E k \in Conns : ConnStep(k)
    BY <2>2, ConnKeeps
  <2>3. CASE OwnerStep
    BY <2>3, StartThreadKeeps, StartRunningKeeps, DisposeJoinKeeps DEF OwnerStep
  <2>4. CASE StartOpen \/ StartNoSocket \/ Stop \/ DisposeStop
    BY <2>4, StartOpenKeeps, StartNoSocketKeeps, StopKeeps, DisposeStopKeeps
  <2>5. QED
    BY <1>1, <2>1, <2>2, <2>3, <2>4 DEF Next
<1>2. CASE UNCHANGED vars
  <2>1. TypeOK'
    BY <1>2 DEF IInv, TypeOK, FlowOK, NumbersOK, TablesOK, SetsOK, vars, serverVars, connVars,
       acceptVars, poolVars, histVars
  <2>2. QED
    BY <1>2, <2>1 DEF IInv, Made, Phases, Serves, HasThread, Listeners, Places, FileAt,
       CrossTalkExplained, Dispossessed, vars, serverVars, connVars, acceptVars, poolVars, histVars
<1>3. QED
  BY <1>1, <1>2

\* The inductive invariant holds in every reachable state.
THEOREM Invariance == Spec => []IInv
BY InitInv, NextKeeps, PTL DEF Spec

\* Every variable keeps its range.
THEOREM TypeCorrect == Spec => []TypeOK
<1>1. IInv => TypeOK
  BY DEF IInv
<1>2. QED
  BY <1>1, Invariance, PTL

\* A server that says it runs has its socket, unless a connection has closed it,
\* and a thread that accepts, unless that had ended before.
THEOREM RunningServed == Spec => []RunningIsServed
<1>1. IInv => RunningIsServed
  BY DEF IInv, RunningIsServed, Serves, HasThread, Phases
<1>2. QED
  BY <1>1, Invariance, PTL

\* A server that says it does not run holds no listening socket, but for the
\* failures and the race named.
THEOREM StoppedClosed == Spec => []StoppedIsClosed
<1>1. IInv => StoppedIsClosed
  <2> SUFFICES ASSUME IInv, ~running, owner = "idle", NEW f \in Fds, file[f].kind = "listen"
               PROVE  file[f].id \in failed \cup cleared
    BY DEF StoppedIsClosed
  <2>1. FileAt(f) = file[f]
    BY DEF FileAt
  <2>2. file[f].id \in Runs /\ file[f] = Listening(file[f].id)
    BY <2>1, ListenType DEF IInv
  <2>3. QED
    BY <2>2 DEF IInv, Listeners
<1>2. QED
  BY <1>1, Invariance, PTL

\* The socket of a connection is closed when its thread has ended, unless the
\* memory of the connection was freed before.
THEOREM SocketsClosed == Spec => []NoSocketLeft
<1>1. IInv => NoSocketLeft
  BY DEF IInv, Places, NoSocketLeft
<1>2. QED
  BY <1>1, Invariance, PTL

\* Only a thread that has lost its socket takes a request from another, or
\* answers to another.
THEOREM CrossTalk == Spec => []CrossTalkExplained
<1>1. IInv => CrossTalkExplained
  BY DEF IInv
<1>2. QED
  BY <1>1, Invariance, PTL
=============================================================================
