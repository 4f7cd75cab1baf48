-------------------------- MODULE UpnpRuntimeProofs --------------------------
(***************************************************************************)
(* Starting, stopping and deleting a runtime, for any number of requests   *)
(* and calls.                                                              *)
(***************************************************************************)
EXTENDS UpnpRuntime, TLAPS

USE KindOfKinds, MaxCallsNat, ReentrantBoolean

Disposing ==
  {"disposeRegistry", "disposeHost", "clearHook", "clearContext", "clearLink",
   "disposeProvider", "disposeServer", "joinAccept", "disposed"}

Switches ==
  /\ server \in BOOLEAN /\ worker \in BOOLEAN /\ registry \in BOOLEAN /\ listed \in BOOLEAN
  /\ provider \in BOOLEAN /\ partial \in BOOLEAN /\ busy \in BOOLEAN
  /\ result \in {"none", "OK", "failed"}
  /\ owner \in Disposing \cup {"idle", "setRunning", "startHost", "startRegistry", "joinSsdp",
                               "stopHost", "stopServer"}

ConnPlaces == {"none", "receive", "call", "enter", "wait", "serve", "reenter", "write", "stuck",
               "closed", "fault"}

Hooks ==
  /\ hook \in [Kinds -> BOOLEAN] /\ context \in [Kinds -> BOOLEAN] /\ link \in [Kinds -> BOOLEAN]
  /\ search \in {"none", "idle", "wait"}
  /\ lock \in {"free", "owner"} \cup Conns
  /\ conn \in [Conns -> ConnPlaces]

AcceptPlaces == {"none", "accept", "end", "done", "fault"} \cup Conns

Net ==
  /\ calls \in 0..MaxCalls /\ runs \in 0..calls /\ sockets \subseteq Runs
  /\ acceptor \in [Runs -> AcceptPlaces]

LEMMA TypeParts == TypeOK <=> Switches /\ Hooks /\ Net
BY DEF TypeOK, Switches, Hooks, Net, Disposing, ConnPlaces, AcceptPlaces

LEMMA TypeInit == Init => TypeOK
<1> SUFFICES ASSUME Init PROVE TypeOK
  OBVIOUS
<1>1. Switches
  BY DEF Init, Switches
<1>2. [k \in Kinds |-> TRUE] \in [Kinds -> BOOLEAN]
  OBVIOUS
<1>3. hook \in [Kinds -> BOOLEAN] /\ context \in [Kinds -> BOOLEAN] /\ link \in [Kinds -> BOOLEAN]
  BY <1>2, Zenon DEF Init
<1>4. search = "none" /\ lock = "free"
  BY DEF Init
<1>5. conn \in [Conns -> ConnPlaces]
  BY DEF Init, ConnPlaces
<1>6. Net
  BY DEF Init, Net, AcceptPlaces
<1> QED BY <1>1, <1>3, <1>4, <1>5, <1>6, TypeParts DEF Hooks

\* What a step of a connection leaves alone.
LEMMA ConnLeavesOwner ==
  ASSUME NEW c \in Conns, ConnStep(c)
  PROVE  UNCHANGED <<parts, net, search, hooks, provider, calling>>
BY DEF ConnStep, Hangup, Test, Invoke, Enter, Acquire, Reenter, Serve, WriteBlocks, WriteGoesOn,
       Written, Use, Advance

\* What a step of an accept thread leaves alone: it may clear running.
LEMMA AcceptLeavesOwner ==
  ASSUME NEW n \in Runs, AcceptStep(n)
  PROVE  /\ UNCHANGED <<worker, registry, listed, runs, sockets, search, lock, hooks, provider,
                        calling>>
         /\ server' \in {server, FALSE}
BY DEF AcceptStep, AcceptReturns, Accept, AcceptFails, AcceptEnds, Accepts

LEMMA SwitchesStep == TypeOK /\ [Next]_vars => Switches'
<1> SUFFICES ASSUME TypeOK, [Next]_vars PROVE Switches'
  OBVIOUS
<1> Switches
  BY TypeParts
<1> USE DEF Switches, Disposing, parts, hooks, calling, Call, Return, Goto
<1>1. CASE StartServer \/ SetRunning \/ StartHost
  <2>1. CASE StartServer
    BY <2>1 DEF StartServer
  <2>2. CASE SetRunning
    BY <2>2 DEF SetRunning
  <2>3. CASE StartHost
    BY <2>3 DEF StartHost
  <2> QED BY <1>1, <2>1, <2>2, <2>3
<1>2. CASE StartRegistry
  <2>1. UNCHANGED <<server, worker, provider, busy>> /\ listed' \in BOOLEAN
    BY <1>2 DEF StartRegistry
  <2>2. registry' \in BOOLEAN /\ partial' \in BOOLEAN
    BY <1>2 DEF StartRegistry
  <2>3. result' \in {"OK", "failed"} /\ owner' = "idle"
    BY <1>2 DEF StartRegistry
  <2> QED BY <2>1, <2>2, <2>3
<1>3. CASE StopRegistry \/ StopJoin
  BY <1>3 DEF StopRegistry, StopJoin
<1>4. CASE StopHost \/ StopServer
  <2>1. CASE StopHost
    BY <2>1 DEF StopHost
  <2>2. CASE StopServer
    BY <2>2 DEF StopServer, CloseListening
  <2> QED BY <1>4, <2>1, <2>2
<1>5. CASE DisposeBegin \/ DisposeRegistry \/ DisposeHost
  BY <1>5 DEF DisposeBegin, DisposeRegistry, DisposeHost
<1>6. CASE ClearHook \/ ClearContext \/ ClearLink
  BY <1>6 DEF ClearHook, ClearContext, ClearLink
<1>7. CASE DisposeProvider \/ DisposeServer \/ DisposeJoin
  <2>1. CASE DisposeProvider \/ DisposeJoin
    BY <2>1 DEF DisposeProvider, DisposeJoin
  <2>2. CASE DisposeServer
    BY <2>2 DEF DisposeServer, CloseListening
  <2> QED BY <1>7, <2>1, <2>2
<1>8. CASE SearchArrives \/ SearchAnswered
  <2>1. UNCHANGED <<server, worker, registry, listed, provider, partial, busy, result, owner>>
    BY <1>8 DEF SearchArrives, SearchAnswered
  <2> QED BY <2>1
<1>9. ASSUME NEW n \in Runs, AcceptStep(n) PROVE Switches'
  <2>1. UNCHANGED <<worker, registry, listed, provider, partial, busy, result, owner>>
    BY <1>9, AcceptLeavesOwner
  <2>2. server' = server \/ server' = FALSE
    BY <1>9, AcceptLeavesOwner
  <2>3. server' \in BOOLEAN
    BY <2>2
  <2> QED BY <2>1, <2>3
<1>10. ASSUME NEW c \in Conns, ConnStep(c) PROVE Switches'
  BY <1>10, ConnLeavesOwner
<1>11. CASE UNCHANGED vars
  BY <1>11 DEF vars
<1> QED BY <1>1, <1>2, <1>3, <1>4, <1>5, <1>6, <1>7, <1>8, <1>9, <1>10, <1>11 DEF Next, OwnerStep

LEMMA HooksStep == TypeOK /\ [Next]_vars => Hooks'
<1> SUFFICES ASSUME TypeOK, [Next]_vars PROVE Hooks'
  OBVIOUS
<1> Hooks
  BY TypeParts
<1> USE DEF Hooks, parts, hooks, calling, Call, Return, Goto
<1>1. CASE StartServer \/ SetRunning \/ StartHost \/ StartRegistry
  <2>1. CASE StartServer \/ SetRunning
    BY <2>1 DEF StartServer, SetRunning
  <2>2. CASE StartHost
    BY <2>2 DEF StartHost
  <2>3. CASE StartRegistry
    BY <2>3 DEF StartRegistry
  <2> QED BY <1>1, <2>1, <2>2, <2>3
<1>2. CASE StopRegistry \/ StopJoin \/ StopHost \/ StopServer
  BY <1>2 DEF StopRegistry, StopJoin, StopHost, StopServer
<1>3. CASE \/ DisposeBegin \/ DisposeRegistry \/ DisposeHost \/ DisposeProvider
           \/ DisposeServer \/ DisposeJoin
  BY <1>3 DEF DisposeBegin, DisposeRegistry, DisposeHost, DisposeProvider, DisposeServer,
              DisposeJoin
<1>4. CASE ClearHook \/ ClearContext \/ ClearLink
  BY <1>4 DEF ClearHook, ClearContext, ClearLink
<1>5. CASE SearchArrives \/ SearchAnswered
  BY <1>5 DEF SearchArrives, SearchAnswered
<1>6. ASSUME NEW n \in Runs, AcceptStep(n) PROVE Hooks'
  <2>1. UNCHANGED <<search, lock, hooks>>
    BY <1>6, AcceptLeavesOwner
  <2>2. conn' \in [Conns -> ConnPlaces]
    BY <1>6 DEF AcceptStep, AcceptReturns, Accept, AcceptFails, AcceptEnds, ConnPlaces
  <2> QED BY <2>1, <2>2
<1>7. ASSUME NEW c \in Conns, ConnStep(c) PROVE Hooks'
  <2>1. UNCHANGED <<search, hooks>>
    BY <1>7, ConnLeavesOwner
  <2>2. lock' \in {"free", "owner"} \cup Conns
    BY <1>7 DEF ConnStep, Hangup, Test, Invoke, Enter, Acquire, Reenter, Serve, WriteBlocks,
                WriteGoesOn, Written
  <2>3. conn' \in [Conns -> ConnPlaces]
    BY <1>7 DEF ConnStep, Hangup, Test, Invoke, Enter, Acquire, Reenter, Serve, WriteBlocks,
                WriteGoesOn, Written, Use, Advance, ConnPlaces
  <2> QED BY <2>1, <2>2, <2>3
<1>8. CASE UNCHANGED vars
  BY <1>8 DEF vars
<1> QED BY <1>1, <1>2, <1>3, <1>4, <1>5, <1>6, <1>7, <1>8 DEF Next, OwnerStep

\* A start of the server is one of the calls that were made, hence one of Runs.
LEMMA NetStep == TypeOK /\ [Next]_vars => Net'
<1> SUFFICES ASSUME TypeOK, [Next]_vars PROVE Net'
  OBVIOUS
<1> Net
  BY TypeParts
<1> USE DEF Net, Runs, AcceptPlaces, net, calling
<1>1. CASE StartServer
  <2>1. calls' = calls + 1 /\ calls < MaxCalls
    BY <1>1 DEF StartServer, Call
  <2>2. CASE UNCHANGED net
    BY <2>1, <2>2
  <2>3. CASE runs' = runs + 1 /\ sockets' = sockets \cup {runs + 1}
             /\ acceptor' = [acceptor EXCEPT ![runs + 1] = "accept"]
    BY <2>1, <2>3
  <2> QED BY <1>1, <2>2, <2>3 DEF StartServer
<1>2. CASE SetRunning \/ StartHost \/ StartRegistry
  BY <1>2 DEF SetRunning, StartHost, StartRegistry
<1>3. CASE StopRegistry
  BY <1>3 DEF StopRegistry, Call
<1>4. CASE StopJoin \/ StopHost
  BY <1>4 DEF StopJoin, StopHost
<1>5. CASE StopServer \/ DisposeServer
  <2>1. UNCHANGED <<runs, acceptor, calls>> /\ sockets' \subseteq sockets
    BY <1>5 DEF StopServer, DisposeServer, CloseListening
  <2> QED BY <2>1
<1>6. CASE DisposeBegin \/ DisposeRegistry \/ DisposeHost \/ DisposeProvider \/ DisposeJoin
  BY <1>6 DEF DisposeBegin, DisposeRegistry, DisposeHost, DisposeProvider, DisposeJoin
<1>7. CASE ClearHook \/ ClearContext \/ ClearLink
  BY <1>7 DEF ClearHook, ClearContext, ClearLink
<1>8. CASE SearchArrives \/ SearchAnswered
  BY <1>8 DEF SearchArrives, SearchAnswered
<1>9. ASSUME NEW n \in Runs, AcceptStep(n) PROVE Net'
  <2>1. UNCHANGED <<runs, sockets, calls>>
    BY <1>9, AcceptLeavesOwner
  <2>2. acceptor' \in [Runs -> AcceptPlaces]
    BY <1>9 DEF AcceptStep, AcceptReturns, Accept, AcceptFails, AcceptEnds, Accepts
  <2> QED BY <2>1, <2>2
<1>10. ASSUME NEW c \in Conns, ConnStep(c) PROVE Net'
  BY <1>10, ConnLeavesOwner
<1>11. CASE UNCHANGED vars
  BY <1>11 DEF vars
<1> QED BY <1>1, <1>2, <1>3, <1>4, <1>5, <1>6, <1>7, <1>8, <1>9, <1>10, <1>11 DEF Next, OwnerStep

LEMMA TypeStep == TypeOK /\ [Next]_vars => TypeOK'
<1>1. TypeOK' <=> Switches' /\ Hooks' /\ Net'
  BY TypeParts, PTL
<1> QED BY <1>1, SwitchesStep, HooksStep, NetStep

\* The variables of the runtime have their types.
THEOREM TypeCorrect == Spec => []TypeOK
BY TypeInit, TypeStep, PTL DEF Spec

-----------------------------------------------------------------------------
\* Until Dispose everything that a connection uses is there; Dispose takes it
\* away, and finds nobody who could use it unless the runtime was busy: no
\* request, and no accept thread that could still make one.
Served ==
  /\ owner \notin Disposing =>
       /\ provider /\ ~busy
       /\ \A k \in Kinds : hook[k] /\ context[k] /\ link[k]
       /\ ~Faults
  /\ (owner \in Disposing /\ ~busy) =>
       /\ \A n \in Runs : acceptor[n] \in Ended
       /\ \A c \in Conns : conn[c] \in Idle

FaultInv == TypeOK /\ Served

LEMMA FaultInit == Init => FaultInv
BY TypeInit, ConnsApart DEF Init, FaultInv, Served, Disposing, Faults

\* The steps that the threads of the network take no part in.
LEMMA OwnerServed ==
  ASSUME FaultInv, UNCHANGED <<acceptor, conn, provider, hooks, busy>>,
         owner' \in Disposing <=> owner \in Disposing
  PROVE  Served'
BY DEF FaultInv, Served, Disposing, hooks, Faults, Ended, Idle

LEMMA FaultStep == FaultInv /\ [Next]_vars => FaultInv'
<1> SUFFICES ASSUME FaultInv, [Next]_vars PROVE Served'
  BY TypeStep DEF FaultInv
<1> USE DEF FaultInv, parts, hooks, calling, net
<1> Switches /\ Hooks /\ Net
  BY TypeParts
<1>1. CASE StartServer
  <2>1. owner \notin Disposing /\ owner' \notin Disposing
    BY <1>1 DEF StartServer, Call, Return, Disposing
  <2>2. UNCHANGED <<hook, context, link, provider, conn, busy>>
    BY <1>1 DEF StartServer
  <2>3. \/ acceptor' = acceptor
        \/ acceptor' = [acceptor EXCEPT ![runs + 1] = "accept"]
    BY <1>1 DEF StartServer
  <2>4. acceptor \in [Runs -> AcceptPlaces]
    BY DEF Net
  <2>5. ~Faults
    BY <2>1 DEF Served
  <2>6. ~Faults'
    BY <2>2, <2>3, <2>4, <2>5 DEF Faults
  <2> QED BY <2>1, <2>2, <2>6 DEF Served
<1>2. CASE SetRunning \/ StartHost \/ StartRegistry
  <2>1. owner \notin Disposing /\ owner' \notin Disposing
    BY <1>2 DEF SetRunning, StartHost, StartRegistry, Return, Goto, Disposing
  <2>2. UNCHANGED <<acceptor, conn, provider, hooks, busy>>
    BY <1>2 DEF SetRunning, StartHost, StartRegistry
  <2> QED BY <2>1, <2>2, OwnerServed
<1>3. CASE StopRegistry \/ StopJoin \/ StopHost \/ StopServer
  <2>1. owner \notin Disposing /\ owner' \notin Disposing
    BY <1>3 DEF StopRegistry, StopJoin, StopHost, StopServer, Call, Return, Goto, Disposing
  <2>2. UNCHANGED <<acceptor, conn, provider, hooks, busy>>
    BY <1>3 DEF StopRegistry, StopJoin, StopHost, StopServer
  <2> QED BY <2>1, <2>2, OwnerServed
<1>4. CASE DisposeBegin
  <2>1. owner' \in Disposing
    BY <1>4 DEF DisposeBegin, Goto, Disposing
  <2>2. ~busy' => /\ \A n \in Runs : acceptor[n] \in Ended
                  /\ \A c \in Conns : conn[c] \in Idle
    BY <1>4 DEF DisposeBegin
  <2>3. UNCHANGED <<acceptor, conn>>
    BY <1>4 DEF DisposeBegin
  <2> QED BY <2>1, <2>2, <2>3 DEF Served
<1>5. CASE \/ DisposeRegistry \/ DisposeHost \/ ClearHook \/ ClearContext \/ ClearLink
           \/ DisposeProvider \/ DisposeServer \/ DisposeJoin
  <2>1. owner \in Disposing /\ owner' \in Disposing
    BY <1>5 DEF DisposeRegistry, DisposeHost, ClearHook, ClearContext, ClearLink,
                DisposeProvider, DisposeServer, DisposeJoin, Goto, Disposing
  <2>2. UNCHANGED <<acceptor, conn, busy>>
    BY <1>5 DEF DisposeRegistry, DisposeHost, ClearHook, ClearContext, ClearLink,
                DisposeProvider, DisposeServer, DisposeJoin
  <2> QED BY <2>1, <2>2 DEF Served
<1>6. CASE SearchArrives \/ SearchAnswered
  <2>1. UNCHANGED <<owner, acceptor, conn, provider, hooks, busy>>
    BY <1>6 DEF SearchArrives, SearchAnswered
  <2> QED BY <2>1, OwnerServed
<1>7. ASSUME NEW n \in Runs, AcceptStep(n) PROVE Served'
  <2>1. UNCHANGED <<hooks, provider, calling>>
    BY <1>7, AcceptLeavesOwner
  <2>2. CASE owner \notin Disposing
    <3>1. ~Freed
      BY <2>2 DEF Freed, Disposing
    <3>2. \E to \in Conns \cup {"accept", "end", "done"} :
            acceptor' = [acceptor EXCEPT ![n] = to]
      BY <1>7, <3>1 DEF AcceptStep, AcceptReturns, Accept, AcceptFails, AcceptEnds, Accepts
    <3>3. conn' = conn \/ \E c \in Conns : conn' = [conn EXCEPT ![c] = "receive"]
      BY <1>7, <3>1 DEF AcceptStep, AcceptReturns, Accept, AcceptFails, AcceptEnds
    <3>4. ~Faults
      BY <2>2 DEF Served
    <3>5. \A m \in Runs : acceptor'[m] # "fault"
      BY <3>2, <3>4, ConnsApart DEF Faults, Net
    <3>6. \A b \in Conns : conn'[b] # "fault"
      BY <3>3, <3>4 DEF Faults, Hooks
    <3> QED BY <2>1, <2>2, <3>5, <3>6 DEF Served, Faults
  <2>3. CASE owner \in Disposing /\ ~busy
    <3>1. acceptor[n] \in {"none", "done"}
      BY <2>3 DEF Served, Ended
    <3>2. FALSE
      BY <1>7, <3>1, ConnsApart DEF AcceptStep, AcceptReturns, Accept, AcceptFails, AcceptEnds
    <3> QED BY <3>2
  <2>4. CASE owner \in Disposing /\ busy
    BY <2>1, <2>4 DEF Served
  <2> QED BY <2>2, <2>3, <2>4
<1>8. ASSUME NEW c \in Conns, ConnStep(c) PROVE Served'
  <2>1. UNCHANGED <<net, hooks, provider, calling>>
    BY <1>8, ConnLeavesOwner
  <2>2. CASE owner \notin Disposing
    <3>1. KindOf[c] \in Kinds
      OBVIOUS
    <3>2. hook[KindOf[c]] = TRUE /\ context[KindOf[c]] = TRUE /\ link[KindOf[c]] = TRUE
          /\ provider = TRUE /\ ~Freed
      BY <2>2, <3>1 DEF Served, Hooks, Switches, Freed, Disposing
    <3>3. \E to \in ConnPlaces \ {"fault"} : conn' = [conn EXCEPT ![c] = to]
      <4>1. CASE Hangup(c) \/ Test(c) \/ Reenter(c)
        BY <3>2, <4>1 DEF Hangup, Test, Reenter, Use, Advance, ConnPlaces
      <4>2. CASE Invoke(c) \/ Enter(c)
        BY <3>2, <4>2 DEF Invoke, Enter, Use, Advance, ConnPlaces
      <4>3. CASE Acquire(c) \/ Written(c)
        BY <3>2, <4>3 DEF Acquire, Written, Use, Advance, ConnPlaces
      <4>4. CASE Serve(c) \/ WriteBlocks(c) \/ WriteGoesOn(c)
        BY <4>4 DEF Serve, WriteBlocks, WriteGoesOn, Advance, ConnPlaces
      <4> QED BY <1>8, <4>1, <4>2, <4>3, <4>4 DEF ConnStep
    <3>4. ~Faults
      BY <2>2 DEF Served
    <3>5. \A b \in Conns : conn'[b] # "fault"
      BY <3>3, <3>4 DEF Faults, Hooks
    <3>6. ~Faults'
      BY <2>1, <3>4, <3>5 DEF Faults
    <3> QED BY <2>1, <2>2, <3>6 DEF Served
  <2>3. CASE owner \in Disposing /\ ~busy
    <3>1. conn[c] \in Idle
      BY <2>3 DEF Served
    <3>2. FALSE
      BY <1>8, <3>1 DEF ConnStep, Hangup, Test, Invoke, Enter, Acquire, Reenter, Serve,
                        WriteBlocks, WriteGoesOn, Written, Use, Advance, Idle
    <3> QED BY <3>2
  <2>4. CASE owner \in Disposing /\ busy
    BY <2>1, <2>4 DEF Served
  <2> QED BY <2>2, <2>3, <2>4
<1>9. CASE UNCHANGED vars
  <2>1. UNCHANGED <<owner, acceptor, conn, provider, hooks, busy>>
    BY <1>9 DEF vars
  <2> QED BY <2>1, OwnerServed
<1> QED BY <1>1, <1>2, <1>3, <1>4, <1>5, <1>6, <1>7, <1>8, <1>9 DEF Next, OwnerStep

\* A runtime none of whose requests is under way and all of whose accept threads
\* have ended can be deleted (UpnpRuntime.c:135-145, UpnpHttpServer.c:235-431,
\* TcpServer.c:80-89).
THEOREM FaultsOnlyWhenBusy == Spec => []FaultOnlyWhenBusy
<1>1. FaultInv => FaultOnlyWhenBusy
  <2> SUFFICES ASSUME FaultInv, Faults PROVE busy
    BY DEF FaultOnlyWhenBusy
  <2>1. owner \in Disposing
    BY DEF FaultInv, Served
  <2>2. CASE \E c \in Conns : conn[c] = "fault"
    BY <2>1, <2>2 DEF FaultInv, Served, Idle
  <2>3. CASE \E n \in Runs : acceptor[n] = "fault"
    BY <2>1, <2>3 DEF FaultInv, Served, Ended
  <2> QED BY <2>2, <2>3 DEF Faults
<1> QED BY <1>1, FaultInit, FaultStep, PTL DEF Spec

-----------------------------------------------------------------------------
\* Which parts run at each step of Start and Stop.
WayOK ==
  /\ partial =>
       /\ owner \in {"idle", "setRunning", "startHost"} \cup Disposing
       /\ owner \in {"idle", "setRunning", "startHost"} => worker /\ ~registry
       /\ owner = "idle" => result = "failed"
  /\ ~partial =>
       /\ owner \in {"idle", "setRunning", "startHost"} => (worker <=> registry)
       /\ owner \in {"startRegistry", "stopHost"} => worker /\ ~registry
       /\ owner = "joinSsdp" => worker /\ registry
       /\ owner = "stopServer" => ~worker /\ ~registry
       /\ (owner = "idle" /\ result = "OK" /\ ~registry) => ~server

WayInv == TypeOK /\ WayOK

LEMMA WayInit == Init => WayInv
BY TypeInit DEF Init, WayInv, WayOK

LEMMA WayStep == WayInv /\ [Next]_vars => WayInv'
<1> SUFFICES ASSUME WayInv, [Next]_vars PROVE WayOK'
  BY TypeStep DEF WayInv
<1> Switches
  BY TypeParts DEF WayInv
<1> USE DEF WayInv, WayOK, Disposing, Switches, parts, hooks, calling, Call, Return, Goto
<1>1. CASE StartServer \/ SetRunning
  BY <1>1 DEF StartServer, SetRunning
<1>2. CASE StartHost
  BY <1>2 DEF StartHost
<1>3. CASE StartRegistry
  <2>1. ~partial /\ worker /\ ~registry /\ owner' = "idle" /\ worker' = worker
    BY <1>3 DEF StartRegistry
  <2>2. \/ registry' = TRUE /\ result' = "OK" /\ partial' = partial
        \/ registry' = registry /\ result' = "failed" /\ partial' = TRUE
    BY <1>3 DEF StartRegistry
  <2>3. CASE registry' = TRUE /\ result' = "OK" /\ partial' = partial
    BY <2>1, <2>3
  <2>4. CASE registry' = registry /\ result' = "failed" /\ partial' = TRUE
    BY <2>1, <2>4
  <2> QED BY <2>2, <2>3, <2>4
<1>4. CASE StopRegistry
  BY <1>4 DEF StopRegistry
<1>5. CASE StopJoin
  BY <1>5 DEF StopJoin
<1>6. CASE StopHost
  BY <1>6 DEF StopHost
<1>7. CASE StopServer
  BY <1>7 DEF StopServer, CloseListening
<1>8. CASE DisposeBegin \/ DisposeRegistry \/ DisposeHost
  BY <1>8 DEF DisposeBegin, DisposeRegistry, DisposeHost
<1>9. CASE \/ ClearHook \/ ClearContext \/ ClearLink \/ DisposeProvider \/ DisposeServer
           \/ DisposeJoin
  BY <1>9 DEF ClearHook, ClearContext, ClearLink, DisposeProvider, DisposeServer, DisposeJoin,
              CloseListening
<1>10. CASE SearchArrives \/ SearchAnswered
  BY <1>10 DEF SearchArrives, SearchAnswered
<1>11. ASSUME NEW c \in Conns, ConnStep(c) PROVE WayOK'
  BY <1>11, ConnLeavesOwner
<1>12. ASSUME NEW n \in Runs, AcceptStep(n) PROVE WayOK'
  BY <1>12, AcceptLeavesOwner
<1>13. CASE UNCHANGED vars
  BY <1>13 DEF vars
<1> QED BY <1>1, <1>2, <1>3, <1>4, <1>5, <1>6, <1>7, <1>8, <1>9, <1>10, <1>11, <1>12, <1>13
        DEF Next, OwnerStep

\* A Start that fails in the registry leaves no way back; otherwise what Stop
\* has stopped is what Start has started (UpnpRuntime.c:155-219).
THEOREM ThereIsNoWayBack == Spec => []NoWayBack
<1>1. WayInv => NoWayBack
  BY DEF WayInv, WayOK, NoWayBack
<1> QED BY <1>1, WayInit, WayStep, PTL DEF Spec
=============================================================================
