---------------------------- MODULE UpnpProvider ----------------------------
(***************************************************************************)
(* UpnpStack/UpnpProvider: the devices of this host, their action handlers *)
(* and the observers that are told about them.                             *)
(*                                                                         *)
(* Register, Unregister, AddObserver and RemoveObserver run under the      *)
(* provider's mutex.  UpnpService_SendEvents does not take it: it tests    *)
(* the service's listener and calls it, and onServiceChanged then walks    *)
(* the observers by index while they may be changing.                      *)
(*                                                                         *)
(* There are two observers in this program: the GENA server, attached by   *)
(* its constructor before any thread runs, which listens to events, and    *)
(* the registry, attached by every UpnpRegistry_Start and detached by      *)
(* every Stop, which is told of devices.  A device stands for one service. *)
(***************************************************************************)
EXTENDS Integers

CONSTANTS
  Devices,
  Threads,      \* threads that register, unregister, attach and send events
  Registries,   \* the UpnpObserver objects that the Starts of the registry make
  Gena,         \* the UpnpObserver object of the GENA server
  None          \* no thread, no observer or no device

ASSUME Distinct ==
  /\ None \notin Devices \cup Threads \cup Registries
  /\ Gena \notin Registries \cup {None}

VARIABLES
  lock,         \* mutex: the thread that holds it
  devices,      \* keys of devices
  handlers,     \* keys of handlers
  attached,     \* the observer named "Registry", linked after Gena in observers
  size,         \* observers.list.size
  listener,     \* listener[d]: changedListener # NULL
  listenerCtx,  \* listenerCtx[d]: changedCtx # NULL
  pc,           \* pc[t]: where thread t is
  dev,          \* dev[t]: the device it works on
  count, index, \* the locals of onServiceChanged; index starts at 1 here
  observer,     \* the pointer onServiceChanged got from the map
  (* history *)
  made,         \* the objects of Registries made so far
  failed,       \* <<r, d>>: UpnpProvider_Add of d ran out of memory, r not told
  balance,      \* balance[r][d]: calls of OnDeviceAdded minus OnDeviceRemoved
  disturbed,    \* disturbed[t]: Stop or (un)registering hit the event t sends
  delivered     \* delivered[t]: times Gena was given the event t sends

sharedVars == <<devices, handlers, attached, size, listener, listenerCtx>>
eventVars  == <<count, index, observer, delivered>>
histVars   == <<made, failed, balance>>
vars == <<lock, sharedVars, pc, dev, eventVars, histVars, disturbed>>

Init ==
  /\ lock = None /\ devices = {} /\ handlers = {} /\ attached = None /\ size = 1
  /\ listener = [d \in Devices |-> FALSE] /\ listenerCtx = [d \in Devices |-> FALSE]
  /\ pc = [t \in Threads |-> "idle"] /\ dev = [t \in Threads |-> None]
  /\ count = [t \in Threads |-> 0] /\ index = [t \in Threads |-> 1]
  /\ observer = [t \in Threads |-> None]
  /\ made = {} /\ failed = {}
  /\ balance = [r \in Registries |-> [d \in Devices |-> 0]]
  /\ disturbed = [t \in Threads |-> FALSE] /\ delivered = [t \in Threads |-> 0]

InEvent(t) == pc[t] \in {"changed", "loop", "deliver", "fault"}

\* Marks the threads that are sending an event of one of these devices.
Disturb(ds) ==
  disturbed' = [t \in Threads |-> disturbed[t] \/ (InEvent(t) /\ dev[t] \in ds)]

Tell(r, ds, k) ==
  balance' = IF r = None THEN balance
             ELSE [balance EXCEPT ![r] =
                    [d \in Devices |-> IF d \in ds THEN @[d] + k ELSE @[d]]]

-----------------------------------------------------------------------------
(* UpnpRuntime_Register -> UpnpProvider_Add.  A device that is registered  *)
(* already is refused (E_ITEM_EXIST) and nothing changes.                  *)

AddInsert(t, d) ==
  /\ pc[t] = "idle" /\ lock = None /\ d \notin devices
  /\ devices' = devices \cup {d}
  /\ handlers' = handlers \cup {d}
  /\ Tell(attached, {d}, 1)
  /\ lock' = t /\ pc' = [pc EXCEPT ![t] = "addListener"] /\ dev' = [dev EXCEPT ![t] = d]
  /\ UNCHANGED <<attached, size, listener, listenerCtx, eventVars, made, failed, disturbed>>

\* No memory for the handler context: the device stays in the map.  (Bound:
\* once for each device.)
AddFails(t, d) ==
  /\ pc[t] = "idle" /\ lock = None /\ d \notin devices
  /\ \A r \in Registries \cup {None} : <<r, d>> \notin failed
  /\ devices' = devices \cup {d}
  /\ failed' = failed \cup {<<attached, d>>}
  /\ UNCHANGED <<lock, handlers, attached, size, listener, listenerCtx, pc, dev, eventVars,
                 made, balance, disturbed>>

AddListener(t) ==
  /\ pc[t] = "addListener"
  /\ listener' = [listener EXCEPT ![dev[t]] = TRUE]
  /\ pc' = [pc EXCEPT ![t] = "addCtx"]
  /\ UNCHANGED <<lock, devices, handlers, attached, size, listenerCtx, dev, eventVars,
                 histVars, disturbed>>

AddCtx(t) ==
  /\ pc[t] = "addCtx"
  /\ listenerCtx' = [listenerCtx EXCEPT ![dev[t]] = TRUE]
  /\ Disturb({dev[t]})
  /\ lock' = None /\ pc' = [pc EXCEPT ![t] = "idle"] /\ dev' = [dev EXCEPT ![t] = None]
  /\ UNCHANGED <<devices, handlers, attached, size, listener, eventVars, histVars>>

-----------------------------------------------------------------------------
(* UpnpRuntime_Unregister -> UpnpProvider_Remove.                          *)

\* Mutant: the service keeps its listener.
RemoveNotify_KeepListener(t, d) ==
  /\ pc[t] = "idle" /\ lock = None /\ d \in devices
  /\ Tell(attached, {d}, -1)
  /\ lock' = t /\ pc' = [pc EXCEPT ![t] = "removeCtx"] /\ dev' = [dev EXCEPT ![t] = d]
  /\ UNCHANGED <<sharedVars, eventVars, made, failed, disturbed>>

RemoveNotify(t, d) ==
  /\ pc[t] = "idle" /\ lock = None /\ d \in devices
  /\ Tell(attached, {d}, -1)
  /\ listener' = [listener EXCEPT ![d] = FALSE]
  /\ Disturb({d})
  /\ lock' = t /\ pc' = [pc EXCEPT ![t] = "removeCtx"] /\ dev' = [dev EXCEPT ![t] = d]
  /\ UNCHANGED <<devices, handlers, attached, size, listenerCtx, eventVars, made, failed>>

RemoveErase(t) ==
  /\ pc[t] = "removeCtx"
  /\ listenerCtx' = [listenerCtx EXCEPT ![dev[t]] = FALSE]
  /\ devices' = devices \ {dev[t]}
  /\ handlers' = handlers \ {dev[t]}
  /\ lock' = None /\ pc' = [pc EXCEPT ![t] = "idle"] /\ dev' = [dev EXCEPT ![t] = None]
  /\ UNCHANGED <<attached, size, listener, eventVars, histVars, disturbed>>

-----------------------------------------------------------------------------
(* AddObserver and RemoveObserver, as UpnpRegistry_Start and Stop call     *)
(* them.  A second observer of the same name is refused.  The list counts  *)
(* a node before it is linked, and still after it is unlinked.             *)

AttachCount(t) ==
  /\ pc[t] = "idle" /\ lock = None /\ attached = None /\ made # Registries
  /\ size' = size + 1
  /\ Disturb(Devices)
  /\ lock' = t /\ pc' = [pc EXCEPT ![t] = "attachLink"]
  /\ UNCHANGED <<devices, handlers, attached, listener, listenerCtx, dev, eventVars, histVars>>

AttachLink(t, r) ==
  /\ pc[t] = "attachLink" /\ r \notin made
  /\ attached' = r
  /\ made' = made \cup {r}
  /\ Tell(r, devices, 1)
  /\ lock' = None /\ pc' = [pc EXCEPT ![t] = "idle"]
  /\ UNCHANGED <<devices, handlers, size, listener, listenerCtx, dev, eventVars, failed, disturbed>>

\* Mutant: the observer is erased and not told.
DetachUnlink_Silent(t) ==
  /\ pc[t] = "idle" /\ lock = None /\ attached # None
  /\ attached' = None
  /\ Disturb(Devices)
  /\ lock' = t /\ pc' = [pc EXCEPT ![t] = "detachCount"]
  /\ UNCHANGED <<devices, handlers, size, listener, listenerCtx, dev, eventVars, histVars>>

DetachUnlink(t) ==
  /\ pc[t] = "idle" /\ lock = None /\ attached # None
  /\ Tell(attached, devices, -1)
  /\ attached' = None
  /\ Disturb(Devices)
  /\ lock' = t /\ pc' = [pc EXCEPT ![t] = "detachCount"]
  /\ UNCHANGED <<devices, handlers, size, listener, listenerCtx, dev, eventVars, made, failed>>

DetachCount(t) ==
  /\ pc[t] = "detachCount"
  /\ size' = size - 1
  /\ lock' = None /\ pc' = [pc EXCEPT ![t] = "idle"]
  /\ UNCHANGED <<devices, handlers, attached, listener, listenerCtx, dev, eventVars,
                 histVars, disturbed>>

Linked == IF attached = None THEN 1 ELSE 2

-----------------------------------------------------------------------------
(* UpnpService_SendEvents -> onServiceChanged, under no lock.              *)

\* The listener is not NULL and some variable has changed.
EventBegin(t, d) ==
  /\ pc[t] = "idle" /\ listener[d]
  /\ pc' = [pc EXCEPT ![t] = "changed"] /\ dev' = [dev EXCEPT ![t] = d]
  /\ disturbed' = [disturbed EXCEPT ![t] = ~listenerCtx[d] \/ size # Linked]
  /\ UNCHANGED <<lock, sharedVars, eventVars, histVars>>

\* Mutant: the walk starts at the second observer.
EventCall_SkipFirst(t) ==
  /\ pc[t] = "changed"
  /\ \E reload \in BOOLEAN :
       pc' = [pc EXCEPT ![t] = IF (reload /\ ~listener[dev[t]]) \/ ~listenerCtx[dev[t]]
                               THEN "fault" ELSE "loop"]
  /\ count' = [count EXCEPT ![t] = size]
  /\ index' = [index EXCEPT ![t] = 2]
  /\ delivered' = [delivered EXCEPT ![t] = 0]
  /\ UNCHANGED <<lock, sharedVars, dev, observer, histVars, disturbed>>

\* The call loads the two fields again, or has kept the listener it tested;
\* without a listener or without a provider it faults.
EventCall(t) ==
  /\ pc[t] = "changed"
  /\ \E reload \in BOOLEAN :
       pc' = [pc EXCEPT ![t] = IF (reload /\ ~listener[dev[t]]) \/ ~listenerCtx[dev[t]]
                               THEN "fault" ELSE "loop"]
  /\ count' = [count EXCEPT ![t] = size]
  /\ index' = [index EXCEPT ![t] = 1]
  /\ delivered' = [delivered EXCEPT ![t] = 0]
  /\ UNCHANGED <<lock, sharedVars, dev, observer, histVars, disturbed>>

ObserverAt(i) == CASE i = 1 -> Gena [] i = 2 -> attached [] OTHER -> None

\* Mutant: the walk goes one past the last observer.
EventFetch_OneTooFar(t) ==
  /\ pc[t] = "loop" /\ index[t] <= count[t] + 1
  /\ observer' = [observer EXCEPT ![t] = ObserverAt(index[t])]
  /\ pc' = [pc EXCEPT ![t] = IF ObserverAt(index[t]) = None THEN "fault" ELSE "deliver"]
  /\ UNCHANGED <<lock, sharedVars, dev, count, index, delivered, histVars, disturbed>>

\* TinyMap_GetValueAt gives NULL past the end, and its fields are then read.
EventFetch(t) ==
  /\ pc[t] = "loop" /\ index[t] <= count[t]
  /\ observer' = [observer EXCEPT ![t] = ObserverAt(index[t])]
  /\ pc' = [pc EXCEPT ![t] = IF ObserverAt(index[t]) = None THEN "fault" ELSE "deliver"]
  /\ UNCHANGED <<lock, sharedVars, dev, count, index, delivered, histVars, disturbed>>

\* Reading an observer that has been deleted meanwhile is undefined: the build
\* may fault, or find the old fields still there.
EventDeliver(t) ==
  /\ pc[t] = "deliver"
  /\ \/ pc' = [pc EXCEPT ![t] = "loop"]
     \/ observer[t] \notin {Gena, attached} /\ pc' = [pc EXCEPT ![t] = "fault"]
  /\ delivered' = [delivered EXCEPT ![t] = IF observer[t] = Gena THEN @ + 1 ELSE @]
  /\ index' = [index EXCEPT ![t] = @ + 1]
  /\ UNCHANGED <<lock, sharedVars, dev, count, observer, histVars, disturbed>>

\* The locals of the call are gone.
EventReturn(t) ==
  /\ pc[t] = "loop" /\ index[t] > count[t]
  /\ pc' = [pc EXCEPT ![t] = "idle"] /\ dev' = [dev EXCEPT ![t] = None]
  /\ count' = [count EXCEPT ![t] = 0] /\ index' = [index EXCEPT ![t] = 1]
  /\ observer' = [observer EXCEPT ![t] = None]
  /\ delivered' = [delivered EXCEPT ![t] = 0] /\ disturbed' = [disturbed EXCEPT ![t] = FALSE]
  /\ UNCHANGED <<lock, sharedVars, histVars>>

-----------------------------------------------------------------------------
Step(t) ==
  \/ \E d \in Devices :
       AddInsert(t, d) \/ AddFails(t, d) \/ RemoveNotify(t, d) \/ EventBegin(t, d)
  \/ AddListener(t) \/ AddCtx(t) \/ RemoveErase(t)
  \/ AttachCount(t) \/ (\E r \in Registries : AttachLink(t, r))
  \/ DetachUnlink(t) \/ DetachCount(t)
  \/ EventCall(t) \/ EventFetch(t) \/ EventDeliver(t) \/ EventReturn(t)

\* A fault ends the process.
Next == (\A t \in Threads : pc[t] # "fault") /\ \E t \in Threads : Step(t)

Spec == Init /\ [][Next]_vars
-----------------------------------------------------------------------------
(* Properties                                                              *)

\* The range of every variable.
TypeOK ==
  /\ lock \in Threads \cup {None}
  /\ devices \subseteq Devices /\ handlers \subseteq Devices
  /\ attached \in Registries \cup {None} /\ size \in 1..2
  /\ listener \in [Devices -> BOOLEAN] /\ listenerCtx \in [Devices -> BOOLEAN]
  /\ pc \in [Threads -> {"idle", "addListener", "addCtx", "removeCtx", "attachLink",
                         "detachCount", "changed", "loop", "deliver", "fault"}]
  /\ dev \in [Threads -> Devices \cup {None}]
  /\ count \in [Threads -> 0..2] /\ index \in [Threads -> 1..3]
  /\ observer \in [Threads -> Registries \cup {Gena, None}]
  /\ made \subseteq Registries /\ failed \subseteq (Registries \cup {None}) \X Devices
  /\ balance \in [Registries -> [Devices -> Int]]
  /\ disturbed \in [Threads -> BOOLEAN] /\ delivered \in [Threads -> 0..1]

Removing(d) == \E t \in Threads : pc[t] = "removeCtx" /\ dev[t] = d

Missed(r, d) == IF <<r, d>> \in failed THEN 1 ELSE 0

\* What an observer has been told is what the provider holds: each device of
\* the map added once and not yet removed while it is attached, none after it
\* was detached.  Where UpnpProvider_Add gives up half-way the observer there is
\* stays one addition short, and hears of the removal nevertheless; an observer
\* that comes later is told of that device as of any other.
ViewIsRegistry ==
  \A r \in Registries, d \in Devices :
    balance[r][d] = (IF r = attached /\ d \in devices /\ ~Removing(d) THEN 1 ELSE 0)
                    - Missed(r, d)

\* While nobody is inside the provider, a service has its listener and its
\* context exactly when its device is registered with a handler.
ListenerIffServed ==
  lock = None =>
    \A d \in Devices :
      (listener[d] <=> d \in handlers) /\ (listenerCtx[d] <=> d \in handlers)

\* SendEvents fails only in a race with the attaching or detaching of an observer
\* or with the (un)registration of the very device that sends the event.
FaultOnlyInRace == \A t \in Threads : pc[t] = "fault" => disturbed[t]

\* The GENA server gets every event that is sent to its end exactly once,
\* even if the registry comes or goes meanwhile.
EveryEventDelivered ==
  [][\A t \in Threads : InEvent(t) /\ pc'[t] = "idle" => delivered[t] = 1]_vars
=============================================================================
