-------------------------- MODULE UpnpProviderProofs -------------------------
(***************************************************************************)
(* The provider, for any number of devices, threads and restarts of the    *)
(* registry.                                                               *)
(*                                                                         *)
(* The steps fall into two groups that touch little of each other: those   *)
(* under the mutex leave the locals of a sender alone, and those of a      *)
(* sender leave the registry alone.                                        *)
(***************************************************************************)
EXTENDS UpnpProvider, TLAPS

USE Distinct

Inside == {"addListener", "addCtx", "removeCtx", "attachLink", "detachCount"}

AddStep(t) == (\E d \in Devices : AddInsert(t, d)) \/ AddListener(t) \/ AddCtx(t)
RemoveStep(t) == (\E d \in Devices : RemoveNotify(t, d)) \/ RemoveErase(t)
AttachStep(t) == AttachCount(t) \/ \E r \in Registries : AttachLink(t, r)
DetachStep(t) == DetachUnlink(t) \/ DetachCount(t)
LockedStep(t) ==
  \/ AddStep(t) \/ (\E d \in Devices : AddFails(t, d))
  \/ RemoveStep(t) \/ AttachStep(t) \/ DetachStep(t)
EventStep(t) ==
  \/ \E d \in Devices : EventBegin(t, d)
  \/ EventCall(t) \/ EventFetch(t) \/ EventDeliver(t) \/ EventReturn(t)

\* Every step is one of a thread under the mutex, or of one that sends an event.
LEMMA Steps == ASSUME Next PROVE \E t \in Threads : LockedStep(t) \/ EventStep(t)
<1>1. PICK t \in Threads : Step(t)
  BY DEF Next
<1>2. LockedStep(t) \/ EventStep(t)
  BY <1>1 DEF Step, LockedStep, AddStep, RemoveStep, AttachStep, DetachStep, EventStep
<1> QED BY <1>2

-----------------------------------------------------------------------------
\* The types, without the bounds that need the invariants below.
Kinds ==
  /\ lock \in Threads \cup {None}
  /\ devices \subseteq Devices /\ handlers \subseteq Devices
  /\ attached \in Registries \cup {None} /\ size \in Int
  /\ listener \in [Devices -> BOOLEAN] /\ listenerCtx \in [Devices -> BOOLEAN]
  /\ pc \in [Threads -> Inside \cup {"idle", "changed", "loop", "deliver", "fault"}]
  /\ dev \in [Threads -> Devices \cup {None}]
  /\ made \subseteq Registries /\ failed \subseteq (Registries \cup {None}) \X Devices
  /\ disturbed \in [Threads -> BOOLEAN]

Locals ==
  /\ count \in [Threads -> Int] /\ index \in [Threads -> Int]
  /\ observer \in [Threads -> Registries \cup {Gena, None}]
  /\ delivered \in [Threads -> Int]

Balances == balance \in [Registries -> [Devices -> Int]]

LEMMA KindsInit == Init => Kinds /\ Locals /\ Balances
BY DEF Init, Kinds, Locals, Balances, Inside

LEMMA DisturbType == ASSUME NEW ds, Disturb(ds) PROVE disturbed' \in [Threads -> BOOLEAN]
<1>1. \A t \in Threads : (disturbed[t] \/ (InEvent(t) /\ dev[t] \in ds)) \in BOOLEAN
  OBVIOUS
<1> QED BY <1>1, Zenon DEF Disturb

LEMMA KindsStep ==
  ASSUME Kinds, NEW t \in Threads, LockedStep(t) \/ EventStep(t)
  PROVE  Kinds'
<1> USE DEF Kinds, Inside, sharedVars, eventVars, histVars
<1>1. ASSUME NEW d \in Devices, AddInsert(t, d) PROVE Kinds'
  BY <1>1 DEF AddInsert
<1>2. CASE AddListener(t)
  BY <1>2 DEF AddListener
<1>3. CASE AddCtx(t)
  <2>1. disturbed' \in [Threads -> BOOLEAN]
    BY <1>3, DisturbType, Zenon DEF AddCtx
  <2> QED BY <1>3, <2>1 DEF AddCtx
<1>4. CASE \E d \in Devices : AddFails(t, d)
  BY <1>4 DEF AddFails
<1>5. ASSUME NEW d \in Devices, RemoveNotify(t, d) PROVE Kinds'
  <2>1. disturbed' \in [Threads -> BOOLEAN]
    BY <1>5, DisturbType, Zenon DEF RemoveNotify
  <2> QED BY <1>5, <2>1 DEF RemoveNotify
<1>6. CASE RemoveErase(t)
  BY <1>6 DEF RemoveErase
<1>7. CASE AttachCount(t)
  <2>1. disturbed' \in [Threads -> BOOLEAN]
    BY <1>7, DisturbType, Zenon DEF AttachCount
  <2>2. size' \in Int /\ attached' = attached
    BY <1>7 DEF AttachCount
  <2>3. lock' \in Threads \cup {None} /\ pc' \in [Threads -> Inside \cup
                                   {"idle", "changed", "loop", "deliver", "fault"}]
    BY <1>7 DEF AttachCount
  <2> QED BY <1>7, <2>1, <2>2, <2>3 DEF AttachCount
<1>8. ASSUME NEW r \in Registries, AttachLink(t, r) PROVE Kinds'
  BY <1>8 DEF AttachLink
<1>9. CASE DetachUnlink(t)
  <2>1. disturbed' \in [Threads -> BOOLEAN]
    BY <1>9, DisturbType, Zenon DEF DetachUnlink
  <2> QED BY <1>9, <2>1 DEF DetachUnlink
<1>10. CASE DetachCount(t)
  BY <1>10 DEF DetachCount
<1>11. CASE \E d \in Devices : EventBegin(t, d)
  BY <1>11 DEF EventBegin
<1>12. CASE EventCall(t)
  BY <1>12 DEF EventCall
<1>13. CASE EventFetch(t) \/ EventDeliver(t) \/ EventReturn(t)
  BY <1>13 DEF EventFetch, EventDeliver, EventReturn
<1> QED BY <1>1, <1>2, <1>3, <1>4, <1>5, <1>6, <1>7, <1>8, <1>9, <1>10, <1>11, <1>12, <1>13
        DEF LockedStep, AddStep, RemoveStep, AttachStep, DetachStep, EventStep

\* What a step under the mutex leaves of the threads that send events.
LEMMA LockedFrame ==
  ASSUME Kinds, NEW t \in Threads, LockedStep(t)
  PROVE  /\ UNCHANGED eventVars
         /\ pc[t] \in Inside \cup {"idle"} /\ pc'[t] \in Inside \cup {"idle"}
         /\ \A u \in Threads \ {t} : pc'[u] = pc[u] /\ dev'[u] = dev[u]
<1> USE DEF Kinds, Inside, eventVars
<1>1. CASE AddStep(t)
  <2>1. ASSUME NEW d \in Devices, AddInsert(t, d)
        PROVE  pc' = [pc EXCEPT ![t] = "addListener"] /\ dev' = [dev EXCEPT ![t] = d]
               /\ pc[t] = "idle" /\ UNCHANGED eventVars
    BY <2>1 DEF AddInsert
  <2>2. CASE AddListener(t)
    BY <2>2 DEF AddListener
  <2>3. CASE AddCtx(t)
    BY <2>3 DEF AddCtx
  <2> QED BY <1>1, <2>1, <2>2, <2>3 DEF AddStep
<1>2. CASE \E d \in Devices : AddFails(t, d)
  BY <1>2 DEF AddFails
<1>3. CASE RemoveStep(t)
  <2>1. ASSUME NEW d \in Devices, RemoveNotify(t, d)
        PROVE  pc' = [pc EXCEPT ![t] = "removeCtx"] /\ dev' = [dev EXCEPT ![t] = d]
               /\ pc[t] = "idle" /\ UNCHANGED eventVars
    BY <2>1 DEF RemoveNotify
  <2>2. CASE RemoveErase(t)
    BY <2>2 DEF RemoveErase
  <2> QED BY <1>3, <2>1, <2>2 DEF RemoveStep
<1>4. CASE AttachStep(t)
  BY <1>4 DEF AttachStep, AttachCount, AttachLink
<1>5. CASE DetachStep(t)
  BY <1>5 DEF DetachStep, DetachUnlink, DetachCount
<1> QED BY <1>1, <1>2, <1>3, <1>4, <1>5 DEF LockedStep

\* What a step of a thread that sends an event leaves of the registry.
LEMMA EventFrame ==
  ASSUME Kinds, NEW t \in Threads, EventStep(t)
  PROVE  /\ UNCHANGED <<lock, sharedVars, histVars>>
         /\ pc[t] \notin Inside /\ pc'[t] \notin Inside
         /\ \A u \in Threads \ {t} : pc'[u] = pc[u] /\ dev'[u] = dev[u]
<1> USE DEF Kinds, Inside
<1>1. CASE \E d \in Devices : EventBegin(t, d)
  BY <1>1 DEF EventBegin
<1>2. CASE EventCall(t)
  BY <1>2 DEF EventCall
<1>3. CASE EventFetch(t) \/ EventDeliver(t) \/ EventReturn(t)
  BY <1>3 DEF EventFetch, EventDeliver, EventReturn
<1> QED BY <1>1, <1>2, <1>3 DEF EventStep

-----------------------------------------------------------------------------
\* The mutex is held by the thread that is inside; the count of the observers
\* is ahead of the list while one is linked or unlinked, and right otherwise.
Custody ==
  /\ \A t \in Threads : pc[t] \in Inside <=> lock = t
  /\ \A t \in Threads : pc[t] \in {"attachLink", "detachCount"} => attached = None /\ size = 2
  /\ (\A t \in Threads : pc[t] \notin {"attachLink", "detachCount"}) => size = Linked
  /\ \A t \in Threads : pc[t] \in {"addListener", "addCtx", "removeCtx"} => dev[t] \in Devices
  /\ attached \in made \cup {None}

LEMMA CustodyInit == Init => Custody
BY DEF Init, Custody, Inside, Linked

\* A step of Add or Remove moves only its own thread, and leaves the observers.
LEMMA CustodyKept ==
  ASSUME Kinds, Custody, NEW t \in Threads,
         UNCHANGED <<attached, size, made>>,
         pc[t] \notin {"attachLink", "detachCount"}, pc'[t] \notin {"attachLink", "detachCount"},
         \A u \in Threads \ {t} : pc'[u] = pc[u] /\ dev'[u] = dev[u],
         lock = None \/ lock = t,
         \/ pc'[t] \in Inside /\ lock' = t /\ dev'[t] \in Devices
         \/ pc'[t] \notin Inside /\ lock' = None
  PROVE  Custody'
<1>1. ASSUME NEW u \in Threads PROVE pc'[u] \in Inside <=> lock' = u
  <2>1. CASE u = t
    BY <2>1 DEF Kinds
  <2>2. CASE u # t
    <3>1. lock # u /\ lock' # u
      BY <2>2 DEF Kinds
    <3>2. pc'[u] = pc[u] /\ (pc[u] \in Inside <=> lock = u)
      BY <2>2 DEF Custody
    <3> QED BY <3>1, <3>2
  <2> QED BY <2>1, <2>2
<1>2. \A u \in Threads :
        pc'[u] \in {"attachLink", "detachCount"} <=> pc[u] \in {"attachLink", "detachCount"}
  OBVIOUS
<1>3. \A u \in Threads : pc'[u] \in {"attachLink", "detachCount"} => attached' = None /\ size' = 2
  BY <1>2 DEF Custody
<1>4. (\A u \in Threads : pc'[u] \notin {"attachLink", "detachCount"}) => size' = Linked'
  BY <1>2 DEF Custody, Linked
<1>5. \A u \in Threads : pc'[u] \in {"addListener", "addCtx", "removeCtx"} => dev'[u] \in Devices
  BY DEF Custody, Inside
<1>6. attached' \in made' \cup {None}
  BY DEF Custody
<1> QED BY <1>1, <1>3, <1>4, <1>5, <1>6 DEF Custody

LEMMA CustodyStep ==
  ASSUME Kinds, Custody, NEW t \in Threads, LockedStep(t) \/ EventStep(t)
  PROVE  Custody'
<1> USE DEF Kinds, Inside
<1>1. ASSUME NEW d \in Devices, AddInsert(t, d) PROVE Custody'
  <2>1. /\ UNCHANGED <<attached, size, made>>
        /\ pc[t] = "idle" /\ pc'[t] = "addListener" /\ lock = None /\ lock' = t /\ dev'[t] = d
        /\ \A u \in Threads \ {t} : pc'[u] = pc[u] /\ dev'[u] = dev[u]
    BY <1>1 DEF AddInsert
  <2> QED BY <2>1, CustodyKept
<1>2. CASE AddListener(t)
  <2>1. /\ UNCHANGED <<attached, size, made, lock, dev>>
        /\ pc[t] = "addListener" /\ pc'[t] = "addCtx"
        /\ \A u \in Threads \ {t} : pc'[u] = pc[u]
    BY <1>2 DEF AddListener, histVars
  <2>2. lock = t /\ dev[t] \in Devices
    BY <2>1 DEF Custody
  <2> QED BY <2>1, <2>2, CustodyKept
<1>3. CASE AddCtx(t) \/ RemoveErase(t)
  <2>1. /\ UNCHANGED <<attached, size, made>>
        /\ pc[t] \in {"addCtx", "removeCtx"} /\ pc'[t] = "idle" /\ lock' = None
        /\ \A u \in Threads \ {t} : pc'[u] = pc[u] /\ dev'[u] = dev[u]
    BY <1>3 DEF AddCtx, RemoveErase, histVars
  <2>2. lock = t
    BY <2>1 DEF Custody
  <2> QED BY <2>1, <2>2, CustodyKept
<1>4. CASE \E d \in Devices : AddFails(t, d)
  BY <1>4 DEF AddFails, Custody, Linked
<1>5. ASSUME NEW d \in Devices, RemoveNotify(t, d) PROVE Custody'
  <2>1. /\ UNCHANGED <<attached, size, made>>
        /\ pc[t] = "idle" /\ pc'[t] = "removeCtx" /\ lock = None /\ lock' = t /\ dev'[t] = d
        /\ \A u \in Threads \ {t} : pc'[u] = pc[u] /\ dev'[u] = dev[u]
    BY <1>5 DEF RemoveNotify
  <2> QED BY <2>1, CustodyKept
<1> USE DEF Custody, Linked
<1>6. CASE AttachStep(t)
  <2>1. CASE AttachCount(t)
    <3>1. size = 1 /\ attached = None /\ size' = 2 /\ attached' = None /\ lock = None
      BY <2>1 DEF AttachCount
    <3>2. lock' = t /\ pc'[t] = "attachLink" /\ (\A u \in Threads \ {t} : pc'[u] = pc[u])
          /\ dev' = dev /\ made' = made
      BY <2>1 DEF AttachCount, histVars
    <3>3. \A u \in Threads : pc[u] \notin Inside
      BY <3>1
    <3>4. \A u \in Threads \ {t} : pc'[u] \notin Inside
      BY <3>2, <3>3
    <3> QED BY <3>1, <3>2, <3>4
  <2>2. ASSUME NEW r \in Registries, AttachLink(t, r) PROVE Custody'
    <3>1. size = 2 /\ attached = None /\ size' = 2 /\ attached' = r /\ lock = t
      BY <2>2 DEF AttachLink
    <3>2. lock' = None /\ pc'[t] = "idle" /\ (\A u \in Threads \ {t} : pc'[u] = pc[u])
          /\ dev' = dev /\ r \in made'
      BY <2>2 DEF AttachLink
    <3> QED BY <3>1, <3>2
  <2> QED BY <1>6, <2>1, <2>2 DEF AttachStep
<1>7. CASE DetachStep(t)
  <2>1. CASE DetachUnlink(t)
    <3>1. size = 2 /\ size' = 2 /\ attached' = None /\ lock = None
      BY <2>1 DEF DetachUnlink
    <3>2. lock' = t /\ pc'[t] = "detachCount" /\ (\A u \in Threads \ {t} : pc'[u] = pc[u])
          /\ dev' = dev /\ made' = made
      BY <2>1 DEF DetachUnlink
    <3> QED BY <3>1, <3>2
  <2>2. CASE DetachCount(t)
    <3>1. size = 2 /\ attached = None /\ size' = 1 /\ attached' = None /\ lock = t
      BY <2>2 DEF DetachCount
    <3>2. lock' = None /\ pc'[t] = "idle" /\ (\A u \in Threads \ {t} : pc'[u] = pc[u])
          /\ dev' = dev /\ made' = made
      BY <2>2 DEF DetachCount, histVars
    <3> QED BY <3>1, <3>2
  <2> QED BY <1>7, <2>1, <2>2 DEF DetachStep
<1>8. CASE EventStep(t)
  BY <1>8, EventFrame DEF sharedVars, histVars
<1> QED BY <1>1, <1>2, <1>3, <1>4, <1>5, <1>6, <1>7, <1>8
        DEF LockedStep, AddStep, RemoveStep

LEMMA SizeBound == Kinds /\ Custody => size \in 1..2
<1>1. CASE \E t \in Threads : pc[t] \in {"attachLink", "detachCount"}
  BY <1>1 DEF Custody
<1>2. CASE \A t \in Threads : pc[t] \notin {"attachLink", "detachCount"}
  BY <1>2 DEF Custody, Linked
<1> QED BY <1>1, <1>2

-----------------------------------------------------------------------------
\* The walk over the observers: Gena is the first, and is met once.
Walk ==
  /\ \A t \in Threads : count[t] \in 0..2 /\ index[t] \in 1..3 /\ delivered[t] \in 0..1
  /\ \A t \in Threads : InEvent(t) => dev[t] \in Devices
  /\ \A t \in Threads : pc[t] = "loop" =>
       /\ count[t] \in 1..2 /\ index[t] \in 1..(count[t] + 1)
       /\ delivered[t] = (IF index[t] = 1 THEN 0 ELSE 1)
  /\ \A t \in Threads : pc[t] = "deliver" =>
       /\ count[t] \in 1..2 /\ index[t] \in 1..count[t]
       /\ index[t] = 1 => delivered[t] = 0 /\ observer[t] = Gena
       /\ index[t] # 1 => delivered[t] = 1 /\ observer[t] # Gena

LEMMA LocalsStep ==
  ASSUME Kinds, Locals, NEW t \in Threads, LockedStep(t) \/ EventStep(t)
  PROVE  Locals'
<1> USE DEF Kinds, Locals
<1>1. CASE LockedStep(t)
  BY <1>1, LockedFrame DEF eventVars
<1>2. CASE \E d \in Devices : EventBegin(t, d)
  BY <1>2 DEF EventBegin, eventVars
<1>3. CASE EventCall(t)
  BY <1>3 DEF EventCall
<1>4. CASE EventFetch(t)
  BY <1>4 DEF EventFetch, ObserverAt
<1>5. CASE EventDeliver(t)
  BY <1>5 DEF EventDeliver
<1>6. CASE EventReturn(t)
  BY <1>6 DEF EventReturn
<1> QED BY <1>1, <1>2, <1>3, <1>4, <1>5, <1>6 DEF EventStep

LEMMA WalkStep ==
  ASSUME Kinds, Locals, Custody, Walk, NEW t \in Threads, LockedStep(t) \/ EventStep(t)
  PROVE  Walk'
<1> USE DEF Kinds, Locals, Walk, InEvent
<1>0. size \in 1..2
  BY SizeBound
<1>1. CASE LockedStep(t)
  BY <1>1, LockedFrame DEF eventVars, Inside
<1>2. CASE \E d \in Devices : EventBegin(t, d)
  BY <1>2 DEF EventBegin, eventVars
<1>3. CASE EventCall(t)
  BY <1>0, <1>3 DEF EventCall
<1>4. CASE EventFetch(t)
  BY <1>4 DEF EventFetch, ObserverAt
<1>5. CASE EventDeliver(t)
  BY <1>5 DEF EventDeliver
<1>6. CASE EventReturn(t)
  BY <1>6 DEF EventReturn
<1> QED BY <1>1, <1>2, <1>3, <1>4, <1>5, <1>6 DEF EventStep

-----------------------------------------------------------------------------
\* Which fields of a service are set, at every step of registering it.
Served ==
  /\ handlers \subseteq devices
  /\ \A d \in Devices :
       (\A t \in Threads : pc[t] \in {"addListener", "addCtx", "removeCtx"} => dev[t] # d) =>
         (listener[d] <=> d \in handlers) /\ (listenerCtx[d] <=> d \in handlers)
  /\ \A t \in Threads :
       /\ pc[t] \in {"addListener", "addCtx"} => dev[t] \in handlers
       /\ pc[t] = "addCtx" => listener[dev[t]] = TRUE
       /\ pc[t] = "removeCtx" => listener[dev[t]] = FALSE

LEMMA ServedInit == Init => Served
BY DEF Init, Served

LEMMA ServedStep ==
  ASSUME Kinds, Custody, Served, NEW t \in Threads, LockedStep(t) \/ EventStep(t)
  PROVE  Served'
<1> USE DEF Kinds, Served
<1> \A u \in Threads : pc[u] \in {"addListener", "addCtx", "removeCtx"} =>
      lock = u /\ dev[u] \in Devices
  BY DEF Custody, Inside
<1>1. ASSUME NEW d \in Devices, AddInsert(t, d) PROVE Served'
  BY <1>1 DEF AddInsert
<1>2. CASE AddListener(t)
  BY <1>2 DEF AddListener
<1>3. CASE AddCtx(t)
  BY <1>3 DEF AddCtx
<1>4. CASE \E d \in Devices : AddFails(t, d)
  BY <1>4 DEF AddFails
<1>5. ASSUME NEW d \in Devices, RemoveNotify(t, d) PROVE Served'
  BY <1>5 DEF RemoveNotify
<1>6. CASE RemoveErase(t)
  BY <1>6 DEF RemoveErase
<1>7. CASE AttachStep(t)
  BY <1>7 DEF AttachStep, AttachCount, AttachLink
<1>8. CASE DetachStep(t)
  BY <1>8 DEF DetachStep, DetachUnlink, DetachCount
<1>9. CASE EventStep(t)
  BY <1>9, EventFrame DEF sharedVars, Inside
<1> QED BY <1>1, <1>2, <1>3, <1>4, <1>5, <1>6, <1>7, <1>8, <1>9
        DEF LockedStep, AddStep, RemoveStep

-----------------------------------------------------------------------------
\* What the event of a thread that was not disturbed can rely on.
Calm ==
  \A t \in Threads : InEvent(t) /\ ~disturbed[t] =>
    /\ pc[t] # "fault" /\ listener[dev[t]] = TRUE /\ listenerCtx[dev[t]] = TRUE /\ size = Linked
    /\ pc[t] \in {"loop", "deliver"} => count[t] = size
    /\ pc[t] = "deliver" => observer[t] \in {Gena, attached}

LEMMA Disturbs ==
  ASSUME NEW ds, Disturb(ds), NEW t \in Threads, disturbed' \in [Threads -> BOOLEAN]
  PROVE  ~disturbed'[t] => ~disturbed[t] /\ (InEvent(t) => dev[t] \notin ds)
BY DEF Disturb

LEMMA CalmStep ==
  ASSUME Kinds, Locals, Custody, Walk, Served, Calm,
         NEW t \in Threads, pc[t] # "fault", LockedStep(t) \/ EventStep(t)
  PROVE  Calm'
<1> USE DEF Kinds
<1>t. Kinds'
  BY KindsStep
<1>a. ASSUME LockedStep(t), NEW u \in Threads, InEvent(u)' /\ ~disturbed'[u]
      PROVE  u # t /\ InEvent(u) /\ pc'[u] = pc[u] /\ dev'[u] = dev[u] /\ dev[u] \in Devices
             /\ UNCHANGED eventVars
  BY <1>a, LockedFrame DEF InEvent, Inside, Walk
<1>1. ASSUME NEW d \in Devices, AddInsert(t, d) PROVE Calm'
  <2>1. LockedStep(t) /\ UNCHANGED <<attached, size, listener, listenerCtx, disturbed>>
    BY <1>1, Zenon DEF LockedStep, AddStep, AddInsert
  <2> QED BY <2>1, <1>a DEF Calm, Linked, eventVars
<1>2. CASE AddListener(t)
  <2>1. LockedStep(t) /\ UNCHANGED <<attached, size, listenerCtx, disturbed>>
        /\ listener' = [listener EXCEPT ![dev[t]] = TRUE]
    BY <1>2, Zenon DEF LockedStep, AddStep, AddListener
  <2> QED BY <2>1, <1>a DEF Calm, Linked, eventVars
<1>3. CASE AddCtx(t)
  <2>1. LockedStep(t) /\ UNCHANGED <<attached, size, listener>> /\ Disturb({dev[t]})
        /\ listenerCtx' = [listenerCtx EXCEPT ![dev[t]] = TRUE]
    BY <1>3, Zenon DEF LockedStep, AddStep, AddCtx
  <2>2. \A u \in Threads : ~disturbed'[u] => ~disturbed[u]
    BY <2>1, <1>t, Disturbs
  <2> QED BY <2>1, <2>2, <1>a DEF Calm, Linked, eventVars
<1>4. ASSUME NEW d \in Devices, AddFails(t, d) PROVE Calm'
  BY <1>4 DEF AddFails, Calm, Linked, eventVars, InEvent
<1>5. ASSUME NEW d \in Devices, RemoveNotify(t, d) PROVE Calm'
  <2>1. LockedStep(t) /\ UNCHANGED <<attached, size, listenerCtx>> /\ Disturb({d})
        /\ listener' = [listener EXCEPT ![d] = FALSE]
    BY <1>5, Zenon DEF LockedStep, RemoveStep, RemoveNotify
  <2>2. \A u \in Threads : ~disturbed'[u] => ~disturbed[u] /\ (InEvent(u) => dev[u] # d)
    BY <2>1, <1>t, Disturbs
  <2> QED BY <2>1, <2>2, <1>a DEF Calm, Linked, eventVars
<1>6. CASE RemoveErase(t)
  <2>1. LockedStep(t) /\ UNCHANGED <<attached, size, listener, disturbed>>
        /\ listenerCtx' = [listenerCtx EXCEPT ![dev[t]] = FALSE] /\ pc[t] = "removeCtx"
    BY <1>6, Zenon DEF LockedStep, RemoveStep, RemoveErase
  <2>2. listener[dev[t]] = FALSE /\ dev[t] \in Devices
    BY <2>1 DEF Served, Custody
  <2> QED BY <2>1, <2>2, <1>a DEF Calm, Linked, eventVars
<1>7. CASE AttachCount(t) \/ DetachUnlink(t)
  <2>1. LockedStep(t) /\ Disturb(Devices)
    BY <1>7, Zenon DEF LockedStep, AttachStep, DetachStep, AttachCount, DetachUnlink
  <2>2. \A u \in Threads : ~disturbed'[u] => (InEvent(u) => dev[u] \notin Devices)
    BY <2>1, <1>t, Disturbs
  <2>3. ASSUME NEW u \in Threads, InEvent(u)' /\ ~disturbed'[u] PROVE FALSE
    BY <2>1, <2>2, <2>3, <1>a
  <2> QED BY <2>3 DEF Calm
<1>8. CASE (\E r \in Registries : AttachLink(t, r)) \/ DetachCount(t)
  <2>1. LockedStep(t) /\ UNCHANGED disturbed /\ attached = None /\ size = 2
    BY <1>8 DEF LockedStep, AttachStep, DetachStep, AttachLink, DetachCount, Custody
  <2>2. ASSUME NEW u \in Threads, InEvent(u)' /\ ~disturbed'[u] PROVE FALSE
    BY <2>1, <2>2, <1>a DEF Calm, Linked
  <2> QED BY <2>2 DEF Calm
<1>9. ASSUME NEW d \in Devices, EventBegin(t, d) PROVE Calm'
  <2>1. listener[d] /\ disturbed' = [disturbed EXCEPT ![t] = ~listenerCtx[d] \/ size # Linked]
        /\ pc' = [pc EXCEPT ![t] = "changed"] /\ dev' = [dev EXCEPT ![t] = d]
        /\ UNCHANGED <<attached, size, listener, listenerCtx>> /\ UNCHANGED eventVars
    BY <1>9, Zenon DEF EventBegin, sharedVars
  <2>2. ~disturbed'[t] => listenerCtx[d] = TRUE /\ size = Linked
    BY <2>1
  <2>3. listener[d] = TRUE
    BY <2>1
  <2> QED BY <2>1, <2>2, <2>3 DEF Calm, Linked, eventVars, InEvent
<1>10. CASE EventCall(t)
  <2>1. UNCHANGED <<attached, size, listener, listenerCtx, dev, observer, disturbed>>
        /\ count' = [count EXCEPT ![t] = size] /\ pc[t] = "changed"
        /\ pc'[t] \in {"loop", "fault"} /\ \A u \in Threads \ {t} : pc'[u] = pc[u]
    BY <1>10 DEF EventCall, sharedVars
  <2>2. listener[dev[t]] = TRUE /\ listenerCtx[dev[t]] = TRUE => pc'[t] = "loop"
    BY <1>10 DEF EventCall
  <2> QED BY <2>1, <2>2 DEF Calm, Linked, InEvent, Locals
<1>11. CASE EventFetch(t)
  BY <1>11 DEF EventFetch, Calm, Linked, sharedVars, InEvent, ObserverAt, Walk, Locals
<1>12. CASE EventDeliver(t)
  BY <1>12 DEF EventDeliver, Calm, Linked, sharedVars, InEvent
<1>13. CASE EventReturn(t)
  BY <1>13 DEF EventReturn, Calm, Linked, sharedVars, InEvent
<1> QED BY <1>1, <1>2, <1>3, <1>4, <1>5, <1>6, <1>7, <1>8, <1>9, <1>10, <1>11, <1>12, <1>13
        DEF LockedStep, AddStep, RemoveStep, AttachStep, DetachStep, EventStep

-----------------------------------------------------------------------------
\* What Tell changes in the balances.
LEMMA Telling ==
  ASSUME Balances, NEW r \in Registries \cup {None}, NEW ds, NEW k \in Int, Tell(r, ds, k)
  PROVE  /\ Balances'
         /\ \A q \in Registries, d \in Devices :
              balance'[q][d] = IF q = r /\ d \in ds THEN balance[q][d] + k ELSE balance[q][d]
<1>1. CASE r = None
  BY <1>1 DEF Tell, Balances
<1>2. CASE r # None
  <2> DEFINE told == [d \in Devices |-> IF d \in ds THEN balance[r][d] + k ELSE balance[r][d]]
  <2>1. balance' = [balance EXCEPT ![r] = told]
    BY <1>2 DEF Tell
  <2>2. told \in [Devices -> Int]
    BY <1>2 DEF Balances
  <2>3. Balances'
    BY <1>2, <2>1, <2>2 DEF Balances
  <2> QED BY <1>2, <2>1, <2>3 DEF Balances
<1> QED BY <1>1, <1>2

View == Balances /\ ViewIsRegistry

LEMMA ViewStep ==
  ASSUME Kinds, Custody, Served, View, NEW t \in Threads, LockedStep(t) \/ EventStep(t)
  PROVE  View'
<1> USE DEF Kinds, View
<1> Balances
  OBVIOUS
<1>0. \A u \in Threads : pc[u] \in Inside => lock = u
  BY DEF Custody
<1>1. ASSUME NEW d \in Devices, AddInsert(t, d) PROVE View'
  <2>1. Tell(attached, {d}, 1) /\ d \notin devices /\ devices' = devices \cup {d}
        /\ UNCHANGED <<attached, failed>>
    BY <1>1 DEF AddInsert
  <2>2. \A e \in Devices : ~Removing(e) /\ ~Removing(e)'
    BY <1>0, <1>1 DEF AddInsert, Removing, Inside
  <2> QED BY <2>1, <2>2, Telling DEF ViewIsRegistry, Missed, Balances
<1>2. CASE AddListener(t)
  <2>1. UNCHANGED <<balance, attached, devices, failed>>
    BY <1>2 DEF AddListener, histVars
  <2>2. \A e \in Devices : Removing(e)' <=> Removing(e)
    BY <1>2 DEF AddListener, Removing
  <2> QED BY <2>1, <2>2 DEF ViewIsRegistry, Missed, Balances
<1>3. CASE AddCtx(t)
  <2>1. UNCHANGED <<balance, attached, devices, failed>>
    BY <1>3 DEF AddCtx, histVars
  <2>2. \A e \in Devices : Removing(e)' <=> Removing(e)
    BY <1>3 DEF AddCtx, Removing
  <2> QED BY <2>1, <2>2 DEF ViewIsRegistry, Missed, Balances
<1>4. ASSUME NEW d \in Devices, AddFails(t, d) PROVE View'
  <2>1. d \notin devices /\ devices' = devices \cup {d} /\ UNCHANGED <<balance, attached>>
        /\ failed' = failed \cup {<<attached, d>>}
    BY <1>4 DEF AddFails
  <2>2. \A e \in Devices : Removing(e)' <=> Removing(e)
    BY <1>4 DEF AddFails, Removing
  <2>3. ~Removing(d)
    BY <1>0, <1>4 DEF AddFails, Removing, Inside
  <2>4. ASSUME NEW r \in Registries, NEW e \in Devices
        PROVE  Missed(r, e)' = IF r = attached /\ e = d THEN 1 ELSE Missed(r, e)
    BY <2>1 DEF Missed
  <2>5. \A r \in Registries : Missed(r, d) = 0
    BY <1>4 DEF AddFails, Missed
  <2> QED BY <2>1, <2>2, <2>3, <2>4, <2>5 DEF ViewIsRegistry, Balances
<1>5. ASSUME NEW d \in Devices, RemoveNotify(t, d) PROVE View'
  <2>1. Tell(attached, {d}, -1) /\ d \in devices /\ UNCHANGED <<devices, attached, failed>>
    BY <1>5 DEF RemoveNotify
  <2>2. \A e \in Devices : ~Removing(e) /\ (Removing(e)' <=> e = d)
    BY <1>0, <1>5 DEF RemoveNotify, Removing, Inside
  <2> QED BY <2>1, <2>2, Telling DEF ViewIsRegistry, Missed, Balances
<1>6. CASE RemoveErase(t)
  <2>1. UNCHANGED <<balance, attached, failed>> /\ devices' = devices \ {dev[t]}
    BY <1>6 DEF RemoveErase, histVars
  <2>2. \A e \in Devices : ~Removing(e)' /\ (Removing(e) <=> e = dev[t])
    BY <1>0, <1>6 DEF RemoveErase, Removing, Inside
  <2> QED BY <2>1, <2>2 DEF ViewIsRegistry, Missed, Balances
<1>7. CASE AttachCount(t)
  <2>1. UNCHANGED <<balance, attached, devices, failed>>
    BY <1>7 DEF AttachCount, histVars
  <2>2. \A e \in Devices : Removing(e)' <=> Removing(e)
    BY <1>7 DEF AttachCount, Removing
  <2> QED BY <2>1, <2>2 DEF ViewIsRegistry, Missed, Balances
<1>8. ASSUME NEW r \in Registries, AttachLink(t, r) PROVE View'
  <2>1. Tell(r, devices, 1) /\ attached = None /\ attached' = r /\ UNCHANGED <<devices, failed>>
    BY <1>8 DEF AttachLink, Custody
  <2>2. \A e \in Devices : ~Removing(e) /\ ~Removing(e)'
    BY <1>0, <1>8 DEF AttachLink, Removing, Inside
  <2> QED BY <2>1, <2>2, Telling DEF ViewIsRegistry, Missed, Balances
<1>9. CASE DetachUnlink(t)
  <2>1. Tell(attached, devices, -1) /\ attached' = None /\ UNCHANGED <<devices, failed>>
    BY <1>9 DEF DetachUnlink
  <2>2. \A e \in Devices : ~Removing(e) /\ ~Removing(e)'
    BY <1>0, <1>9 DEF DetachUnlink, Removing, Inside
  <2> QED BY <2>1, <2>2, Telling DEF ViewIsRegistry, Missed, Balances
<1>10. CASE DetachCount(t)
  <2>1. UNCHANGED <<balance, attached, devices, failed>>
    BY <1>10 DEF DetachCount, histVars
  <2>2. \A e \in Devices : Removing(e)' <=> Removing(e)
    BY <1>10 DEF DetachCount, Removing
  <2> QED BY <2>1, <2>2 DEF ViewIsRegistry, Missed, Balances
<1>11. CASE EventStep(t)
  <2>1. UNCHANGED <<balance, attached, devices, failed>>
    BY <1>11, EventFrame DEF sharedVars, histVars
  <2>2. \A e \in Devices : Removing(e)' <=> Removing(e)
    BY <1>11, EventFrame DEF Removing, Inside
  <2> QED BY <2>1, <2>2 DEF ViewIsRegistry, Missed, Balances
<1> QED BY <1>1, <1>2, <1>3, <1>4, <1>5, <1>6, <1>7, <1>8, <1>9, <1>10, <1>11
        DEF LockedStep, AddStep, RemoveStep, AttachStep, DetachStep

-----------------------------------------------------------------------------
Inv == Kinds /\ Locals /\ Custody /\ Walk /\ Served /\ Calm /\ View

LEMMA InvInit == Init => Inv
<1> SUFFICES ASSUME Init PROVE Walk /\ Calm /\ View
  BY KindsInit, CustodyInit, ServedInit DEF Inv
<1> QED BY KindsInit DEF Init, Walk, Calm, View, ViewIsRegistry, Missed, Balances, InEvent

LEMMA InvStep == Inv /\ [Next]_vars => Inv'
<1> SUFFICES ASSUME Inv, [Next]_vars PROVE Inv'
  OBVIOUS
<1>1. CASE Next
  <2>1. PICK t \in Threads : LockedStep(t) \/ EventStep(t)
    BY <1>1, Steps
  <2>2. pc[t] # "fault"
    BY <1>1 DEF Next
  <2> QED BY <2>1, <2>2, KindsStep, LocalsStep, CustodyStep, WalkStep, ServedStep, CalmStep,
             ViewStep, Zenon DEF Inv
<1>2. CASE UNCHANGED vars
  BY <1>2 DEF Inv, vars, sharedVars, eventVars, histVars, Kinds, Locals, Custody, Walk, Served,
              Calm, View, Balances, ViewIsRegistry, Missed, Removing, InEvent, Linked
<1> QED BY <1>1, <1>2

LEMMA Holds == Spec => []Inv
BY InvInit, InvStep, PTL DEF Spec

\* The variables of the provider have their types: the count of the observers
\* and the index of a walk never leave their bounds.
THEOREM TypeCorrect == Spec => []TypeOK
<1>1. Inv => TypeOK
  BY SizeBound DEF Inv, TypeOK, Kinds, Locals, Walk, View, Balances, Inside
<1> QED BY <1>1, Holds, PTL

\* What an observer was told is what the provider holds
\* (UpnpProvider.c:167-416, the calls of OnDeviceAdded and OnDeviceRemoved).
THEOREM ViewsAreTheRegistry == Spec => []ViewIsRegistry
<1>1. Inv => ViewIsRegistry
  BY DEF Inv, View
<1> QED BY <1>1, Holds, PTL

\* With the mutex free, a service has its listener exactly when it has its
\* handler (UpnpProvider.c:283-416).
THEOREM ListenersAreServed == Spec => []ListenerIffServed
<1>1. Inv => ListenerIffServed
  <2> SUFFICES ASSUME Inv, lock = None PROVE ListenerIffServed
    BY DEF ListenerIffServed
  <2>1. \A t \in Threads : pc[t] \notin Inside
    BY DEF Inv, Custody
  <2>2. \A t \in Threads : pc[t] \notin {"addListener", "addCtx", "removeCtx"}
    BY <2>1 DEF Inside
  <2> QED BY <2>2 DEF Inv, Served, ListenerIffServed
<1> QED BY <1>1, Holds, PTL

\* SendEvents fails in a race and nowhere else (UpnpProvider.c:43-60).
THEOREM FaultsOnlyInRaces == Spec => []FaultOnlyInRace
<1>1. Inv => FaultOnlyInRace
  BY DEF Inv, FaultOnlyInRace, Calm, InEvent
<1> QED BY <1>1, Holds, PTL

\* An event that is sent to its end reaches the GENA server exactly once
\* (UpnpProvider.c:43-60).
THEOREM EventsAreDelivered == Spec => EveryEventDelivered
<1> DEFINE Delivered == \A t \in Threads : InEvent(t) /\ pc'[t] = "idle" => delivered[t] = 1
<1>1. ASSUME Inv, [Next]_vars PROVE [Delivered]_vars
  <2> SUFFICES ASSUME Next, NEW u \in Threads, InEvent(u), pc'[u] = "idle"
               PROVE  delivered[u] = 1
    BY <1>1
  <2>1. PICK t \in Threads : LockedStep(t) \/ EventStep(t)
    BY Steps
  <2>2. EventStep(t) /\ t = u
    BY <1>1, <2>1, LockedFrame, EventFrame DEF Inv, InEvent, Inside
  <2>3. EventReturn(u)
    BY <1>1, <2>2 DEF EventStep, EventBegin, EventCall, EventFetch, EventDeliver, Inv, Kinds
  <2> QED BY <1>1, <2>3 DEF EventReturn, Inv, Walk, Locals
<1> QED BY <1>1, Holds, PTL DEF Spec, EveryEventDelivered
=============================================================================
