------------------------- MODULE UpnpRegistryProofs -------------------------
(***************************************************************************)
(* UpnpRegistry keeps its type, the network hears what is registered, the  *)
(* SSDP thread is gone after Stop, and the registry implements             *)
(* Advertisement, for every set of devices and every bound on starts.      *)
(***************************************************************************)
EXTENDS UpnpRegistry, UpnpDiscovery, TLAPS

\* What is said keeps heard a function to claims.
LEMMA SayType ==
  ASSUME heard \in [Devices -> Ad!Claims], NEW ds, NEW what \in Ad!Claims, NEW up, NEW ifs,
         Say(ds, what, up, ifs)
  PROVE  heard' \in [Devices -> Ad!Claims]
BY DEF Say

\* The types in two parts: flags, and what has more than two values.
Flags ==
  /\ observing \in BOOLEAN /\ running \in BOOLEAN /\ sockets \in BOOLEAN
  /\ listed \in BOOLEAN /\ disposing \in BOOLEAN /\ leftover \in BOOLEAN

Places ==
  /\ lock \in {"free", "owner", "ssdp"}
  /\ devices \subseteq Devices
  /\ stopMsgs \in Nat /\ starts \in Nat
  /\ thread \in {"none", "loop", "select", "read", "search", "answer", "exited"}
  /\ owner \in {"idle", "send", "close", "clearRunning", "join", "disposed"}
  /\ result \in {"none", "OK", "E_STARTED", "E_ITEM_EXIST", "E_SOCKET", "E_NOT_FOUND"}

Claimed == heard \in [Devices -> Ad!Claims]

LEMMA TypeParts == TypeOK <=> Flags /\ Places /\ Claimed
BY DEF TypeOK, Flags, Places, Claimed

LEMMA InitType == Init => TypeOK
<1> SUFFICES ASSUME Init PROVE TypeOK
  OBVIOUS
<1>1. heard \in [Devices -> Ad!Claims]
  BY DEF Init, Ad!Claims
<1>2. Flags /\ Places
  BY DEF Init, Flags, Places
<1> QED BY <1>1, <1>2, TypeParts DEF Claimed

\* Only these say anything.
LEMMA HeardType == TypeOK /\ [Next]_vars => Claimed'
<1> SUFFICES ASSUME TypeOK, [Next]_vars PROVE heard' \in [Devices -> Ad!Claims]
  BY DEF Claimed, Ad!Claims
<1> heard \in [Devices -> Ad!Claims]
  BY DEF TypeOK
<1>1. CASE \/ \E d \in Devices : Register(d) \/ Unregister(d)
           \/ StartOk \/ StopBegin \/ SearchAnswer
  BY <1>1, SayType DEF Register, Unregister, StartOk, StopBegin, SearchAnswer, Ad!Claims
<1>2. CASE StartRefused \/ StartNoSocket \/ StopRefused \/ DisposeBegin \/ OwnerStep
  BY <1>2 DEF StartRefused, StartNoSocket, StopRefused, DisposeBegin, OwnerStep, StopSend,
              StopClose, StopClearRunning, StopJoin
<1>3. CASE SsdpStep /\ ~SearchAnswer
  BY <1>3 DEF SsdpStep, LoopAgain, LoopEnds, SelectStop, SelectError, SelectMessage, ReadOther,
              ReadSearch, SearchLock, Goto
<1>4. CASE UNCHANGED vars
  BY <1>4 DEF vars
<1> QED BY <1>1, <1>2, <1>3, <1>4 DEF Next

LEMMA FlagsStep == TypeOK /\ [Next]_vars => Flags'
<1> SUFFICES ASSUME Flags, [Next]_vars PROVE Flags'
  BY TypeParts
<1> USE DEF Flags, ssdpVars
<1>1. CASE StartRefused \/ StartNoSocket
  BY <1>1 DEF StartRefused, StartNoSocket
<1>2. CASE StartOk
  <2>1. leftover' \in BOOLEAN
    BY <1>2 DEF StartOk
  <2> QED BY <1>2, <2>1 DEF StartOk
<1>3. CASE \/ \E d \in Devices : Register(d) \/ Unregister(d)
           \/ StopRefused \/ StopBegin
  BY <1>3 DEF Register, Unregister, StopRefused, StopBegin
<1>4. CASE DisposeBegin
  BY <1>4 DEF DisposeBegin
<1>5. CASE OwnerStep
  <2>1. UNCHANGED <<observing, listed, disposing, leftover>>
    BY <1>5 DEF OwnerStep, StopSend, StopClose, StopClearRunning, StopJoin
  <2>2. running' = running \/ running' = FALSE
    BY <1>5 DEF OwnerStep, StopSend, StopClose, StopClearRunning, StopJoin
  <2>3. sockets' = sockets \/ sockets' = FALSE
    BY <1>5 DEF OwnerStep, StopSend, StopClose, StopClearRunning, StopJoin
  <2> QED BY <2>1, <2>2, <2>3
<1>6. CASE SsdpStep
  <2>1. UNCHANGED <<observing, running, sockets, listed, disposing, leftover>>
    BY <1>6 DEF SsdpStep, LoopAgain, LoopEnds, SelectStop, SelectError, SelectMessage,
                ReadOther, ReadSearch, SearchLock, SearchAnswer, Goto
  <2> QED BY <2>1
<1>7. CASE UNCHANGED vars
  BY <1>7 DEF vars
<1> QED BY <1>1, <1>2, <1>3, <1>4, <1>5, <1>6, <1>7 DEF Next

LEMMA PlacesStep == TypeOK /\ [Next]_vars => Places'
<1> SUFFICES ASSUME Places, [Next]_vars PROVE Places'
  BY TypeParts
<1> USE DEF Places, ssdpVars
<1>1. CASE \E d \in Devices : Register(d) \/ Unregister(d)
  BY <1>1 DEF Register, Unregister
<1>2. CASE StartRefused \/ StartNoSocket \/ StartOk
  <2>1. CASE StartRefused
    BY <2>1 DEF StartRefused, StartBegin
  <2>2. CASE StartNoSocket
    BY <2>2 DEF StartNoSocket, StartBegin
  <2>3. CASE StartOk
    BY <2>3 DEF StartOk, StartBegin
  <2> QED BY <1>2, <2>1, <2>2, <2>3
<1>3. CASE StopRefused \/ StopBegin \/ DisposeBegin
  BY <1>3 DEF StopRefused, StopBegin, DisposeBegin
<1>4. CASE OwnerStep
  <2>1. CASE StopSend
    BY <2>1 DEF StopSend
  <2>2. CASE StopClose \/ StopClearRunning
    BY <2>2 DEF StopClose, StopClearRunning
  <2>3. CASE StopJoin
    BY <2>3 DEF StopJoin
  <2> QED BY <1>4, <2>1, <2>2, <2>3 DEF OwnerStep
<1>5. CASE SelectStop
  BY <1>5 DEF SelectStop, Goto
<1>6. CASE SsdpStep /\ ~SelectStop
  <2>1. thread' \in {"loop", "select", "read", "search", "answer", "exited"}
        /\ lock' \in {"free", "ssdp", lock}
    BY <1>6 DEF SsdpStep, LoopAgain, LoopEnds, SelectError, SelectMessage, ReadOther,
                ReadSearch, SearchLock, SearchAnswer, Goto
  <2>2. UNCHANGED <<devices, stopMsgs, starts, owner, result>>
    BY <1>6 DEF SsdpStep, LoopAgain, LoopEnds, SelectError, SelectMessage, ReadOther,
                ReadSearch, SearchLock, SearchAnswer, Goto
  <2> QED BY <2>1, <2>2
<1>7. CASE UNCHANGED vars
  BY <1>7 DEF vars
<1> QED BY <1>1, <1>2, <1>3, <1>4, <1>5, <1>6, <1>7 DEF Next, SsdpStep

\* Each action keeps each variable in its range.
LEMMA NextType == TypeOK /\ [Next]_vars => TypeOK'
<1>1. TypeOK' <=> Flags' /\ Places' /\ Claimed'
  BY TypeParts, PTL
<1> QED BY <1>1, FlagsStep, PlacesStep, HeardType

\* Every variable of the registry and of Ssdp keeps its range.
THEOREM TypeCorrect == Spec => []TypeOK
BY InitType, NextType, PTL DEF Spec

-----------------------------------------------------------------------------
(* The inductive invariant.  Who holds the mutex decides when the network  *)
(* can be told something: after the goodbye of Stop the mutex is held      *)
(* until Ssdp does not run any more, so that an answer which waits for it  *)
(* says nothing when it has it.                                            *)

LEMMA InitInv == Init => IInv
BY InitType DEF Init, IInv, MutexHeld, Phases, ThreadGone, Hearing, Heard, InStop

\* Mutex and phases of owner and thread.
LEMMA PhasesStep == IInv /\ TypeOK' /\ Next => MutexHeld' /\ Phases' /\ ThreadGone' /\ Hearing'
<1> SUFFICES ASSUME IInv, TypeOK', Next PROVE MutexHeld' /\ Phases' /\ ThreadGone' /\ Hearing'
  OBVIOUS
<1> USE DEF IInv, TypeOK, MutexHeld, Phases, ThreadGone, Hearing, InStop, ssdpVars
<1>1. ASSUME NEW d \in Devices, Register(d) \/ Unregister(d)
      PROVE  MutexHeld' /\ Phases' /\ ThreadGone' /\ Hearing'
  BY <1>1 DEF Register, Unregister
<1>2. CASE StartRefused \/ StartNoSocket
  BY <1>2 DEF StartRefused, StartNoSocket, StartBegin
<1>3. CASE StartOk
  <2>1. /\ owner = "idle" /\ owner' = "idle" /\ lock = "free" /\ lock' = "free"
        /\ disposing = FALSE /\ disposing' = FALSE /\ thread' = "loop"
        /\ sockets' = TRUE /\ running' = TRUE /\ observing' = TRUE
    BY <1>3 DEF StartOk, StartBegin
  <2>2. stopMsgs' = stopMsgs /\ stopMsgs \in Nat
    BY <1>3 DEF StartOk
  <2>3. leftover' = (stopMsgs > 0)
    BY <1>3, Zenon DEF StartOk
  <2>4. stopMsgs > 0 => leftover'
    BY <2>3, Zenon
  <2>5. Hearing'
    BY <2>1, <2>2, <2>4
  <2>6. MutexHeld' /\ Phases' /\ ThreadGone'
    BY <2>1
  <2> QED BY <2>5, <2>6
<1>4. CASE StopRefused
  BY <1>4 DEF StopRefused
<1>5. CASE StopBegin
  BY <1>5 DEF StopBegin
<1>6. CASE DisposeBegin
  BY <1>6 DEF DisposeBegin
<1>7. CASE StopSend
  BY <1>7 DEF StopSend
<1>8. CASE StopClose \/ StopClearRunning
  BY <1>8 DEF StopClose, StopClearRunning
<1>9. CASE StopJoin
  BY <1>9 DEF StopJoin
<1>10. CASE SelectStop
  BY <1>10 DEF SelectStop, Goto
<1>11. CASE SsdpStep /\ ~SelectStop
  <2>1. CASE LoopAgain \/ LoopEnds \/ SelectError \/ SelectMessage \/ ReadOther \/ ReadSearch
    BY <2>1 DEF LoopAgain, LoopEnds, SelectError, SelectMessage, ReadOther, ReadSearch, Goto
  <2>2. CASE SearchLock \/ SearchAnswer
    BY <2>2 DEF SearchLock, SearchAnswer
  <2>3. QED
    BY <1>11, <2>1, <2>2 DEF SsdpStep
<1>12. QED
  BY <1>1, <1>2, <1>3, <1>4, <1>5, <1>6, <1>7, <1>8, <1>9, <1>10, <1>11 DEF Next, OwnerStep

\* What the network has heard.
LEMMA HeardStep == IInv /\ TypeOK' /\ Next => Heard'
<1> SUFFICES ASSUME IInv, TypeOK', Next PROVE Heard'
  OBVIOUS
<1> USE DEF IInv, TypeOK, MutexHeld, Phases, InStop, Heard, ssdpVars
<1>1. ASSUME NEW d \in Devices, Register(d) \/ Unregister(d) PROVE Heard'
  BY <1>1 DEF Register, Unregister, Say
<1>2. CASE StartRefused \/ StartNoSocket
  BY <1>2 DEF StartRefused, StartNoSocket, StartBegin
<1>3. CASE StartOk
  BY <1>3 DEF StartOk, StartBegin, Say
<1>4. CASE StopRefused
  BY <1>4 DEF StopRefused
<1>5. CASE StopBegin
  BY <1>5 DEF StopBegin, Say
<1>6. CASE DisposeBegin
  BY <1>6 DEF DisposeBegin
<1>7. CASE OwnerStep
  BY <1>7 DEF OwnerStep, StopSend, StopClose, StopClearRunning, StopJoin
<1>8. CASE SearchAnswer
  BY <1>8 DEF SearchAnswer, Say
<1>9. CASE SsdpStep /\ ~SearchAnswer
  BY <1>9 DEF SsdpStep, LoopAgain, LoopEnds, SelectStop, SelectError, SelectMessage,
              ReadOther, ReadSearch, SearchLock, Goto
<1>10. QED
  BY <1>1, <1>2, <1>3, <1>4, <1>5, <1>6, <1>7, <1>8, <1>9 DEF Next

\* The inductive invariant of the registry, from which the theorems follow.
THEOREM Invariance == Spec => []IInv
<1>1. IInv /\ [Next]_vars => IInv'
  <2> SUFFICES ASSUME IInv, [Next]_vars PROVE IInv'
    OBVIOUS
  <2>1. TypeOK'
    BY NextType DEF IInv
  <2>2. CASE Next
    BY <2>1, <2>2, PhasesStep, HeardStep DEF IInv
  <2>3. CASE UNCHANGED vars
    BY <2>3 DEF vars, ssdpVars, IInv, TypeOK, MutexHeld, Phases, ThreadGone, Hearing, Heard, InStop
  <2>4. QED
    BY <2>2, <2>3
<1>2. QED
  BY InitInv, <1>1, PTL DEF Spec
-----------------------------------------------------------------------------
(* The properties.                                                         *)

\* While the host is online the network believes alive what is registered.
THEOREM NetworkKnowsDevices == Spec => []HeardIsRegistered
<1>1. IInv => HeardIsRegistered
  BY DEF IInv, Phases, Heard, HeardIsRegistered
<1>2. QED
  BY Invariance, <1>1, PTL

\* No answer to a search, however late, follows the goodbye of Stop.
THEOREM GoodbyeIsFinal == Spec => []NoAnswerAfterGoodbye
<1>1. IInv => NoAnswerAfterGoodbye
  BY DEF IInv, TypeOK, Phases, Heard, NoAnswerAfterGoodbye
<1>2. QED
  BY Invariance, <1>1, PTL

\* Stop and Dispose leave no SSDP thread behind.
THEOREM NoThreadLeft == Spec => []ThreadGone
BY Invariance, PTL DEF IInv

\* In a run that finds no STOP of an earlier one the SSDP thread listens until
\* it is stopped.
THEOREM HearsUntilStopped == Spec => []DeafOnlyByLeftover
<1>1. IInv => DeafOnlyByLeftover
  BY DEF IInv, TypeOK, Hearing, DeafOnlyByLeftover
<1>2. QED
  BY Invariance, <1>1, PTL
-----------------------------------------------------------------------------
(* The registry keeps the promise of Advertisement.                        *)

\* A step of the application, or the Start that succeeds.
LEMMA CallsRefine ==
  ASSUME IInv, (\E d \in Devices : Register(d) \/ Unregister(d)) \/ StartOk \/ StopBegin
  PROVE  Ad!Next
<1> USE DEF IInv, TypeOK, Phases
<1>1. ASSUME NEW d \in Devices, Register(d) PROVE Ad!Register(d)
  <2>1. observing => heard' = [e \in Devices |-> IF e \in {d} /\ listed THEN "alive" ELSE heard[e]]
    BY <1>1 DEF Register, Say
  <2>2. ~(observing /\ listed) => heard' = heard
    BY <1>1 DEF Register, Say
  <2>3. QED
    BY <1>1, <2>1, <2>2 DEF Register, ssdpVars, Ad!Register, Ad!Claim
<1>2. ASSUME NEW d \in Devices, Unregister(d) PROVE Ad!Unregister(d)
  <2>1. observing => heard' = [e \in Devices |-> IF e \in {d} /\ listed THEN "byebye" ELSE heard[e]]
    BY <1>2 DEF Unregister, Say
  <2>2. ~(observing /\ listed) => heard' = heard
    BY <1>2 DEF Unregister, Say
  <2>3. QED
    BY <1>2, <2>1, <2>2 DEF Unregister, ssdpVars, Ad!Unregister, Ad!Claim
<1>3. CASE StartOk
  <2>1. ~listed' => heard' = heard
    BY <1>3 DEF StartOk, Say
  <2>2. listed' => heard' = [d \in Devices |-> IF d \in devices THEN "alive" ELSE heard[d]]
    BY <1>3 DEF StartOk, Say
  <2>3. Ad!GoOnline
    BY <1>3, <2>1, <2>2 DEF StartOk, StartBegin, Ad!GoOnline
  <2>4. QED
    BY <2>3 DEF Ad!Next
<1>4. CASE StopBegin
  <2>1. ~listed => heard' = heard
    BY <1>4 DEF StopBegin, Say
  <2>2. listed => heard' = [d \in Devices |-> IF d \in devices THEN "byebye" ELSE heard[d]]
    BY <1>4 DEF StopBegin, Say
  <2>3. Ad!GoOffline
    BY <1>4, <2>1, <2>2 DEF StopBegin, ssdpVars, Ad!GoOffline, Ad!Claim
  <2>4. QED
    BY <2>3 DEF Ad!Next
<1>5. QED
  BY <1>1, <1>2, <1>3, <1>4 DEF Ad!Next

\* An answer is one for all devices, or says nothing new.
LEMMA AnswerRefines ==
  ASSUME IInv, SearchAnswer PROVE Ad!Next \/ UNCHANGED Ad!vars
<1> USE DEF IInv, TypeOK, MutexHeld, Phases, Heard, InStop
<1>1. UNCHANGED <<devices, observing, listed>>
  BY DEF SearchAnswer, ssdpVars
<1>2. CASE observing
  <2>1. ~listed => heard' = heard
    BY DEF SearchAnswer, Say
  <2>2. listed /\ running /\ sockets
          => heard' = [d \in Devices |-> IF d \in devices THEN "alive" ELSE heard[d]]
    BY DEF SearchAnswer, Say
  <2>3. sockets /\ running
    BY <1>2 DEF Hearing
  <2>4. Ad!Answer
    BY <1>1, <1>2, <2>1, <2>2, <2>3 DEF Ad!Answer, Ad!Claim
  <2>5. QED
    BY <2>4 DEF Ad!Next
<1>3. CASE ~observing
  <2>1. heard' = heard
    <3>1. CASE running /\ sockets /\ listed
      <4>1. \A d \in Devices : d \in devices => heard[d] = "alive"
        BY <1>3, <3>1 DEF SearchAnswer
      <4>2. QED
        BY <3>1, <4>1 DEF SearchAnswer, Say
    <3>2. CASE ~(running /\ sockets /\ listed)
      BY <3>2 DEF SearchAnswer, Say
    <3>3. QED
      BY <3>1, <3>2
  <2>2. QED
    BY <1>1, <2>1 DEF Ad!vars
<1>4. QED
  BY <1>2, <1>3

\* With mutex, sockets and thread the registry implements Advertisement.
THEOREM Refinement == Spec => AdvertisementSpec
<1>1. Init => Ad!Init
  BY DEF Init, Ad!Init
<1>2. IInv /\ [Next]_vars => [Ad!Next]_(Ad!vars)
  <2> SUFFICES ASSUME IInv, [Next]_vars PROVE Ad!Next \/ UNCHANGED Ad!vars
    OBVIOUS
  <2> USE DEF Ad!vars, ssdpVars
  <2>1. CASE (\E d \in Devices : Register(d) \/ Unregister(d)) \/ StartOk \/ StopBegin
    BY <2>1, CallsRefine
  <2>2. CASE StartRefused \/ StopRefused
    BY <2>2 DEF StartRefused, StopRefused
  <2>3. CASE StartNoSocket
    <3>1. Ad!OpenSockets
      BY <2>3 DEF StartNoSocket, StartBegin, Ad!OpenSockets, IInv, Phases
    <3>2. QED
      BY <3>1 DEF Ad!Next
  <2>4. CASE DisposeBegin
    <3>1. CASE observing
      <4>1. Ad!Vanish
        BY <2>4, <3>1 DEF DisposeBegin, Ad!Vanish
      <4>2. QED
        BY <4>1 DEF Ad!Next
    <3>2. CASE ~observing
      BY <2>4, <3>2 DEF DisposeBegin, IInv, TypeOK
    <3>3. QED
      BY <3>1, <3>2
  <2>5. CASE OwnerStep
    BY <2>5 DEF OwnerStep, StopSend, StopClose, StopClearRunning, StopJoin
  <2>6. CASE SearchAnswer
    BY <2>6, AnswerRefines
  <2>7. CASE SsdpStep /\ ~SearchAnswer
    BY <2>7 DEF SsdpStep, LoopAgain, LoopEnds, SelectStop, SelectError, SelectMessage,
                ReadOther, ReadSearch, SearchLock, Goto
  <2>8. CASE UNCHANGED vars
    BY <2>8 DEF vars
  <2>9. QED
    BY <2>1, <2>2, <2>3, <2>4, <2>5, <2>6, <2>7, <2>8 DEF Next
<1>3. QED
  BY Invariance, <1>1, <1>2, PTL DEF Spec, AdvertisementSpec, Ad!Spec

-----------------------------------------------------------------------------
(* The discovering side: what the control point is told about devices is   *)
(* right for any number of devices, scans and messages, lost, repeated or  *)
(* reordered.                                                              *)

USE UsnTypes, NtTypes, MaxScansNat, MaxChangesNat, FilterOfScans

LEMMA DiscoveryTypeInit == DiscoveryInit => DiscoveryTypeOK
<1> SUFFICES ASSUME DiscoveryInit PROVE DiscoveryTypeOK
  OBVIOUS
<1>1. told \in [Usns -> {"nothing", "alive", "gone"}] /\ hearer \in [Usns -> 0..MaxScans]
  BY DEF DiscoveryInit
<1>2. passed \in (0..MaxScans) \X (0..MaxScans)
  BY DEF DiscoveryInit
<1>3. scan \in [listener : 0..MaxScans, filter : 0..MaxScans, context : 0..MaxScans]
  BY DEF DiscoveryInit
<1>4. {ssdpRunning, validator, listener, context, raced} \subseteq BOOLEAN
  BY DEF DiscoveryInit
<1>5. scans \in 0..MaxScans /\ changes \in 0..MaxChanges
  BY DEF DiscoveryInit
<1> QED BY <1>1, <1>2, <1>3, <1>4, <1>5 DEF DiscoveryInit, DiscoveryTypeOK

LEMMA DiscoveryTypeStep == DiscoveryTypeOK /\ [DiscoveryNext]_discoveryVars => DiscoveryTypeOK'
<1> SUFFICES ASSUME DiscoveryTypeOK, [DiscoveryNext]_discoveryVars PROVE DiscoveryTypeOK'
  OBVIOUS
<1> USE DEF DiscoveryTypeOK, scanVars, netVars, foundVars, reports
<1>1. ASSUME NEW u \in Usns, Come(u) PROVE DiscoveryTypeOK'
  BY <1>1 DEF Come, Messages, Kinds
<1>2. ASSUME NEW u \in Usns, Leave(u) PROVE DiscoveryTypeOK'
  BY <1>2 DEF Leave, Messages, Kinds
<1>3. CASE SsdpToggles
  BY <1>3 DEF SsdpToggles
<1>4. CASE StartScan
  <2>1. scans + 1 \in 0..MaxScans
    BY <1>4 DEF StartScan
  <2> QED BY <1>4, <2>1 DEF StartScan, AppStep
<1>5. CASE SetFilter \/ SetContext
  BY <1>5 DEF SetFilter, SetContext, AppStep
<1>6. CASE SetValidator \/ SetListener \/ SetListenerCtx \/ StopScan
  BY <1>6 DEF SetValidator, SetListener, SetListenerCtx, StopScan, AppStep
<1>7. CASE SendSearch
  <2>1. [kind : {"response"}, usn : present] \subseteq Messages
    BY DEF Messages, Kinds
  <2> QED BY <1>7, <2>1 DEF SendSearch, AppStep
<1>8. ASSUME NEW m \in sent, Receive(m) PROVE DiscoveryTypeOK'
  BY <1>8 DEF Receive, MessageStep
<1>9. CASE Test \/ Validate
  BY <1>9 DEF Test, Validate, MessageStep
<1>10. CASE Lookup
  <2>1. News /\ msg.kind # "byebye" => msg.usn \in Usns
    BY <1>10 DEF Lookup, MessageStep, Messages
  <2>2. found' \subseteq Usns
    BY <1>10, <2>1 DEF Lookup
  <2> QED BY <1>10, <2>2 DEF Lookup, MessageStep
<1>11. CASE CallListener
  BY <1>11 DEF CallListener, MessageStep
<1>12. CASE Notify
  <2>1. told' \in [Usns -> {"nothing", "alive", "gone"}]
    BY <1>12 DEF Notify, Tell
  <2>2. hearer' \in [Usns -> 0..MaxScans]
    BY <1>12 DEF Notify, Tell
  <2> QED BY <1>12, <2>1, <2>2 DEF Notify, MessageStep
<1>13. CASE UNCHANGED discoveryVars
  BY <1>13 DEF discoveryVars
<1> QED BY <1>1, <1>2, <1>3, <1>4, <1>5, <1>6, <1>7, <1>8, <1>9, <1>10, <1>11, <1>12, <1>13
        DEF DiscoveryNext, Scanning, Handling

\* The variables of discovery have their types.
THEOREM DiscoveryTypeCorrect == DiscoverySpec => []DiscoveryTypeOK
BY DiscoveryTypeInit, DiscoveryTypeStep, PTL DEF DiscoverySpec

-----------------------------------------------------------------------------
\* How far StartScan has come is how much of the scan is written.
ScanOK ==
  /\ scan.listener = scans
  /\ app # "filter" => scan.filter = scans
  /\ app \notin {"filter", "context"} => scan.context = scans
  /\ app # "idle" => scans > 0
  /\ app \in {"listener", "listenerCtx"} => validator
  /\ listener => scans > 0 /\ validator
  /\ listener /\ app # "listenerCtx" => context

\* The message in hand, as long as nobody has come between.
CleanOK ==
  (~raced /\ ssdpThread # "idle") =>
    /\ app = "idle" /\ ssdpThread # "fault" /\ msg \in Messages
    /\ ssdpThread # "test" => listener
    /\ ssdpThread \in {"lookup", "call", "notify"} =>
         passed = <<scan.filter, scan.context>> /\ msg.usn \in FilterOf[scan.filter]

CleanInv == DiscoveryTypeOK /\ ScanOK /\ CleanOK

LEMMA CleanInit == DiscoveryInit => CleanInv
BY DiscoveryTypeInit DEF DiscoveryInit, CleanInv, ScanOK, CleanOK

LEMMA ScanStep == DiscoveryTypeOK /\ ScanOK /\ [DiscoveryNext]_discoveryVars => ScanOK'
<1> SUFFICES ASSUME DiscoveryTypeOK, ScanOK, [DiscoveryNext]_discoveryVars PROVE ScanOK'
  OBVIOUS
<1> USE DEF ScanOK, scanVars, netVars, foundVars, reports
<1>1. CASE StartScan
  BY <1>1 DEF StartScan, AppStep, DiscoveryTypeOK
<1>2. CASE SetFilter \/ SetContext
  BY <1>2 DEF SetFilter, SetContext, AppStep, DiscoveryTypeOK
<1>3. CASE SetValidator \/ SetListener \/ SetListenerCtx \/ SendSearch \/ StopScan
  BY <1>3 DEF SetValidator, SetListener, SetListenerCtx, SendSearch, StopScan, AppStep,
              DiscoveryTypeOK
<1>4. CASE UNCHANGED scanVars
  BY <1>4
<1>5. (\E u \in Usns : Come(u) \/ Leave(u)) => UNCHANGED scanVars
  BY DEF Come, Leave
<1>6. SsdpToggles \/ UNCHANGED discoveryVars => UNCHANGED scanVars
  BY DEF SsdpToggles, discoveryVars
<1>7. (\E m \in sent : Receive(m)) => UNCHANGED scanVars
  BY DEF Receive, MessageStep
<1>8. Handling => UNCHANGED scanVars
  BY DEF Handling, Test, Validate, Lookup, CallListener, Notify, MessageStep
<1> QED BY <1>1, <1>2, <1>3, <1>4, <1>5, <1>6, <1>7, <1>8 DEF DiscoveryNext, Scanning

\* A step of the application between two steps of the SSDP thread is a race.
LEMMA AppRaces ==
  ASSUME DiscoveryTypeOK, CleanOK, StartScan \/ Scanning \/ StopScan
  PROVE  CleanOK'
<1>1. ssdpThread' = ssdpThread /\ raced' = (raced \/ ssdpThread # "idle")
  BY DEF Scanning, StartScan, SetFilter, SetContext, SetValidator, SetListener, SetListenerCtx,
         SendSearch, StopScan, AppStep, foundVars, reports
<1>2. CASE ssdpThread = "idle"
  BY <1>1, <1>2 DEF CleanOK
<1>3. CASE ssdpThread # "idle"
  <2>1. raced' = TRUE
    BY <1>1, <1>3
  <2> QED BY <2>1 DEF CleanOK
<1> QED BY <1>2, <1>3

LEMMA CleanStep == CleanInv /\ [DiscoveryNext]_discoveryVars => CleanInv'
<1> SUFFICES ASSUME CleanInv, [DiscoveryNext]_discoveryVars PROVE CleanOK'
  BY DiscoveryTypeStep, ScanStep DEF CleanInv
<1> USE DEF CleanInv, CleanOK, scanVars, netVars, foundVars, reports
<1>1. CASE \E u \in Usns : Come(u) \/ Leave(u)
  BY <1>1 DEF Come, Leave
<1>2. CASE SsdpToggles
  BY <1>2 DEF SsdpToggles
<1>3. CASE StartScan \/ Scanning \/ StopScan
  BY <1>3, AppRaces
<1>4. ASSUME NEW m \in sent, Receive(m) PROVE CleanOK'
  BY <1>4 DEF Receive, MessageStep, DiscoveryTypeOK
<1>5. CASE Test
  BY <1>5 DEF Test, MessageStep
<1>6. CASE Validate
  <2>1. CASE ~raced
    <3>1. listener /\ validator /\ scan.filter # 0 /\ msg \in Messages
      BY <1>6, <2>1 DEF Validate, MessageStep, ScanOK, DiscoveryTypeOK
    <3>2. Passes(msg.usn) => msg.usn \in FilterOf[scan.filter]
      BY <3>1 DEF Passes
    <3> QED BY <1>6, <2>1, <3>1, <3>2 DEF Validate, MessageStep
  <2>2. CASE raced
    BY <1>6, <2>2 DEF Validate, MessageStep
  <2> QED BY <2>1, <2>2
<1>7. CASE Lookup
  BY <1>7 DEF Lookup, MessageStep
<1>8. CASE CallListener
  <2>1. CASE ~raced
    <3>1. listener = TRUE /\ context = TRUE
      BY <1>8, <2>1 DEF CallListener, MessageStep, ScanOK, DiscoveryTypeOK
    <3>2. ssdpThread' = "notify"
      BY <1>8, <3>1 DEF CallListener, MessageStep
    <3> QED BY <1>8, <2>1, <3>2 DEF CallListener, MessageStep
  <2>2. CASE raced
    BY <1>8, <2>2 DEF CallListener, MessageStep
  <2> QED BY <2>1, <2>2
<1>9. CASE Notify
  BY <1>9 DEF Notify, MessageStep
<1>10. CASE UNCHANGED discoveryVars
  BY <1>10 DEF discoveryVars
<1> QED BY <1>1, <1>2, <1>3, <1>4, <1>5, <1>6, <1>7, <1>8, <1>9, <1>10 DEF DiscoveryNext, Handling

\* The SSDP thread calls a listener of the scan that let the object through,
\* and never one that is gone, unless the application is in StartScan or
\* StopScan at the same time (UpnpRegistry.c:191-295, UpnpRuntime.c:221-239).
THEOREM CallsAreClean == DiscoverySpec => []CleanUnlessRaced
<1>1. CleanInv => CleanUnlessRaced
  BY DEF CleanInv, DiscoveryTypeOK, ScanOK, CleanOK, CleanUnlessRaced
<1> QED BY <1>1, CleanInit, CleanStep, PTL DEF DiscoverySpec

-----------------------------------------------------------------------------
\* An object of which the thread has news that it has not told yet.
InHand(u) == ssdpThread \in {"call", "notify", "fault"} /\ msg.usn = u

ListOK ==
  /\ ssdpThread # "idle" => msg \in Messages
  /\ (ssdpThread \in {"call", "notify"} /\ msg.kind # "byebye") => msg.usn \in found
  /\ \A u \in Usns :
       (NtType[u] = "device" /\ ~(InHand(u) /\ msg.kind # "byebye")) =>
         (told[u] = "alive" <=> u \in found)

ReportInv == DiscoveryTypeOK /\ ListOK

LEMMA ReportInit == DiscoveryInit => ReportInv
BY DiscoveryTypeInit DEF DiscoveryInit, ReportInv, ListOK

LEMMA ReportStep == ReportInv /\ [DiscoveryNext]_discoveryVars => ReportInv'
<1> SUFFICES ASSUME ReportInv, [DiscoveryNext]_discoveryVars PROVE ListOK'
  BY DiscoveryTypeStep DEF ReportInv
<1> USE DEF ReportInv, ListOK, InHand, scanVars, netVars, foundVars, reports
<1>1. CASE UNCHANGED foundVars
  BY <1>1
<1>2. (\E u \in Usns : Come(u) \/ Leave(u)) \/ SsdpToggles \/ UNCHANGED discoveryVars
      => UNCHANGED foundVars
  BY DEF Come, Leave, SsdpToggles, discoveryVars
<1>3. StartScan \/ Scanning \/ StopScan => UNCHANGED foundVars
  BY DEF Scanning, StartScan, SetFilter, SetContext, SetValidator, SetListener, SetListenerCtx,
         SendSearch, StopScan, AppStep
<1>4. ASSUME NEW m \in sent, Receive(m) PROVE ListOK'
  BY <1>4 DEF Receive, MessageStep, DiscoveryTypeOK
<1>5. CASE Test \/ Validate
  BY <1>5 DEF Test, Validate, MessageStep
<1>6. CASE Lookup
  <2>1. msg' = msg /\ told' = told /\ ssdpThread = "lookup" /\ msg \in Messages
    BY <1>6 DEF Lookup, MessageStep
  <2>2. CASE News /\ msg.kind # "byebye"
    <3>1. ssdpThread' = "call" /\ found' = found \cup {msg.usn}
      BY <1>6, <2>2 DEF Lookup, MessageStep
    <3> QED BY <2>1, <2>2, <3>1
  <2>3. CASE ~(News /\ msg.kind # "byebye")
    <3>1. found' = found
      BY <1>6, <2>3 DEF Lookup
    <3>2. ssdpThread' = "idle" \/ (ssdpThread' = "call" /\ msg.kind = "byebye")
      BY <1>6, <2>3 DEF Lookup, MessageStep
    <3> QED BY <2>1, <3>1, <3>2
  <2> QED BY <2>2, <2>3
<1>7. CASE CallListener
  BY <1>7 DEF CallListener, MessageStep
<1>8. CASE Notify
  <2>1. msg' = msg /\ ssdpThread = "notify" /\ ssdpThread' = "idle" /\ msg \in Messages
    BY <1>8 DEF Notify, MessageStep
  <2>2. msg.usn \in Usns
    BY <2>1 DEF Messages
  <2>3. ASSUME NEW u \in Usns, NtType[u] = "device"
        PROVE  told'[u] = "alive" <=> u \in found'
    <3>1. CASE u = msg.usn
      BY <1>8, <2>1, <2>2, <2>3, <3>1 DEF Notify, Tell, DiscoveryTypeOK
    <3>2. CASE u # msg.usn
      BY <1>8, <2>1, <2>2, <2>3, <3>2 DEF Notify, Tell, DiscoveryTypeOK
    <3> QED BY <3>1, <3>2
  <2> QED BY <2>1, <2>3
<1> QED BY <1>1, <1>2, <1>3, <1>4, <1>5, <1>6, <1>7, <1>8 DEF DiscoveryNext, Handling

\* The reports about a device alternate: the list of the objects that were
\* found is what the listeners were told (UpnpRegistry.c:257-328, 440-478).
THEOREM ReportsDoAlternate == DiscoverySpec => []ReportsAlternate
<1>1. ReportInv => ReportsAlternate
  BY DEF ReportInv, ListOK, InHand, ReportsAlternate
<1> QED BY <1>1, ReportInit, ReportStep, PTL DEF DiscoverySpec
=============================================================================
