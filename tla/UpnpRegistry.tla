---------------------------- MODULE UpnpRegistry ----------------------------
(***************************************************************************)
(* UpnpStack/UpnpRegistry: the registry announces the provider's devices   *)
(* with SSDP and answers searches (M-SEARCH) on a thread of its own.       *)
(*                                                                         *)
(* UpnpRegistry_Start and Stop hold the provider's mutex to their end.     *)
(* Stop joins the SSDP thread with the mutex held; the SSDP thread takes   *)
(* the same mutex to answer a search.                                      *)
(*                                                                         *)
(* Threads: the application's threads (Register, Unregister), the owner    *)
(* of the runtime (Start, Stop, Dispose) and the SSDP thread.  What the    *)
(* application does under the mutex is one step: everything it touches is  *)
(* read under the mutex only, by the others as well.                       *)
(***************************************************************************)
EXTENDS Naturals

CONSTANTS
  Devices,
  MaxStarts    \* bound: how often the owner calls UpnpRegistry_Start

ASSUME MaxStartsNat == MaxStarts \in Nat

VARIABLES
  lock,        \* provider->mutex: "free", "owner" or "ssdp"
  devices,     \* provider->devices
  observing,   \* the provider has the observer "Registry"
  running,     \* ssdp.running
  sockets,     \* the sockets of ssdp are open
  listed,      \* the list of multicast sockets is not empty
  stopMsgs,    \* STOP datagrams that wait in the socket of ssdp.ipc
  thread,      \* where the SSDP thread is
  owner,       \* where the owner is in UpnpRegistry_Stop or Ssdp_Dispose
  disposing,   \* the owner is in UpnpRegistry_Dispose
  result,      \* what Start or Stop has returned last
  (* history *)
  starts,      \* calls of UpnpRegistry_Start
  leftover,    \* a STOP datagram was waiting when this run was started
  heard        \* heard[d]: what was last said about d on the network

ssdpVars == <<running, sockets, listed, stopMsgs>>
vars == <<lock, devices, observing, ssdpVars, thread, owner, disposing, result,
          starts, leftover, heard>>

Ad == INSTANCE Advertisement WITH online <- observing, audible <- listed

Init ==
  /\ lock = "free" /\ devices = {} /\ observing = FALSE
  /\ running = FALSE /\ sockets = FALSE /\ listed = FALSE /\ stopMsgs = 0
  /\ thread = "none" /\ owner = "idle" /\ disposing = FALSE /\ result = "none"
  /\ starts = 0 /\ leftover = FALSE /\ heard = [d \in Devices |-> "nothing"]

\* Ssdp_SendMessage for each of these devices: one message per interface,
\* unless Ssdp is not running.
Say(ds, what, up, interfaces) ==
  heard' = [d \in Devices |-> IF d \in ds /\ up /\ interfaces THEN what ELSE heard[d]]

-----------------------------------------------------------------------------
(* The application, through the provider and its observer.                 *)

Register(d) ==
  /\ lock = "free" /\ ~disposing /\ d \notin devices
  /\ devices' = devices \cup {d}
  /\ Say(IF observing THEN {d} ELSE {}, "alive", running, listed)
  /\ UNCHANGED <<lock, observing, ssdpVars, thread, owner, disposing, result, starts, leftover>>

Unregister(d) ==
  /\ lock = "free" /\ ~disposing /\ d \in devices
  /\ devices' = devices \ {d}
  /\ Say(IF observing THEN {d} ELSE {}, "byebye", running, listed)
  /\ UNCHANGED <<lock, observing, ssdpVars, thread, owner, disposing, result, starts, leftover>>

-----------------------------------------------------------------------------
(* The owner.  Start runs under the mutex and the thread it makes can do   *)
(* nothing that shows before Start returns.                                *)

StartBegin == owner = "idle" /\ lock = "free" /\ ~disposing /\ starts < MaxStarts
              /\ starts' = starts + 1

StartRefused ==
  /\ StartBegin
  /\ \/ running /\ result' = "E_STARTED"
     \/ ~running /\ listed /\ result' = "E_ITEM_EXIST"
  /\ UNCHANGED <<lock, devices, observing, ssdpVars, thread, owner, disposing, leftover, heard>>

\* The socket for searches cannot be opened; those for multicast stay open.
StartNoSocket ==
  /\ StartBegin /\ ~running /\ ~listed
  /\ listed' \in BOOLEAN
  /\ sockets' = listed'
  /\ result' = "E_SOCKET"
  /\ UNCHANGED <<lock, devices, observing, running, stopMsgs, thread, owner, disposing,
                 leftover, heard>>

\* Mutant: the devices that were registered before are not announced.
StartOk_Silent ==
  /\ StartBegin /\ ~running /\ ~listed
  /\ listed' \in BOOLEAN
  /\ sockets' = TRUE /\ running' = TRUE /\ thread' = "loop" /\ observing' = TRUE
  /\ leftover' = (stopMsgs > 0)
  /\ result' = "OK"
  /\ UNCHANGED <<lock, devices, stopMsgs, owner, disposing, heard>>

StartOk ==
  /\ StartBegin /\ ~running /\ ~listed
  /\ listed' \in BOOLEAN
  /\ sockets' = TRUE /\ running' = TRUE /\ thread' = "loop" /\ observing' = TRUE
  /\ leftover' = (stopMsgs > 0)
  /\ Say(devices, "alive", TRUE, listed')
  /\ result' = "OK"
  /\ UNCHANGED <<lock, devices, stopMsgs, owner, disposing>>

StopRefused ==
  /\ owner = "idle" /\ lock = "free" /\ ~disposing /\ ~observing
  /\ result' = "E_NOT_FOUND"
  /\ UNCHANGED <<lock, devices, observing, ssdpVars, thread, owner, disposing,
                 starts, leftover, heard>>

\* Mutant: Stop does not hold the mutex.
StopBegin_Unlocked ==
  /\ owner = "idle" /\ lock = "free" /\ ~disposing /\ observing
  /\ Say(devices, "byebye", running, listed)
  /\ observing' = FALSE
  /\ owner' = "send"
  /\ UNCHANGED <<lock, devices, ssdpVars, thread, disposing, result, starts, leftover>>

\* Mutex, then RemoveObserver, which says goodbye for every device.
StopBegin ==
  /\ owner = "idle" /\ lock = "free" /\ ~disposing /\ observing
  /\ Say(devices, "byebye", running, listed)
  /\ observing' = FALSE
  /\ lock' = "owner" /\ owner' = "send"
  /\ UNCHANGED <<devices, ssdpVars, thread, disposing, result, starts, leftover>>

\* Mutant: Dispose holds the mutex, as Stop does.
DisposeBegin_Locked ==
  /\ owner = "idle" /\ lock = "free" /\ ~disposing
  /\ disposing' = TRUE
  /\ observing' = FALSE
  /\ lock' = "owner"
  /\ owner' = IF running THEN "send" ELSE "disposed"
  /\ UNCHANGED <<devices, ssdpVars, thread, result, starts, leftover, heard>>

\* UpnpRegistry_Dispose -> Ssdp_Dispose -> Ssdp_Stop, with no mutex and no
\* goodbye; the observer goes with the provider.
DisposeBegin ==
  /\ owner = "idle" /\ ~disposing
  /\ disposing' = TRUE
  /\ observing' = FALSE
  /\ owner' = IF running THEN "send" ELSE "disposed"
  /\ UNCHANGED <<lock, devices, ssdpVars, thread, result, starts, leftover, heard>>

\* Mutant: the SSDP thread is not woken up.
StopSend_Nothing ==
  /\ owner = "send" /\ owner' = "close"
  /\ UNCHANGED <<lock, devices, observing, ssdpVars, thread, disposing, result,
                 starts, leftover, heard>>

StopSend ==
  /\ owner = "send" /\ owner' = "close"
  /\ stopMsgs' = stopMsgs + 1
  /\ UNCHANGED <<lock, devices, observing, running, sockets, listed, thread,
                 disposing, result, starts, leftover, heard>>

\* The sockets are closed and stay in the list.
StopClose ==
  /\ owner = "close" /\ owner' = "clearRunning"
  /\ sockets' = FALSE
  /\ UNCHANGED <<lock, devices, observing, running, listed, stopMsgs, thread,
                 disposing, result, starts, leftover, heard>>

StopClearRunning ==
  /\ owner = "clearRunning" /\ owner' = "join"
  /\ running' = FALSE
  /\ UNCHANGED <<lock, devices, observing, sockets, listed, stopMsgs, thread,
                 disposing, result, starts, leftover, heard>>

StopJoin ==
  /\ owner = "join" /\ thread = "exited"
  /\ IF disposing THEN owner' = "disposed" /\ UNCHANGED <<lock, result>>
                  ELSE owner' = "idle" /\ lock' = "free" /\ result' = "OK"
  /\ UNCHANGED <<devices, observing, ssdpVars, thread, disposing, starts, leftover, heard>>

-----------------------------------------------------------------------------
(* Ssdp_Loop                                                               *)

Goto(from, to) ==
  /\ thread = from /\ thread' = to
  /\ UNCHANGED <<lock, devices, observing, running, sockets, listed, owner, disposing,
                 result, starts, leftover, heard>>

LoopAgain == running /\ Goto("loop", "select") /\ UNCHANGED stopMsgs
LoopEnds  == ~running /\ Goto("loop", "exited") /\ UNCHANGED stopMsgs

\* Mutant: whatever wakes the loop up is taken for a STOP datagram.
SelectStop_Any == Goto("select", "exited") /\ stopMsgs' = stopMsgs - 1

\* The STOP datagram is looked at before any message.
SelectStop == stopMsgs > 0 /\ Goto("select", "exited") /\ stopMsgs' = stopMsgs - 1

\* select on a closed descriptor fails; one that waits already does not notice.
SelectError == ~sockets /\ Goto("select", "exited") /\ UNCHANGED stopMsgs

SelectMessage == sockets /\ stopMsgs = 0 /\ Goto("select", "read") /\ UNCHANGED stopMsgs

\* Nothing to read any more, or a message that does not need the provider.
ReadOther == Goto("read", "loop") /\ UNCHANGED stopMsgs

ReadSearch == sockets /\ Goto("read", "search") /\ UNCHANGED stopMsgs

SearchLock ==
  /\ lock = "free" /\ thread = "search"
  /\ lock' = "ssdp" /\ thread' = "answer"
  /\ UNCHANGED <<devices, observing, ssdpVars, owner, disposing, result,
                 starts, leftover, heard>>

SearchAnswer ==
  /\ thread = "answer"
  /\ Say(devices, "alive", running /\ sockets, listed)
  /\ lock' = "free" /\ thread' = "loop"
  /\ UNCHANGED <<devices, observing, ssdpVars, owner, disposing, result, starts, leftover>>

-----------------------------------------------------------------------------
OwnerStep == StopSend \/ StopClose \/ StopClearRunning \/ StopJoin

SsdpStep ==
  \/ LoopAgain \/ LoopEnds
  \/ SelectStop \/ SelectError \/ SelectMessage
  \/ ReadOther \/ ReadSearch \/ SearchLock \/ SearchAnswer

Next ==
  \/ \E d \in Devices : Register(d) \/ Unregister(d)
  \/ StartRefused \/ StartNoSocket \/ StartOk
  \/ StopRefused \/ StopBegin \/ DisposeBegin
  \/ OwnerStep \/ SsdpStep

Spec == Init /\ [][Next]_vars

(* The scheduler runs the owner inside Stop or Dispose and the SSDP thread *)
(* wherever it can go on.  Nobody is obliged to send messages, and a       *)
(* thread that waits in select need not notice that its sockets are gone.  *)
Fairness ==
  /\ WF_vars(OwnerStep)
  /\ WF_vars(LoopAgain \/ LoopEnds)
  /\ WF_vars(SelectStop)
  /\ WF_vars(ReadOther \/ ReadSearch)
  /\ WF_vars(SearchLock \/ SearchAnswer)

FairSpec == Spec /\ Fairness
-----------------------------------------------------------------------------
(* Properties                                                              *)

\* The range of every variable.
TypeOK ==
  /\ lock \in {"free", "owner", "ssdp"}
  /\ devices \subseteq Devices
  /\ observing \in BOOLEAN /\ running \in BOOLEAN /\ sockets \in BOOLEAN
  /\ listed \in BOOLEAN /\ disposing \in BOOLEAN
  /\ stopMsgs \in Nat /\ starts \in Nat /\ leftover \in BOOLEAN
  /\ thread \in {"none", "loop", "select", "read", "search", "answer", "exited"}
  /\ owner \in {"idle", "send", "close", "clearRunning", "join", "disposed"}
  /\ result \in {"none", "OK", "E_STARTED", "E_ITEM_EXIST", "E_SOCKET", "E_NOT_FOUND"}
  /\ heard \in [Devices -> Ad!Claims]

\* While the host is online, what the network last heard of a device is alive
\* exactly when the device is registered.
HeardIsRegistered ==
  observing /\ listed => \A d \in Devices : heard[d] = "alive" <=> d \in devices

\* From the goodbye of Stop on, the network is left with no device it believes
\* alive: no answer to a search, however late, follows the goodbye.
NoAnswerAfterGoodbye ==
  ~observing /\ ~disposing => \A d \in Devices : heard[d] # "alive"

\* When Stop or Dispose has returned, the SSDP thread is gone: what it uses may
\* be freed.
ThreadGone ==
  owner \in {"idle", "disposed"} /\ ~running => thread \in {"none", "exited"}

\* A registry that runs hears the network until it is stopped, in every run that
\* has not found the STOP datagram of an earlier one: that one ends its thread.
DeafOnlyByLeftover ==
  running /\ owner = "idle" /\ thread = "exited" => leftover

\* The promise of Advertisement, kept with mutex, sockets and thread.
AdvertisementSpec == Ad!Spec

\* Stop returns, unless the SSDP thread waits for the mutex that Stop holds, to
\* answer a search: the one way in which it does not.
StopReturnsUnlessSearched ==
  owner = "send" ~> owner \in {"idle", "disposed"} \/ (thread = "search" /\ lock = "owner")

\* Dispose, which does not take the mutex, returns in any case.
DisposeReturns == disposing ~> owner = "disposed"

\* The program that uses the stack prints what Stop returns and goes on to
\* delete everything: Stop returns.
StopReturns == owner = "send" ~> owner \in {"idle", "disposed"}

-----------------------------------------------------------------------------
(* What makes the properties above inductive: who holds the mutex in which *)
(* phase, and what the network has heard by then.                          *)

InStop == owner \in {"send", "close", "clearRunning", "join"}

\* Stop holds the mutex to its end, Dispose never takes it, and the SSDP thread
\* has it to answer.
MutexHeld ==
  /\ lock = "owner" <=> InStop /\ ~disposing
  /\ lock = "ssdp" <=> thread = "answer"

Phases ==
  /\ observing <=> running /\ owner = "idle"
  /\ owner \in {"send", "close", "clearRunning"} => running
  /\ owner \in {"join", "disposed"} => ~running
  /\ owner = "idle" => ~disposing
  /\ owner = "disposed" => disposing

\* A run has no STOP datagram before its Stop but one that was left over.
Hearing ==
  /\ running /\ owner = "idle" => sockets
  /\ running /\ owner = "idle" /\ ~leftover => stopMsgs = 0 /\ thread # "exited"

\* What was heard matches the devices from Start to the goodbye, and to the end
\* of Dispose when there is none; otherwise nothing is believed alive.
Heard ==
  IF running /\ listed /\ (owner = "idle" \/ disposing)
  THEN \A d \in Devices : heard[d] = "alive" <=> d \in devices
  ELSE disposing \/ \A d \in Devices : heard[d] # "alive"

IInv == TypeOK /\ MutexHeld /\ Phases /\ ThreadGone /\ Hearing /\ Heard
=============================================================================
