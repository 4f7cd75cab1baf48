--------------------------- MODULE UpnpGenaServer ---------------------------
(***************************************************************************)
(* UpnpStack/UpnpHost/UpnpGenaServer: the subscribers of a service and the *)
(* events sent to them.                                                    *)
(*                                                                         *)
(* SUBSCRIBE and UNSUBSCRIBE are handled on connection threads, under the  *)
(* provider's mutex.  UpnpService_SendEvents runs on threads of the        *)
(* application without it: OnServiceChanged walks the list of subscribers  *)
(* by index while the list may be changing, and puts one job for each into *)
(* the queue of the notify worker.  A new subscriber gets an event with    *)
(* the current values, built and queued by the connection thread.          *)
(*                                                                         *)
(* There is one service with one evented variable, whose values are        *)
(* numbered in the order of its changes.  The queue is that of module      *)
(* TinyWorker, here with a worker that runs.                               *)
(***************************************************************************)
EXTENDS Naturals, Sequences

CONSTANTS
  Clients,        \* the callback URLs of control points
  Threads,        \* threads of the application that send events
  None,           \* no client, no subscriber
  MaxValue,       \* bound: changes of the variable
  MaxSubscribes,  \* bound: subscribers that are made
  MaxSends        \* bound: events that are sent

ASSUME NoneIsNoClient == None \notin Clients /\ None \notin [id : Nat, cb : Clients]
ASSUME Bounds == MaxValue \in Nat /\ MaxSubscribes \in Nat /\ MaxSends \in Nat

VARIABLES
  registered,   \* the service has its changedListener
  value,        \* the state variable; isChanged is value # 0
  subs,         \* subscriberList: records of a number and a callback
  size,         \* subscriberList.size
  http,         \* where the connection thread is that holds the mutex
  client,       \* the callback of its request
  initial,      \* the value in the event it builds
  queue,        \* jobs: records of a callback and a value
  pc,           \* pc[t]: where OnServiceChanged is on thread t
  event,        \* event[t]: callback and value of its local event
  count, index, \* its locals; index starts at 1 here
  at,           \* at[t]: the subscriber it got from the list
  (* history *)
  answer,       \* what the last UNSUBSCRIBE was answered
  made,         \* subscribers made so far
  sends,        \* events sent so far
  sent,         \* the value of the last event
  got,          \* got[c]: the last value that has arrived at c
  put,          \* put[t]: the callbacks of the jobs t has queued
  disturbed,    \* threads whose walk has met a change of the list
  overlapped,   \* threads whose event has met another event or a request
  suspect       \* clients to whom a notification has failed, or all when an event
                \* was overlapped, until the next event begins that is not

listVars == <<subs, size>>
httpVars == <<http, client, initial, answer, made>>
walkVars == <<pc, event, count, index, at, put>>
histVars == <<sends, sent, got>>
vars == <<registered, value, listVars, httpVars, queue, walkVars, histVars,
          disturbed, overlapped, suspect>>

Init ==
  /\ registered = FALSE /\ value = 0 /\ subs = <<>> /\ size = 0
  /\ http = "free" /\ client = None /\ initial = 0 /\ queue = <<>>
  /\ pc = [t \in Threads |-> "idle"]
  /\ event = [t \in Threads |-> [cb |-> None, value |-> 0]]
  /\ count = [t \in Threads |-> 0] /\ index = [t \in Threads |-> 1]
  /\ at = [t \in Threads |-> None]
  /\ answer = "none" /\ made = 0 /\ sends = 0 /\ sent = 0
  /\ got = [c \in Clients |-> 0] /\ put = [t \in Threads |-> <<>>]
  /\ disturbed = {} /\ overlapped = {} /\ suspect = {}

Walking == {t \in Threads : pc[t] # "idle"}

Subscribed(c) == \E i \in 1..Len(subs) : subs[i].cb = c

\* TinyList_GetAt, by links, not by size.
SubscriberAt(i) == IF i <= Len(subs) THEN subs[i] ELSE None

\* A request that changes the list meets the events under way.
MeetEvents == disturbed' = disturbed \cup Walking /\ overlapped' = overlapped \cup Walking

-----------------------------------------------------------------------------
(* The application, under the mutex for (un)registering.  Subscribers stay *)
(* with the service, whether it is registered or not.                      *)

SetRegistered ==
  /\ http = "free"
  /\ registered' = ~registered
  /\ UNCHANGED <<value, listVars, httpVars, queue, walkVars, histVars,
                 disturbed, overlapped, suspect>>

SetValue ==
  /\ value < MaxValue
  /\ value' = value + 1
  /\ UNCHANGED <<registered, listVars, httpVars, queue, walkVars, histVars,
                 disturbed, overlapped, suspect>>

-----------------------------------------------------------------------------
(* OnSubscribe.  A service that is not registered is not found (404).  A   *)
(* callback that is in the list already is looked up, but the pointer that *)
(* is found is tested as an error code: depending on its address it passes *)
(* or the request is refused, which changes nothing.                       *)

\* A new subscriber is counted before it is linked.
SubscribeCount(c) ==
  /\ http = "free" /\ registered /\ made < MaxSubscribes
  /\ size' = size + 1
  /\ http' = "link" /\ client' = c /\ answer' = "none"
  /\ MeetEvents
  /\ UNCHANGED <<registered, value, subs, initial, made, queue, walkVars, histVars,
                 suspect>>

\* AddSubscriber, then the response.
SubscribeLink ==
  /\ http = "link" /\ http' = "read"
  /\ subs' = Append(subs, [id |-> made + 1, cb |-> client])
  /\ made' = made + 1
  /\ UNCHANGED <<registered, value, size, client, initial, answer, queue, walkVars, histVars,
                 disturbed, overlapped, suspect>>

SubscribeRead ==
  /\ http = "read" /\ http' = "put"
  /\ initial' = value
  /\ UNCHANGED <<registered, value, listVars, client, answer, made, queue, walkVars, histVars,
                 disturbed, overlapped, suspect>>

\* Mutant: the first event is not queued.
SubscribePut_Nothing ==
  /\ http = "put" /\ http' = "free" /\ client' = None /\ initial' = 0
  /\ UNCHANGED <<registered, value, listVars, answer, made, queue, walkVars, histVars,
                 disturbed, overlapped, suspect>>

SubscribePut ==
  /\ http = "put" /\ http' = "free" /\ client' = None /\ initial' = 0
  /\ queue' = Append(queue, [cb |-> client, value |-> initial])
  /\ UNCHANGED <<registered, value, listVars, answer, made, walkVars, histVars,
                 disturbed, overlapped, suspect>>

-----------------------------------------------------------------------------
(* OnUnsubscribe.  All subscribers have the same SID, so that the request  *)
(* of any of them removes the first of the list; and TinyList_RemoveAt     *)
(* returns an error although it has removed a node.  When the service or a *)
(* subscriber is not found, nothing changes.                               *)

UnsubscribeUnlink(c) ==
  /\ http = "free" /\ registered /\ subs # <<>>
  /\ subs' = Tail(subs)
  /\ http' = "uncount" /\ client' = c /\ answer' = "none"
  /\ MeetEvents
  /\ UNCHANGED <<registered, value, size, initial, made, queue, walkVars, histVars,
                 suspect>>

\* Mutant: the deleted node is counted on.
UnsubscribeCount_Forgotten ==
  /\ http = "uncount" /\ http' = "free" /\ client' = None
  /\ answer' = "NOT_SUBSCRIBED"
  /\ UNCHANGED <<registered, value, listVars, initial, made, queue, walkVars, histVars,
                 disturbed, overlapped, suspect>>

UnsubscribeCount ==
  /\ http = "uncount" /\ http' = "free" /\ client' = None
  /\ size' = size - 1
  /\ answer' = "NOT_SUBSCRIBED"
  /\ UNCHANGED <<registered, value, subs, initial, made, queue, walkVars, histVars,
                 disturbed, overlapped, suspect>>

-----------------------------------------------------------------------------
(* UpnpService_SendEvents and OnServiceChanged                             *)

\* The listener is there, the variable has changed once, and its value is read.
EventRead(t) ==
  /\ pc[t] = "idle" /\ registered /\ value # 0 /\ sends < MaxSends
  /\ event' = [event EXCEPT ![t] = [cb |-> None, value |-> value]]
  /\ pc' = [pc EXCEPT ![t] = "count"]
  /\ sends' = sends + 1 /\ sent' = value
  /\ overlapped' = IF Walking # {} THEN overlapped \cup Walking \cup {t}
                   ELSE IF http # "free" THEN overlapped \cup {t} ELSE overlapped
  /\ disturbed' = IF http # "free" THEN disturbed \cup {t} ELSE disturbed
  /\ suspect' = IF t \in overlapped' THEN suspect ELSE {}
  /\ UNCHANGED <<registered, value, listVars, httpVars, queue, count, index, at, put, got>>

EventCount(t) ==
  /\ pc[t] = "count"
  /\ count' = [count EXCEPT ![t] = size]
  /\ pc' = [pc EXCEPT ![t] = "walk"]
  /\ UNCHANGED <<registered, value, listVars, httpVars, queue, event, index, at, put, histVars,
                 disturbed, overlapped, suspect>>

\* Mutant: positions taken one too high.
EventFetch_OffByOne(t) ==
  /\ pc[t] = "walk" /\ index[t] <= count[t]
  /\ at' = [at EXCEPT ![t] = SubscriberAt(index[t] + 1)]
  /\ pc' = [pc EXCEPT ![t] = "put"]
  /\ UNCHANGED <<registered, value, listVars, httpVars, queue, event, count, index, put, histVars,
                 disturbed, overlapped, suspect>>

EventFetch(t) ==
  /\ pc[t] = "walk" /\ index[t] <= count[t]
  /\ at' = [at EXCEPT ![t] = SubscriberAt(index[t])]
  /\ pc' = [pc EXCEPT ![t] = "put"]
  /\ UNCHANGED <<registered, value, listVars, httpVars, queue, event, count, index, put, histVars,
                 disturbed, overlapped, suspect>>

\* What the event's callback is after SetCallback: a NULL is refused and leaves
\* the callback of the subscriber before; a subscriber that is deleted by now
\* is whatever its memory holds, another subscriber maybe.
Callback(t) ==
  IF at[t] = None THEN {event[t].cb}
  ELSE IF \E i \in 1..Len(subs) : subs[i] = at[t] THEN {at[t].cb}
  ELSE Clients \cup {None}

EventPut(t) ==
  /\ pc[t] = "put"
  /\ \E cb \in Callback(t) :
       /\ event' = [event EXCEPT ![t].cb = cb]
       /\ queue' = Append(queue, [cb |-> cb, value |-> event[t].value])
       /\ put' = [put EXCEPT ![t] = Append(@, cb)]
  /\ index' = [index EXCEPT ![t] = @ + 1]
  /\ at' = [at EXCEPT ![t] = None]
  /\ pc' = [pc EXCEPT ![t] = "walk"]
  /\ UNCHANGED <<registered, value, listVars, httpVars, count, histVars,
                 disturbed, overlapped, suspect>>

EventEnd(t) ==
  /\ pc[t] = "walk" /\ index[t] > count[t]
  /\ pc' = [pc EXCEPT ![t] = "idle"]
  /\ event' = [event EXCEPT ![t] = [cb |-> None, value |-> 0]]
  /\ count' = [count EXCEPT ![t] = 0] /\ index' = [index EXCEPT ![t] = 1]
  /\ put' = [put EXCEPT ![t] = <<>>]
  /\ suspect' = IF t \in overlapped THEN Clients ELSE suspect
  /\ disturbed' = disturbed \ {t} /\ overlapped' = overlapped \ {t}
  /\ UNCHANGED <<registered, value, listVars, httpVars, queue, at, histVars>>

-----------------------------------------------------------------------------
(* DoNotify, on the notify worker.  A notification that fails is not       *)
(* repeated; one without a callback goes nowhere.                          *)

DoNotify ==
  /\ queue # <<>>
  /\ queue' = Tail(queue)
  /\ LET job == Head(queue) IN
       \/ job.cb # None /\ got' = [got EXCEPT ![job.cb] = job.value] /\ suspect' = suspect
       \/ suspect' = suspect \cup ({job.cb} \ {None}) /\ got' = got
  /\ UNCHANGED <<registered, value, listVars, httpVars, walkVars, sends, sent,
                 disturbed, overlapped>>

-----------------------------------------------------------------------------
Request(c) == SubscribeCount(c) \/ UnsubscribeUnlink(c)

Walk(t) == EventRead(t) \/ EventCount(t) \/ EventFetch(t) \/ EventPut(t) \/ EventEnd(t)

Next ==
  \/ SetRegistered \/ SetValue
  \/ \E c \in Clients : Request(c)
  \/ SubscribeLink \/ SubscribeRead \/ SubscribePut
  \/ UnsubscribeCount
  \/ \E t \in Threads : Walk(t)
  \/ DoNotify

Spec == Init /\ [][Next]_vars
-----------------------------------------------------------------------------
(* Properties                                                              *)

\* The range of every variable.
TypeOK ==
  /\ registered \in BOOLEAN /\ value \in 0..MaxValue /\ size \in 0..MaxSubscribes
  /\ subs \in Seq([id : 1..MaxSubscribes, cb : Clients])
  /\ http \in {"free", "link", "read", "put", "uncount"}
  /\ client \in Clients \cup {None} /\ initial \in 0..MaxValue
  /\ queue \in Seq([cb : Clients \cup {None}, value : 0..MaxValue])
  /\ pc \in [Threads -> {"idle", "count", "walk", "put"}]
  /\ event \in [Threads -> [cb : Clients \cup {None}, value : 0..MaxValue]]
  /\ count \in [Threads -> 0..MaxSubscribes] /\ index \in [Threads -> 1..MaxSubscribes + 1]
  /\ at \in [Threads -> [id : 1..MaxSubscribes, cb : Clients] \cup {None}]
  /\ answer \in {"none", "NOT_SUBSCRIBED"}
  /\ made \in 0..MaxSubscribes /\ sends \in 0..MaxSends /\ sent \in 0..MaxValue
  /\ got \in [Clients -> 0..MaxValue] /\ put \in [Threads -> Seq(Clients \cup {None})]
  /\ disturbed \subseteq Threads /\ overlapped \subseteq Threads /\ suspect \subseteq Clients

\* An event that no request has met reaches each subscriber once, in the order
\* of their subscriptions.
WalkReachesAll ==
  \A t \in Threads \ disturbed :
    pc[t] = "walk" /\ index[t] > count[t]
      => put[t] = [i \in 1..Len(subs) |-> subs[i].cb]

\* When everything is still, and the last change has been sent, the subscribers
\* have the current value, but for those to whom a notification failed or an
\* event overlapped with another or with a request.
InSyncUnlessRaced ==
  queue = <<>> /\ Walking = {} /\ http = "free" /\ sent = value
    => \A c \in Clients \ suspect : Subscribed(c) => got[c] = value

\* While no request is under way the list counts its nodes: what bounds the
\* next walk.
CountedWhenFree == http = "free" => size = Len(subs)

=============================================================================
