------------------------ MODULE UpnpGenaServerProofs ------------------------
(***************************************************************************)
(* The GENA server, for any number of clients, of threads that send        *)
(* events, of subscriptions and of events.                                 *)
(***************************************************************************)
EXTENDS UpnpGenaServer, SequenceTheorems, TLAPS

USE NoneIsNoClient, Bounds

Subscribers == [id : 1..MaxSubscribes, cb : Clients]
Jobs == [cb : Clients \cup {None}, value : 0..MaxValue]

\* The list is counted one too high from the first step of a request that
\* changes it to the second, and never has more nodes than were made.
Uncounted == IF http \in {"link", "uncount"} THEN 1 ELSE 0

Sizes ==
  /\ size = Len(subs) + Uncounted
  /\ Len(subs) <= made
  /\ http = "uncount" => Len(subs) < made
  /\ http = "link" => made < MaxSubscribes
  /\ http # "free" => client \in Clients

\* Where a sender is in its walk, and what it holds there.
Places ==
  /\ disturbed \subseteq overlapped /\ overlapped \subseteq Walking
  /\ \A t \in Threads :
       /\ pc[t] \in {"idle", "count"} => index[t] = 1 /\ count[t] = 0 /\ put[t] = <<>>
       /\ pc[t] = "walk" => index[t] <= count[t] + 1
       /\ pc[t] = "put" => index[t] <= count[t]
       /\ pc[t] # "put" => at[t] = None

\* Every step is one of a request, of the application, of a sender, or of the
\* worker.
ListStep ==
  \/ \E c \in Clients : Request(c)
  \/ SubscribeLink \/ SubscribeRead \/ SubscribePut \/ UnsubscribeCount

LEMMA Steps ==
  ASSUME [Next]_vars
  PROVE  \/ SetRegistered \/ SetValue \/ ListStep \/ DoNotify
         \/ \E t \in Threads : Walk(t)
         \/ UNCHANGED vars
BY DEF Next, ListStep

-----------------------------------------------------------------------------
(* Types.                                                                  *)

LEMMA TypeInit == Init => TypeOK /\ Sizes /\ Places
<1> SUFFICES ASSUME Init PROVE TypeOK /\ Sizes /\ Places
  OBVIOUS
<1>1. subs \in Seq(Subscribers) /\ queue \in Seq(Jobs) /\ Len(subs) = 0
  BY DEF Init, Subscribers, Jobs
<1>2. event \in [Threads -> [cb : Clients \cup {None}, value : 0..MaxValue]]
  BY DEF Init
<1>3. put \in [Threads -> Seq(Clients \cup {None})]
  BY DEF Init
<1>4. TypeOK
  <2>1. at \in [Threads -> Subscribers \cup {None}]
    BY DEF Init
  <2>2. /\ pc \in [Threads -> {"idle", "count", "walk", "put"}]
        /\ count \in [Threads -> 0..MaxSubscribes] /\ index \in [Threads -> 1..MaxSubscribes + 1]
        /\ got \in [Clients -> 0..MaxValue]
    BY DEF Init
  <2>4. registered \in BOOLEAN
    BY Zenon DEF Init
  <2>3. /\ value \in 0..MaxValue /\ size \in 0..MaxSubscribes
        /\ http = "free" /\ client = None /\ initial \in 0..MaxValue /\ answer = "none"
        /\ made \in 0..MaxSubscribes /\ sends \in 0..MaxSends /\ sent \in 0..MaxValue
        /\ disturbed = {} /\ overlapped = {} /\ suspect = {}
    BY DEF Init
  <2> QED BY <1>1, <1>2, <1>3, <2>1, <2>2, <2>3, <2>4 DEF TypeOK, Subscribers, Jobs
<1>5. Sizes /\ Places
  BY <1>1 DEF Init, Sizes, Uncounted, Places, Walking
<1> QED BY <1>4, <1>5

LEMMA TypeOfList ==
  ASSUME TypeOK, Sizes, ListStep
  PROVE  TypeOK'
<1> USE DEF listVars, httpVars, walkVars, histVars
<1>0. subs \in Seq(Subscribers) /\ queue \in Seq(Jobs)
  BY DEF TypeOK, Subscribers, Jobs
<1>1. ASSUME NEW c \in Clients, SubscribeCount(c) PROVE TypeOK'
  <2>1. size' \in 0..MaxSubscribes
    BY <1>1 DEF SubscribeCount, Sizes, Uncounted, TypeOK
  <2>2. disturbed' \subseteq Threads /\ overlapped' \subseteq Threads
    BY <1>1 DEF SubscribeCount, MeetEvents, Walking, TypeOK
  <2> QED BY <1>1, <2>1, <2>2 DEF SubscribeCount, TypeOK
<1>2. ASSUME NEW c \in Clients, UnsubscribeUnlink(c) PROVE TypeOK'
  <2>1. subs' \in Seq(Subscribers)
    BY <1>0, <1>2 DEF UnsubscribeUnlink
  <2>2. disturbed' \subseteq Threads /\ overlapped' \subseteq Threads
    BY <1>2 DEF UnsubscribeUnlink, MeetEvents, Walking, TypeOK
  <2> QED BY <1>2, <2>1, <2>2 DEF UnsubscribeUnlink, TypeOK, Subscribers
<1>3. CASE SubscribeLink
  <2>1. made + 1 \in 1..MaxSubscribes /\ client \in Clients
    BY <1>3 DEF SubscribeLink, Sizes, TypeOK
  <2>2. subs' \in Seq(Subscribers)
    BY <1>0, <1>3, <2>1 DEF SubscribeLink, Subscribers
  <2>3. made' = made + 1 /\ http' = "read" /\ UNCHANGED <<registered, value, size, client, initial,
                      queue, walkVars, answer, sends, sent, got, disturbed, overlapped, suspect>>
    BY <1>3 DEF SubscribeLink
  <2> QED BY <2>1, <2>2, <2>3 DEF TypeOK, Subscribers
<1>4. CASE SubscribeRead
  BY <1>4 DEF SubscribeRead, TypeOK
<1>5. CASE SubscribePut
  <2>1. [cb |-> client, value |-> initial] \in Jobs
    BY DEF TypeOK, Jobs
  <2>2. queue' \in Seq(Jobs)
    BY <1>0, <1>5, <2>1 DEF SubscribePut
  <2> QED BY <1>5, <2>2 DEF SubscribePut, TypeOK, Jobs
<1>6. CASE UnsubscribeCount
  <2>1. size' \in 0..MaxSubscribes
    BY <1>0, <1>6 DEF UnsubscribeCount, Sizes, Uncounted, TypeOK
  <2> QED BY <1>6, <2>1 DEF UnsubscribeCount, TypeOK
<1> QED BY <1>1, <1>2, <1>3, <1>4, <1>5, <1>6 DEF ListStep, Request

LEMMA TypeOfWalk ==
  ASSUME TypeOK, Sizes, Places, NEW t \in Threads, Walk(t)
  PROVE  TypeOK'
<1> USE DEF listVars, httpVars, walkVars, histVars
<1>0. subs \in Seq(Subscribers) /\ queue \in Seq(Jobs)
  BY DEF TypeOK, Subscribers, Jobs
<1>1. CASE EventRead(t)
  <2>1. event' \in [Threads -> [cb : Clients \cup {None}, value : 0..MaxValue]]
    BY <1>1 DEF EventRead, TypeOK
  <2>2. sends' \in 0..MaxSends /\ sent' \in 0..MaxValue
    BY <1>1 DEF EventRead, TypeOK
  <2>3. disturbed' \subseteq Threads /\ overlapped' \subseteq Threads /\ suspect' \subseteq Clients
    BY <1>1 DEF EventRead, Walking, TypeOK
  <2> QED BY <1>1, <2>1, <2>2, <2>3 DEF EventRead, TypeOK
<1>2. CASE EventCount(t)
  BY <1>2 DEF EventCount, TypeOK
<1>3. CASE EventFetch(t)
  <2>1. SubscriberAt(index[t]) \in Subscribers \cup {None}
    BY <1>0 DEF SubscriberAt, TypeOK
  <2> QED BY <1>3, <2>1 DEF EventFetch, TypeOK, Subscribers
<1>4. CASE EventPut(t)
  <2>1. PICK cb \in Callback(t) :
          /\ event' = [event EXCEPT ![t].cb = cb]
          /\ queue' = Append(queue, [cb |-> cb, value |-> event[t].value])
          /\ put' = [put EXCEPT ![t] = Append(@, cb)]
    BY <1>4 DEF EventPut
  <2>2. cb \in Clients \cup {None} /\ event[t].value \in 0..MaxValue
    BY DEF Callback, TypeOK
  <2>3. event' \in [Threads -> [cb : Clients \cup {None}, value : 0..MaxValue]]
    <3>1. event \in [Threads -> [cb : Clients \cup {None}, value : 0..MaxValue]]
      BY DEF TypeOK
    <3>2. [event[t] EXCEPT !.cb = cb] \in [cb : Clients \cup {None}, value : 0..MaxValue]
      BY <2>2, <3>1
    <3>3. event' = [event EXCEPT ![t] = [event[t] EXCEPT !.cb = cb]]
      BY <2>1
    <3> QED BY <3>1, <3>2, <3>3
  <2>4. [cb |-> cb, value |-> event[t].value] \in Jobs
    BY <2>2 DEF Jobs
  <2>5. queue' \in Seq(Jobs)
    BY <1>0, <2>1, <2>4
  <2>6. put' \in [Threads -> Seq(Clients \cup {None})]
    <3>1. put \in [Threads -> Seq(Clients \cup {None})]
      BY DEF TypeOK
    <3>2. Append(put[t], cb) \in Seq(Clients \cup {None})
      BY <2>2, <3>1, AppendProperties
    <3>3. put' = [put EXCEPT ![t] = Append(put[t], cb)]
      BY <2>1
    <3> QED BY <3>1, <3>2, <3>3
  <2>7. index[t] + 1 \in 1..MaxSubscribes + 1
    <3>1. index[t] \in 1..MaxSubscribes + 1 /\ count[t] \in 0..MaxSubscribes
      BY DEF TypeOK
    <3>2. index[t] <= count[t]
      BY <1>4 DEF EventPut, Places
    <3> QED BY <3>1, <3>2
  <2>8. index' \in [Threads -> 1..MaxSubscribes + 1]
    BY <1>4, <2>7 DEF EventPut, TypeOK
  <2> QED BY <1>4, <2>3, <2>5, <2>6, <2>8 DEF EventPut, TypeOK, Jobs
<1>5. CASE EventEnd(t)
  <2>1. event' \in [Threads -> [cb : Clients \cup {None}, value : 0..MaxValue]]
    BY <1>5 DEF EventEnd, TypeOK
  <2>2. put' \in [Threads -> Seq(Clients \cup {None})]
    BY <1>5 DEF EventEnd, TypeOK
  <2>3. disturbed' \subseteq Threads /\ overlapped' \subseteq Threads /\ suspect' \subseteq Clients
    BY <1>5 DEF EventEnd, TypeOK
  <2>4. /\ pc' \in [Threads -> {"idle", "count", "walk", "put"}]
        /\ count' \in [Threads -> 0..MaxSubscribes]
        /\ index' \in [Threads -> 1..MaxSubscribes + 1]
    BY <1>5 DEF EventEnd, TypeOK
  <2>5. UNCHANGED <<registered, value, listVars, httpVars, queue, at, histVars>>
    BY <1>5 DEF EventEnd
  <2> QED BY <2>1, <2>2, <2>3, <2>4, <2>5 DEF TypeOK
<1> QED BY <1>1, <1>2, <1>3, <1>4, <1>5 DEF Walk

LEMMA TypeStep == TypeOK /\ Sizes /\ Places /\ [Next]_vars => TypeOK'
<1> SUFFICES ASSUME TypeOK, Sizes, Places, [Next]_vars PROVE TypeOK'
  OBVIOUS
<1> USE DEF listVars, httpVars, walkVars, histVars
<1>1. CASE SetRegistered
  <2>1. registered' \in BOOLEAN
    BY <1>1, Zenon DEF SetRegistered
  <2> QED BY <1>1, <2>1 DEF SetRegistered, TypeOK
<1>4. CASE SetValue
  <2>1. value' \in 0..MaxValue
    BY <1>4 DEF SetValue, TypeOK
  <2> QED BY <1>4, <2>1 DEF SetValue, TypeOK
<1>2. CASE DoNotify
  <2>1. queue \in Seq(Jobs)
    BY DEF TypeOK, Jobs
  <2>2. Head(queue) \in Jobs /\ queue' \in Seq(Jobs)
    BY <1>2, <2>1 DEF DoNotify
  <2>3. got' \in [Clients -> 0..MaxValue] /\ suspect' \subseteq Clients
    BY <1>2, <2>2 DEF DoNotify, Jobs, TypeOK
  <2> QED BY <1>2, <2>2, <2>3 DEF DoNotify, TypeOK, Jobs
<1>3. CASE UNCHANGED vars
  BY <1>3 DEF vars, TypeOK
<1> QED BY <1>1, <1>2, <1>3, <1>4, Steps, TypeOfList, TypeOfWalk

LEMMA SizesStep == TypeOK /\ Sizes /\ [Next]_vars => Sizes'
<1> SUFFICES ASSUME TypeOK, Sizes, [Next]_vars PROVE Sizes'
  OBVIOUS
<1> USE DEF Sizes, Uncounted, listVars, httpVars, walkVars, histVars
<1>0. subs \in Seq(Subscribers) /\ made \in Nat /\ size \in Nat /\ Len(subs) \in Nat
  BY DEF TypeOK, Subscribers
<1>1. ASSUME NEW c \in Clients, SubscribeCount(c) PROVE Sizes'
  BY <1>0, <1>1 DEF SubscribeCount
<1>2. ASSUME NEW c \in Clients, UnsubscribeUnlink(c) PROVE Sizes'
  <2>1. Len(subs') = Len(subs) - 1
    BY <1>0, <1>2 DEF UnsubscribeUnlink
  <2> QED BY <1>0, <1>2, <2>1 DEF UnsubscribeUnlink
<1>3. CASE SubscribeLink
  <2>1. Len(subs') = Len(subs) + 1
    BY <1>0, <1>3 DEF SubscribeLink
  <2> QED BY <1>0, <1>3, <2>1 DEF SubscribeLink
<1>4. CASE SubscribeRead \/ SubscribePut
  BY <1>0, <1>4 DEF SubscribeRead, SubscribePut
<1>5. CASE UnsubscribeCount
  BY <1>0, <1>5 DEF UnsubscribeCount
<1>6. CASE UNCHANGED <<listVars, httpVars>>
  BY <1>6
<1>7. SetRegistered \/ SetValue \/ DoNotify \/ UNCHANGED vars => UNCHANGED <<listVars, httpVars>>
  BY DEF SetRegistered, SetValue, DoNotify, vars
<1>8. \A t \in Threads : Walk(t) => UNCHANGED <<listVars, httpVars>>
  BY DEF Walk, EventRead, EventCount, EventFetch, EventPut, EventEnd
<1> QED BY <1>1, <1>2, <1>3, <1>4, <1>5, <1>6, <1>7, <1>8, Steps DEF ListStep, Request

\* What a request, and a step that is none of a sender, leave alone.
LEMMA OthersKeepWalks ==
  ASSUME SetRegistered \/ SetValue \/ ListStep \/ DoNotify \/ UNCHANGED vars
  PROVE  UNCHANGED walkVars
BY DEF SetRegistered, SetValue, ListStep, Request, SubscribeCount, UnsubscribeUnlink,
       SubscribeLink, SubscribeRead, SubscribePut, UnsubscribeCount, DoNotify, vars, walkVars

LEMMA PlacesStep == TypeOK /\ Sizes /\ Places /\ [Next]_vars => Places'
<1> SUFFICES ASSUME TypeOK, Sizes, Places, [Next]_vars PROVE Places'
  OBVIOUS
<1> USE DEF Places, Walking
<1>1. ASSUME NEW c \in Clients, Request(c) PROVE Places'
  BY <1>1, OthersKeepWalks
     DEF ListStep, Request, SubscribeCount, UnsubscribeUnlink, MeetEvents, walkVars
<1>2. CASE UNCHANGED <<walkVars, disturbed, overlapped>>
  BY <1>2 DEF walkVars
<1>3. \/ SetRegistered \/ SetValue \/ DoNotify \/ SubscribeLink \/ SubscribeRead \/ SubscribePut
      \/ UnsubscribeCount \/ UNCHANGED vars
      => UNCHANGED <<walkVars, disturbed, overlapped>>
  BY DEF SetRegistered, SetValue, DoNotify, SubscribeLink, SubscribeRead, SubscribePut,
         UnsubscribeCount, vars
<1>4. ASSUME NEW t \in Threads, Walk(t) PROVE Places'
  <2>1. pc \in [Threads -> {"idle", "count", "walk", "put"}]
    BY DEF TypeOK
  <2>2. count \in [Threads -> Nat] /\ index \in [Threads -> Nat] /\ size \in Nat
    BY DEF TypeOK
  <2>3. DOMAIN at = Threads /\ DOMAIN put = Threads
    BY DEF TypeOK
  <2>4. CASE EventRead(t)
    BY <2>1, <2>2, <2>3, <2>4 DEF EventRead
  <2>5. CASE EventCount(t)
    BY <2>1, <2>2, <2>3, <2>5 DEF EventCount
  <2>6. CASE EventFetch(t)
    BY <2>1, <2>2, <2>3, <2>6 DEF EventFetch
  <2>7. CASE EventPut(t)
    BY <2>1, <2>2, <2>3, <2>7 DEF EventPut
  <2>8. CASE EventEnd(t)
    BY <2>1, <2>2, <2>3, <2>8 DEF EventEnd
  <2> QED BY <1>4, <2>4, <2>5, <2>6, <2>7, <2>8 DEF Walk
<1> QED BY <1>1, <1>2, <1>3, <1>4, Steps DEF ListStep

\* The types of the variables are kept.
THEOREM TypeCorrect == Spec => []TypeOK
<1>1. TypeOK /\ Sizes /\ Places /\ [Next]_vars => (TypeOK /\ Sizes /\ Places)'
  BY TypeStep, SizesStep, PlacesStep
<1> QED BY TypeInit, <1>1, PTL DEF Spec

\* With no request under way the list counts its nodes (TinyList.c:205-320 under
\* the mutex of the provider, UpnpGenaServer.c).
THEOREM ListIsCounted == Spec => []CountedWhenFree
<1>1. TypeOK /\ Sizes /\ Places /\ [Next]_vars => (TypeOK /\ Sizes /\ Places)'
  BY TypeStep, SizesStep, PlacesStep
<1>2. TypeOK /\ Sizes => CountedWhenFree
  BY DEF TypeOK, Sizes, Uncounted, CountedWhenFree
<1> QED BY TypeInit, <1>1, <1>2, PTL DEF Spec

-----------------------------------------------------------------------------
(* Walks that no request has met.                                          *)

Walks ==
  \A t \in Threads \ disturbed : pc[t] # "idle" =>
    /\ http = "free"
    /\ pc[t] \in {"walk", "put"} =>
         /\ count[t] = Len(subs) /\ Len(put[t]) = index[t] - 1
         /\ \A i \in 1..index[t] - 1 : put[t][i] = subs[i].cb
    /\ pc[t] = "put" => at[t] = subs[index[t]]

WalkInv == TypeOK /\ Sizes /\ Places /\ Walks

\* The same of one thread.
WalkOf(t) ==
  t \notin disturbed /\ pc[t] # "idle" =>
    /\ http = "free"
    /\ pc[t] \in {"walk", "put"} =>
         /\ count[t] = Len(subs) /\ Len(put[t]) = index[t] - 1
         /\ \A i \in 1..index[t] - 1 : put[t][i] = subs[i].cb
    /\ pc[t] = "put" => at[t] = subs[index[t]]

LEMMA WalksAre == Walks <=> \A t \in Threads : WalkOf(t)
BY DEF Walks, WalkOf

\* A sender that takes a step leaves the walks of the others alone.
LEMMA OneWalks ==
  ASSUME TypeOK, NEW t \in Threads, Walk(t), NEW u \in Threads, u # t, WalkOf(u)
  PROVE  WalkOf(u)'
<1>1. /\ pc \in [Threads -> {"idle", "count", "walk", "put"}]
      /\ DOMAIN count = Threads /\ DOMAIN index = Threads /\ DOMAIN at = Threads /\ DOMAIN put = Threads
  BY DEF TypeOK
<1>2. /\ pc'[u] = pc[u] /\ count'[u] = count[u] /\ index'[u] = index[u]
      /\ at'[u] = at[u] /\ put'[u] = put[u]
  BY <1>1 DEF Walk, EventRead, EventCount, EventFetch, EventPut, EventEnd
<1>3. UNCHANGED <<http, subs>> /\ (u \in disturbed' <=> u \in disturbed)
  BY DEF Walk, EventRead, EventCount, EventFetch, EventPut, EventEnd, listVars, httpVars
<1> QED BY <1>2, <1>3 DEF WalkOf

\* The callback that a walk undisturbed puts into the queue is the next one.
LEMMA NextCallback ==
  ASSUME WalkInv, NEW t \in Threads \ disturbed, pc[t] = "put"
  PROVE  /\ index[t] \in 1..Len(subs) /\ http = "free"
         /\ subs[index[t]].cb \in Clients
         /\ Callback(t) = {subs[index[t]].cb}
<1>1. /\ http = "free" /\ count[t] = Len(subs) /\ at[t] = subs[index[t]]
  BY DEF WalkInv, Walks
<1>2. index[t] \in 1..Len(subs)
  BY <1>1 DEF WalkInv, TypeOK, Places
<1>5. subs \in Seq(Subscribers)
  BY DEF WalkInv, TypeOK, Subscribers
<1>3. subs[index[t]] \in Subscribers
  BY <1>2, <1>5
<1>4. at[t] # None
  BY <1>1, <1>3 DEF Subscribers
<1> QED BY <1>1, <1>2, <1>3, <1>4 DEF Callback, Subscribers

LEMMA WalkOfStep ==
  ASSUME WalkInv, NEW t \in Threads, Walk(t)
  PROVE  WalkOf(t)'
<1>1. /\ pc \in [Threads -> {"idle", "count", "walk", "put"}]
      /\ count \in [Threads -> Nat] /\ index \in [Threads -> Nat]
      /\ DOMAIN at = Threads /\ put \in [Threads -> Seq(Clients \cup {None})]
      /\ Len(subs) \in Nat
  BY DEF WalkInv, TypeOK
<1>2. WalkOf(t)
  BY WalksAre DEF WalkInv
<1> USE DEF listVars, httpVars
<1>3. CASE EventRead(t)
  BY <1>1, <1>3 DEF EventRead, WalkOf
<1>4. CASE EventCount(t)
  <2>1. index[t] = 1 /\ put[t] = <<>>
    BY <1>4 DEF EventCount, WalkInv, Places
  <2>2. t \notin disturbed => http = "free" /\ size = Len(subs)
    BY <1>2, <1>4 DEF EventCount, WalkOf, WalkInv, Sizes, Uncounted, TypeOK
  <2> QED BY <1>1, <1>4, <2>1, <2>2 DEF EventCount, WalkOf
<1>5. CASE EventFetch(t)
  <2>1. t \notin disturbed => SubscriberAt(index[t]) = subs[index[t]]
    BY <1>1, <1>2, <1>5 DEF EventFetch, WalkOf, SubscriberAt
  <2> QED BY <1>1, <1>2, <1>5, <2>1 DEF EventFetch, WalkOf
<1>6. CASE EventPut(t)
  <2>1. CASE t \in disturbed
    BY <1>6, <2>1 DEF EventPut, WalkOf
  <2>2. CASE t \notin disturbed
    <3>1. index[t] \in 1..Len(subs) /\ Callback(t) = {subs[index[t]].cb}
      BY <1>6, <2>2, NextCallback DEF EventPut
    <3>2. put' = [put EXCEPT ![t] = Append(put[t], subs[index[t]].cb)]
      BY <1>6, <3>1 DEF EventPut
    <3>3. put'[t] = Append(put[t], subs[index[t]].cb) /\ index'[t] = index[t] + 1
      BY <1>1, <1>6, <3>2 DEF EventPut
    <3>4. Len(put[t]) = index[t] - 1 /\ \A i \in 1..index[t] - 1 : put[t][i] = subs[i].cb
      BY <1>2, <1>6, <2>2 DEF EventPut, WalkOf
    <3>5. put[t] \in Seq(Clients \cup {None})
      BY <1>1
    <3>6. Len(put'[t]) = index'[t] - 1
      BY <1>1, <3>1, <3>3, <3>4, <3>5
    <3>7. \A i \in 1..index'[t] - 1 : put'[t][i] = subs[i].cb
      BY <1>1, <3>1, <3>3, <3>4, <3>5
    <3>8. pc'[t] = "walk" /\ count'[t] = count[t] /\ http' = http /\ subs' = subs
      BY <1>1, <1>6 DEF EventPut
    <3>9. http = "free" /\ count[t] = Len(subs)
      BY <1>2, <1>6, <2>2 DEF EventPut, WalkOf
    <3> QED BY <3>6, <3>7, <3>8, <3>9 DEF WalkOf
  <2> QED BY <2>1, <2>2
<1>7. CASE EventEnd(t)
  BY <1>1, <1>7 DEF EventEnd, WalkOf
<1> QED BY <1>3, <1>4, <1>5, <1>6, <1>7 DEF Walk

LEMMA WalksStep == WalkInv /\ [Next]_vars => WalkInv'
<1> SUFFICES ASSUME WalkInv, [Next]_vars PROVE Walks'
  BY TypeStep, SizesStep, PlacesStep DEF WalkInv
<1>1. ASSUME NEW c \in Clients, Request(c) PROVE Walks'
  <2>1. pc' = pc /\ disturbed' = disturbed \cup Walking
    BY <1>1 DEF Request, SubscribeCount, UnsubscribeUnlink, MeetEvents, walkVars
  <2> QED BY <2>1 DEF Walks, Walking
<1>2. CASE SubscribeLink \/ SubscribeRead \/ SubscribePut \/ UnsubscribeCount
  <2>1. http # "free" /\ pc' = pc /\ disturbed' = disturbed
    BY <1>2 DEF SubscribeLink, SubscribeRead, SubscribePut, UnsubscribeCount, walkVars
  <2> QED BY <2>1 DEF WalkInv, Walks
<1>3. CASE SetRegistered \/ SetValue \/ DoNotify \/ UNCHANGED vars
  <2>1. UNCHANGED <<http, subs, walkVars, disturbed>>
    BY <1>3 DEF SetRegistered, SetValue, DoNotify, vars, listVars, httpVars
  <2> QED BY <2>1 DEF WalkInv, Walks, walkVars
<1>4. ASSUME NEW t \in Threads, Walk(t) PROVE Walks'
  <2>1. \A u \in Threads : WalkOf(u)'
    BY <1>4, OneWalks, WalkOfStep, WalksAre DEF WalkInv
  <2> QED BY <2>1, WalksAre DEF Walks, WalkOf
<1> QED BY <1>1, <1>2, <1>3, <1>4, Steps DEF ListStep

LEMMA WalksInit == Init => WalkInv
BY TypeInit DEF Init, WalkInv, Walks

\* An event that no request has met reaches each subscriber once, in order
\* (OnServiceChanged, UpnpGenaServer.c).
THEOREM EventsReachAll == Spec => []WalkReachesAll
<1>1. WalkInv => WalkReachesAll
  <2> SUFFICES ASSUME WalkInv, NEW t \in Threads \ disturbed, pc[t] = "walk", index[t] > count[t]
               PROVE  put[t] = [i \in 1..Len(subs) |-> subs[i].cb]
    BY DEF WalkReachesAll
  <2>1. /\ count[t] = Len(subs) /\ Len(put[t]) = index[t] - 1
        /\ \A i \in 1..index[t] - 1 : put[t][i] = subs[i].cb
    BY DEF WalkInv, Walks
  <2>2. index[t] - 1 = Len(subs)
    BY <2>1 DEF WalkInv, TypeOK, Places
  <2>3. put[t] \in Seq(Clients \cup {None})
    BY DEF WalkInv, TypeOK
  <2>4. put[t] \in [1..Len(subs) -> Clients \cup {None}]
    BY <2>1, <2>2, <2>3
  <2> QED BY <2>1, <2>2, <2>4
<1> QED BY <1>1, WalksInit, WalksStep, PTL DEF Spec

-----------------------------------------------------------------------------
(* What the subscribers end up with.                                       *)

\* With jobs q in the queue, and g what has arrived, client c ends up with v
\* unless a notification fails.
EndsWith(q, g, c, v) ==
  \/ \E i \in 1..Len(q) :
       q[i].cb = c /\ q[i].value = v /\ \A j \in i+1..Len(q) : q[j].cb # c
  \/ (\A j \in 1..Len(q) : q[j].cb # c) /\ g[c] = v

LEMMA AppendOther ==
  ASSUME NEW q \in Seq(Jobs), NEW g, NEW job \in Jobs, NEW c, NEW v, job.cb # c,
         EndsWith(q, g, c, v)
  PROVE  EndsWith(Append(q, job), g, c, v)
<1> DEFINE r == Append(q, job)
<1>1. /\ Len(r) = Len(q) + 1 /\ Len(q) \in Nat /\ r[Len(q) + 1] = job
      /\ \A i \in 1..Len(q) : r[i] = q[i]
  BY AppendProperties
<1> HIDE DEF r
<1>3. ASSUME NEW i \in 1..Len(q), q[i].cb = c, q[i].value = v,
             \A j \in i+1..Len(q) : q[j].cb # c
      PROVE  EndsWith(r, g, c, v)
  <2>1. i \in 1..Len(r) /\ r[i].cb = c /\ r[i].value = v
    BY <1>1, <1>3
  <2>2. \A j \in i+1..Len(r) : r[j].cb # c
    BY <1>1, <1>3
  <2> QED BY <2>1, <2>2 DEF EndsWith
<1>4. CASE (\A j \in 1..Len(q) : q[j].cb # c) /\ g[c] = v
  <2>1. \A j \in 1..Len(r) : r[j].cb # c
    BY <1>1, <1>4
  <2> QED BY <1>4, <2>1 DEF EndsWith, r
<1> QED BY <1>3, <1>4 DEF EndsWith, r

LEMMA AppendOwn ==
  ASSUME NEW q \in Seq(Jobs), NEW g, NEW job \in Jobs
  PROVE  EndsWith(Append(q, job), g, job.cb, job.value)
<1>1. Len(Append(q, job)) = Len(q) + 1 /\ Len(q) \in Nat /\ Append(q, job)[Len(q) + 1] = job
  BY AppendProperties
<1>2. Len(q) + 1 \in 1..Len(Append(q, job))
  BY <1>1
<1>3. \A j \in Len(q) + 1 + 1..Len(Append(q, job)) : Append(q, job)[j].cb # job.cb
  BY <1>1
<1> QED BY <1>1, <1>2, <1>3 DEF EndsWith

LEMMA TakeFirst ==
  ASSUME NEW q \in Seq(Jobs), q # <<>>, NEW g, NEW h, NEW c, NEW v, EndsWith(q, g, c, v),
         Head(q).cb = c => h[c] = Head(q).value,
         Head(q).cb # c => h[c] = g[c]
  PROVE  EndsWith(Tail(q), h, c, v)
<1> DEFINE r == Tail(q)
<1>1. /\ Len(q) \in Nat \ {0} /\ Len(r) = Len(q) - 1 /\ Head(q) = q[1]
      /\ \A i \in 1..Len(r) : r[i] = q[i + 1]
  BY HeadTailProperties
<1> HIDE DEF r
<1>2. ASSUME NEW i \in 1..Len(q), q[i].cb = c, q[i].value = v,
             \A j \in i+1..Len(q) : q[j].cb # c
      PROVE  EndsWith(r, h, c, v)
  <2>1. CASE i = 1
    <3>1. h[c] = v
      BY <1>1, <1>2, <2>1
    <3>2. \A j \in 1..Len(r) : r[j].cb # c
      BY <1>1, <1>2, <2>1
    <3> QED BY <3>1, <3>2 DEF EndsWith
  <2>2. CASE i # 1
    <3>1. i - 1 \in 1..Len(r) /\ r[i - 1].cb = c /\ r[i - 1].value = v
      BY <1>1, <1>2, <2>2
    <3>2. ASSUME NEW j \in (i - 1)+1..Len(r) PROVE r[j].cb # c
      <4>1. j \in 1..Len(r) /\ j + 1 \in i+1..Len(q)
        BY <1>1, <2>2
      <4>2. r[j] = q[j + 1]
        BY <1>1, <4>1
      <4> QED BY <1>2, <4>1, <4>2
    <3> QED BY <3>1, <3>2 DEF EndsWith
  <2> QED BY <2>1, <2>2
<1>3. CASE (\A j \in 1..Len(q) : q[j].cb # c) /\ g[c] = v
  <2>1. h[c] = v
    BY <1>1, <1>3
  <2>2. \A j \in 1..Len(r) : r[j].cb # c
    BY <1>1, <1>3
  <2> QED BY <2>1, <2>2 DEF EndsWith, r
<1> QED BY <1>2, <1>3 DEF EndsWith, r

\* A clean event, which met no other event and no request: whom it has passed
\* ends up with its value.
Clean(t) == t \in Walking \ overlapped

CleanEvents ==
  \A t \in Threads : Clean(t) =>
    /\ Walking = {t} /\ event[t].value = sent
    /\ \A i \in 1..index[t] - 1 :
         subs[i].cb \notin suspect => EndsWith(queue, got, subs[i].cb, sent)

\* A new subscriber has not been sent its first event.
Pending(c) == http \in {"read", "put"} /\ client = c

\* Between events everybody ends up with what was sent last, or later read.
Settled ==
  Walking = {} =>
    /\ (http = "put" /\ suspect # Clients) => sent <= initial
    /\ \A c \in Clients \ suspect : Subscribed(c) /\ ~Pending(c) =>
         \E u \in sent..value : EndsWith(queue, got, c, u)

NotAhead == sent <= value /\ initial <= value

SyncInv == WalkInv /\ NotAhead /\ CleanEvents /\ Settled

LEMMA CleanMeans ==
  ASSUME WalkInv, NEW t \in Threads, Clean(t)
  PROVE  /\ t \notin disturbed /\ http = "free"
         /\ pc[t] \in {"walk", "put"} => count[t] = Len(subs)
         /\ index[t] - 1 <= Len(subs)
<1>1. t \notin disturbed /\ pc[t] # "idle"
  BY DEF Clean, WalkInv, Places, Walking
<1>2. http = "free" /\ (pc[t] \in {"walk", "put"} => count[t] = Len(subs))
  BY <1>1 DEF WalkInv, Walks
<1>3. /\ pc[t] \in {"idle", "count", "walk", "put"} /\ index[t] \in Nat /\ count[t] \in Nat
      /\ Len(subs) \in Nat
  BY DEF WalkInv, TypeOK
<1>4. index[t] - 1 <= Len(subs)
  BY <1>1, <1>2, <1>3 DEF WalkInv, Places
<1> QED BY <1>1, <1>2, <1>4

LEMMA NumberTypes ==
  ASSUME TypeOK
  PROVE  /\ value \in Nat /\ sent \in Nat /\ initial \in Nat /\ Len(subs) \in Nat
         /\ queue \in Seq(Jobs) /\ subs \in Seq(Subscribers)
BY DEF TypeOK, Jobs, Subscribers

\* A step that touches nothing of what the invariant speaks of.
LEMMA SyncKept ==
  ASSUME SyncInv, UNCHANGED <<http, client, initial, subs, queue, got, sent, value, suspect,
                              overlapped, walkVars>>
  PROVE  NotAhead' /\ CleanEvents' /\ Settled'
BY DEF SyncInv, NotAhead, CleanEvents, Settled, Clean, Walking, Pending, Subscribed, EndsWith,
       walkVars

LEMMA SyncValue ==
  ASSUME SyncInv, SetValue
  PROVE  NotAhead' /\ CleanEvents' /\ Settled'
<1>1. /\ value' = value + 1
      /\ UNCHANGED <<http, client, initial, subs, queue, got, sent, suspect, overlapped, walkVars>>
  BY DEF SetValue, listVars, httpVars, histVars
<1>2. value \in Nat /\ sent \in Nat /\ initial \in Nat
  BY NumberTypes DEF SyncInv, WalkInv
<1>3. NotAhead'
  BY <1>1, <1>2 DEF SyncInv, NotAhead
<1>4. CleanEvents'
  BY <1>1 DEF SyncInv, CleanEvents, Clean, Walking, EndsWith, walkVars
<1>5. sent..value \subseteq sent..(value + 1)
  BY <1>2
<1>6. Settled'
  BY <1>1, <1>5 DEF SyncInv, Settled, Walking, Pending, Subscribed, EndsWith, walkVars
<1> QED BY <1>3, <1>4, <1>6

LEMMA SyncNotify ==
  ASSUME SyncInv, DoNotify
  PROVE  NotAhead' /\ CleanEvents' /\ Settled'
<1>0. WalkInv /\ queue \in Seq(Jobs) /\ subs \in Seq(Subscribers)
  BY NumberTypes DEF SyncInv, WalkInv
<1>1. /\ queue # <<>> /\ queue' = Tail(queue) /\ suspect \subseteq suspect'
      /\ UNCHANGED <<http, client, initial, subs, sent, value, overlapped, walkVars>>
  BY DEF DoNotify, listVars, httpVars
<1>2. Head(queue) \in Jobs /\ got \in [Clients -> 0..MaxValue]
  BY <1>0, <1>1 DEF WalkInv, TypeOK
<1>3. ASSUME NEW c \in Clients \ suspect', NEW v, EndsWith(queue, got, c, v)
      PROVE  EndsWith(queue', got', c, v)
  <2>1. Head(queue).cb = c => got'[c] = Head(queue).value
    BY <1>2, <1>3 DEF DoNotify
  <2>2. Head(queue).cb # c => got'[c] = got[c]
    BY <1>2 DEF DoNotify, Jobs
  <2>3. EndsWith(Tail(queue), got', c, v)
    BY <1>0, <1>1, <1>3, <2>1, <2>2, TakeFirst
  <2> QED BY <1>1, <2>3
<1>4. NotAhead'
  BY <1>1 DEF SyncInv, NotAhead
<1>5. CleanEvents'
  <2> SUFFICES ASSUME NEW t \in Threads, Clean(t)'
               PROVE  /\ Walking' = {t} /\ event'[t].value = sent'
                      /\ \A i \in 1..index'[t] - 1 : subs'[i].cb \notin suspect' =>
                           EndsWith(queue', got', subs'[i].cb, sent')
    BY DEF CleanEvents
  <2>1. Clean(t) /\ Walking' = Walking
    BY <1>1 DEF Clean, Walking, walkVars
  <2>2. index[t] - 1 <= Len(subs) /\ index[t] \in Nat
    <3>1. WalkInv /\ TypeOK
      BY <1>0 DEF WalkInv
    <3>2. index[t] \in Nat
      BY <3>1 DEF TypeOK
    <3> QED BY <2>1, <3>1, <3>2, CleanMeans
  <2>3. ASSUME NEW i \in 1..index[t] - 1, subs[i].cb \notin suspect'
        PROVE  EndsWith(queue', got', subs[i].cb, sent)
    <3>1. i \in 1..Len(subs)
      BY <1>0, <2>2
    <3>4. subs[i] \in Subscribers
      BY <1>0, <3>1
    <3>2. subs[i].cb \in Clients
      BY <3>4 DEF Subscribers
    <3>3. EndsWith(queue, got, subs[i].cb, sent)
      BY <1>1, <2>1, <2>3 DEF SyncInv, CleanEvents
    <3> QED BY <1>3, <2>3, <3>2, <3>3
  <2> QED BY <1>1, <2>1, <2>3 DEF SyncInv, CleanEvents, walkVars
<1>6. Settled'
  <2> SUFFICES ASSUME Walking' = {}
               PROVE  /\ (http' = "put" /\ suspect' # Clients) => sent' <= initial'
                      /\ \A c \in Clients \ suspect' : Subscribed(c)' /\ ~Pending(c)' =>
                           \E u \in sent'..value' : EndsWith(queue', got', c, u)
    BY DEF Settled
  <2>1. Walking = {}
    BY <1>1 DEF Walking, walkVars
  <2>2. (http' = "put" /\ suspect' # Clients) => sent' <= initial'
    <3>1. suspect' \subseteq Clients
      BY <1>0, WalksStep DEF Next, WalkInv, TypeOK
    <3> QED BY <1>1, <2>1, <3>1 DEF SyncInv, Settled
  <2>3. ASSUME NEW c \in Clients \ suspect', Subscribed(c)', ~Pending(c)'
        PROVE  \E u \in sent'..value' : EndsWith(queue', got', c, u)
    <3>1. Subscribed(c) /\ ~Pending(c)
      BY <1>1, <2>3 DEF Subscribed, Pending
    <3>2. PICK u \in sent..value : EndsWith(queue, got, c, u)
      BY <1>1, <2>1, <3>1 DEF SyncInv, Settled
    <3>3. EndsWith(queue', got', c, u)
      BY <1>3, <3>2
    <3> QED BY <1>1, <3>2, <3>3
  <2> QED BY <2>2, <2>3
<1> QED BY <1>4, <1>5, <1>6

\* A request meets every event that is under way: none is clean any more.
LEMMA SyncRequest ==
  ASSUME SyncInv, NEW c \in Clients, Request(c)
  PROVE  NotAhead' /\ CleanEvents' /\ Settled'
<1>1. /\ http = "free" /\ http' \in {"link", "uncount"}
      /\ overlapped' = overlapped \cup Walking
      /\ UNCHANGED <<initial, queue, got, sent, value, suspect, walkVars>>
  BY DEF Request, SubscribeCount, UnsubscribeUnlink, MeetEvents, histVars
<1>2. Walking' = Walking
  BY <1>1 DEF Walking, walkVars
<1>3. ASSUME NEW d, Subscribed(d)' PROVE Subscribed(d)
  <2>1. subs \in Seq(Subscribers)
    BY NumberTypes DEF SyncInv, WalkInv
  <2>2. CASE subs' = subs
    BY <1>3, <2>2 DEF Subscribed
  <2>3. CASE subs # <<>> /\ subs' = Tail(subs)
    <3>1. PICK i \in 1..Len(subs') : subs'[i].cb = d
      BY <1>3 DEF Subscribed
    <3>2. /\ Len(subs) \in Nat \ {0} /\ Len(subs') = Len(subs) - 1
          /\ \A j \in 1..Len(subs') : subs'[j] = subs[j + 1]
      BY <2>1, <2>3, HeadTailProperties
    <3>3. i + 1 \in 1..Len(subs) /\ subs[i + 1].cb = d
      BY <3>1, <3>2
    <3> QED BY <3>3 DEF Subscribed
  <2> QED BY <2>2, <2>3 DEF Request, SubscribeCount, UnsubscribeUnlink
<1>4. NotAhead'
  BY <1>1 DEF SyncInv, NotAhead
<1>5. CleanEvents'
  BY <1>1, <1>2 DEF CleanEvents, Clean
<1>6. Settled'
  BY <1>1, <1>2, <1>3 DEF SyncInv, Settled, Pending, EndsWith
<1> QED BY <1>4, <1>5, <1>6

\* The rest of a request, during which no event is clean.
LEMMA SyncRest ==
  ASSUME SyncInv, SubscribeLink \/ SubscribeRead \/ SubscribePut \/ UnsubscribeCount
  PROVE  NotAhead' /\ CleanEvents' /\ Settled'
<1>0. /\ value \in Nat /\ sent \in Nat /\ initial \in Nat
      /\ queue \in Seq(Jobs) /\ subs \in Seq(Subscribers) /\ WalkInv
  BY NumberTypes DEF SyncInv, WalkInv
<1>1. /\ http # "free"
      /\ UNCHANGED <<got, sent, value, suspect, overlapped, disturbed, walkVars>>
  BY DEF SubscribeLink, SubscribeRead, SubscribePut, UnsubscribeCount, histVars
<1>2. Walking' = Walking
  BY <1>1 DEF Walking, walkVars
<1>3. NotAhead'
  BY <1>0, <1>1 DEF SyncInv, NotAhead, SubscribeLink, SubscribeRead, SubscribePut, UnsubscribeCount
<1>4. CleanEvents'
  <2>1. \A t \in Threads : ~Clean(t)
    BY <1>0, <1>1, CleanMeans
  <2> QED BY <1>1, <1>2, <2>1 DEF CleanEvents, Clean
<1>5. CASE SubscribeLink
  <2>1. http' = "read" /\ UNCHANGED <<client, queue, got, sent, value, suspect>>
    BY <1>5 DEF SubscribeLink, histVars
  <2>2. ASSUME NEW d, d # client, Subscribed(d)' PROVE Subscribed(d)
    <3>1. subs' = Append(subs, [id |-> made + 1, cb |-> client])
      BY <1>5 DEF SubscribeLink
    <3>2. /\ Len(subs') = Len(subs) + 1 /\ Len(subs) \in Nat
          /\ subs'[Len(subs) + 1] = [id |-> made + 1, cb |-> client]
          /\ \A i \in 1..Len(subs) : subs'[i] = subs[i]
      <4>1. client \in Clients /\ made + 1 \in 1..MaxSubscribes
        BY <1>0, <1>5 DEF SubscribeLink, WalkInv, Sizes, TypeOK
      <4>2. [id |-> made + 1, cb |-> client] \in Subscribers
        BY <4>1 DEF Subscribers
      <4> QED BY <1>0, <3>1, <4>2, AppendProperties
    <3>3. PICK i \in 1..Len(subs') : subs'[i].cb = d
      BY <2>2 DEF Subscribed
    <3>4. i # Len(subs) + 1
      BY <2>2, <3>2, <3>3
    <3>5. i \in 1..Len(subs) /\ subs[i].cb = d
      BY <3>2, <3>3, <3>4
    <3> QED BY <3>5 DEF Subscribed
  <2>3. http \notin {"read", "put"}
    BY <1>5 DEF SubscribeLink
  <2> QED BY <1>2, <1>3, <1>4, <2>1, <2>2, <2>3 DEF SyncInv, Settled, Pending, EndsWith
<1>6. CASE SubscribeRead
  <2>1. /\ http = "read" /\ http' = "put" /\ initial' = value
        /\ UNCHANGED <<client, subs, queue, got, sent, value, suspect>>
    BY <1>6 DEF SubscribeRead, listVars, histVars
  <2> QED BY <1>2, <1>3, <1>4, <2>1 DEF SyncInv, NotAhead, Settled, Pending, Subscribed, EndsWith
<1>7. CASE SubscribePut
  <2>1. /\ http = "put" /\ http' = "free"
        /\ queue' = Append(queue, [cb |-> client, value |-> initial])
        /\ UNCHANGED <<subs, got, sent, value, suspect>>
    BY <1>7 DEF SubscribePut, listVars, histVars
  <2>2. [cb |-> client, value |-> initial] \in Jobs
    BY <1>0 DEF WalkInv, TypeOK, Jobs
  <2>3. ASSUME NEW d \in Clients \ suspect, Walking = {}, Subscribed(d)
        PROVE  \E u \in sent..value : EndsWith(queue', got, d, u)
    <3>1. CASE d = client
      <4>1. EndsWith(queue', got, client, initial)
        BY <1>0, <2>1, <2>2, AppendOwn
      <4>2. sent <= initial /\ initial <= value
        BY <2>1, <2>3 DEF SyncInv, Settled, NotAhead
      <4> QED BY <1>0, <3>1, <4>1, <4>2
    <3>2. CASE d # client
      <4>1. PICK u \in sent..value : EndsWith(queue, got, d, u)
        BY <2>3, <3>2 DEF SyncInv, Settled, Pending
      <4>2. EndsWith(queue', got, d, u)
        BY <1>0, <2>1, <2>2, <3>2, <4>1, AppendOther
      <4> QED BY <4>2
    <3> QED BY <3>1, <3>2
  <2>4. Settled'
    BY <1>2, <2>1, <2>3 DEF Settled, Subscribed
  <2> QED BY <1>3, <1>4, <2>4
<1>8. CASE UnsubscribeCount
  <2>1. /\ http = "uncount" /\ http' = "free"
        /\ UNCHANGED <<subs, queue, got, sent, value, suspect>>
    BY <1>8 DEF UnsubscribeCount, histVars
  <2> QED BY <1>2, <1>3, <1>4, <2>1 DEF SyncInv, Settled, Pending, Subscribed, EndsWith
<1> QED BY <1>5, <1>6, <1>7, <1>8

LEMMA SyncWalk ==
  ASSUME SyncInv, NEW t \in Threads, Walk(t)
  PROVE  NotAhead' /\ CleanEvents' /\ Settled'
<1>0. /\ value \in Nat /\ sent \in Nat /\ initial \in Nat
      /\ queue \in Seq(Jobs) /\ subs \in Seq(Subscribers) /\ WalkInv
  BY NumberTypes DEF SyncInv, WalkInv
<1>1. /\ pc \in [Threads -> {"idle", "count", "walk", "put"}] /\ index \in [Threads -> Nat]
      /\ event \in [Threads -> [cb : Clients \cup {None}, value : 0..MaxValue]]
  BY <1>0 DEF WalkInv, TypeOK
<1> USE DEF listVars, httpVars, histVars
<1>2. CASE EventRead(t)
  <2>1. /\ pc[t] = "idle" /\ pc' = [pc EXCEPT ![t] = "count"] /\ sent' = value
        /\ event' = [event EXCEPT ![t] = [cb |-> None, value |-> value]]
        /\ UNCHANGED <<value, initial, index>>
    BY <1>2 DEF EventRead
  <2>2. Walking' = Walking \cup {t}
    BY <1>1, <2>1 DEF Walking
  <2>3. NotAhead'
    BY <1>0, <2>1 DEF SyncInv, NotAhead
  <2>4. ASSUME NEW u \in Threads, Clean(u)' PROVE Walking = {} /\ u = t
    BY <1>2, <2>2, <2>4 DEF EventRead, Clean
  <2>5. index[t] = 1 /\ event'[t].value = value
    BY <1>0, <1>1, <2>1 DEF WalkInv, Places
  <2>6. CleanEvents'
    BY <2>1, <2>2, <2>4, <2>5 DEF CleanEvents
  <2>7. Settled'
    BY <2>2 DEF Settled
  <2> QED BY <2>3, <2>6, <2>7
<1>3. CASE EventCount(t) \/ EventFetch(t)
  <2>1. /\ pc[t] # "idle" /\ pc'[t] # "idle" /\ \A u \in Threads \ {t} : pc'[u] = pc[u]
        /\ UNCHANGED <<value, sent, initial, subs, queue, got, event, index, overlapped, suspect>>
    BY <1>1, <1>3 DEF EventCount, EventFetch
  <2>2. Walking' = Walking /\ t \in Walking
    BY <2>1 DEF Walking
  <2>3. NotAhead'
    BY <2>1 DEF SyncInv, NotAhead
  <2>4. CleanEvents'
    BY <2>1, <2>2 DEF SyncInv, CleanEvents, Clean, EndsWith
  <2>5. Settled'
    BY <2>2 DEF Settled
  <2> QED BY <2>3, <2>4, <2>5
<1>4. CASE EventPut(t)
  <2>1. /\ pc[t] = "put" /\ pc' = [pc EXCEPT ![t] = "walk"]
        /\ index' = [index EXCEPT ![t] = index[t] + 1]
        /\ UNCHANGED <<value, sent, initial, subs, got, overlapped, suspect>>
    BY <1>4 DEF EventPut
  <2>2. PICK cb \in Callback(t) :
          /\ event' = [event EXCEPT ![t].cb = cb]
          /\ queue' = Append(queue, [cb |-> cb, value |-> event[t].value])
    BY <1>4 DEF EventPut
  <2>3. Walking' = Walking /\ t \in Walking
    BY <1>1, <2>1 DEF Walking
  <2>4. NotAhead'
    BY <2>1 DEF SyncInv, NotAhead
  <2>5. Settled'
    BY <2>3 DEF Settled
  <2>6. event'[t].value = event[t].value
    BY <1>1, <2>2
  <2>7. ASSUME Clean(t), NEW i \in 1..index[t], subs[i].cb \notin suspect
        PROVE  EndsWith(queue', got, subs[i].cb, sent)
    <3>1. t \notin disturbed /\ event[t].value = sent
      BY <1>0, <2>7, CleanMeans DEF SyncInv, CleanEvents
    <3>2. /\ index[t] \in 1..Len(subs) /\ subs[index[t]].cb \in Clients
          /\ cb = subs[index[t]].cb
      BY <1>0, <2>1, <2>2, <3>1, NextCallback
    <3>3. [cb |-> cb, value |-> sent] \in Jobs
      BY <1>0, <3>2 DEF WalkInv, TypeOK, Jobs
    <3>4. queue' = Append(queue, [cb |-> cb, value |-> sent])
      BY <2>2, <3>1
    <3>5. CASE subs[i].cb = cb
      BY <1>0, <3>3, <3>4, <3>5, AppendOwn
    <3>6. CASE subs[i].cb # cb
      <4>1. i \in 1..index[t] - 1
        BY <1>1, <3>2, <3>6
      <4>2. EndsWith(queue, got, subs[i].cb, sent)
        BY <2>7, <4>1 DEF SyncInv, CleanEvents
      <4> QED BY <1>0, <3>3, <3>4, <3>6, <4>2, AppendOther
    <3> QED BY <3>5, <3>6
  <2>8. CleanEvents'
    <3> SUFFICES ASSUME NEW u \in Threads, Clean(u)'
                 PROVE  /\ Walking' = {u} /\ event'[u].value = sent'
                        /\ \A i \in 1..index'[u] - 1 : subs'[i].cb \notin suspect' =>
                             EndsWith(queue', got', subs'[i].cb, sent')
      BY DEF CleanEvents
    <3>1. Clean(u)
      BY <2>1, <2>3 DEF Clean
    <3>2. u = t /\ Walking = {t} /\ event[t].value = sent
      BY <2>3, <3>1 DEF SyncInv, CleanEvents
    <3>3. index'[t] - 1 = index[t]
      BY <1>1, <2>1
    <3> QED BY <2>1, <2>3, <2>6, <2>7, <3>1, <3>2, <3>3
  <2> QED BY <2>4, <2>5, <2>8
<1>5. CASE EventEnd(t)
  <2>1. /\ pc[t] = "walk" /\ index[t] > count[t] /\ pc' = [pc EXCEPT ![t] = "idle"]
        /\ suspect' = (IF t \in overlapped THEN Clients ELSE suspect)
        /\ overlapped' = overlapped \ {t}
        /\ UNCHANGED <<value, sent, initial, subs, queue, got, http, client>>
    BY <1>5 DEF EventEnd
  <2>2. Walking' = Walking \ {t} /\ t \in Walking
    BY <1>1, <2>1 DEF Walking
  <2>3. NotAhead'
    BY <2>1 DEF SyncInv, NotAhead
  <2>4. CleanEvents'
    <3>1. ASSUME NEW u \in Threads, Clean(u)' PROVE FALSE
      <4>1. u # t /\ Clean(u)
        BY <2>1, <2>2, <3>1 DEF Clean
      <4>2. Walking = {u}
        BY <4>1 DEF SyncInv, CleanEvents
      <4> QED BY <2>2, <4>1, <4>2
    <3> QED BY <3>1 DEF CleanEvents
  <2>5. CASE t \in overlapped
    <3>1. suspect' = Clients
      BY <2>1, <2>5
    <3> QED BY <2>3, <2>4, <3>1 DEF Settled
  <2>6. CASE t \notin overlapped
    <3>1. Clean(t) /\ suspect' = suspect
      BY <2>1, <2>2, <2>6 DEF Clean
    <3>2. http = "free" /\ count[t] = Len(subs)
      BY <1>0, <2>1, <3>1, CleanMeans
    <3>3. ASSUME NEW c \in Clients \ suspect, Subscribed(c)
          PROVE  \E u \in sent..value : EndsWith(queue, got, c, u)
      <4>1. PICK i \in 1..Len(subs) : subs[i].cb = c
        BY <3>3 DEF Subscribed
      <4>2. i \in 1..index[t] - 1
        BY <1>0, <1>1, <2>1, <3>2
      <4>3. EndsWith(queue, got, c, sent)
        BY <3>1, <3>3, <4>1, <4>2 DEF SyncInv, CleanEvents
      <4>4. sent \in sent..value
        BY <1>0 DEF SyncInv, NotAhead
      <4> QED BY <4>3, <4>4
    <3>4. Settled'
      BY <2>1, <3>1, <3>2, <3>3 DEF Settled, Subscribed
    <3> QED BY <2>3, <2>4, <3>4
  <2> QED BY <2>5, <2>6
<1> QED BY <1>2, <1>3, <1>4, <1>5 DEF Walk

LEMMA SyncStep == SyncInv /\ [Next]_vars => SyncInv'
<1> SUFFICES ASSUME SyncInv, [Next]_vars PROVE NotAhead' /\ CleanEvents' /\ Settled'
  BY WalksStep DEF SyncInv
<1>1. CASE SetRegistered \/ UNCHANGED vars
  <2>1. UNCHANGED <<http, client, initial, subs, queue, got, sent, value, suspect,
                    overlapped, walkVars>>
    BY <1>1 DEF SetRegistered, vars, listVars, httpVars, histVars
  <2> QED BY <2>1, SyncKept
<1>2. CASE ListStep
  BY <1>2, SyncRequest, SyncRest DEF ListStep
<1>3. CASE \E t \in Threads : Walk(t)
  BY <1>3, SyncWalk
<1> QED BY <1>1, <1>2, <1>3, SyncValue, SyncNotify, Steps

LEMMA SyncInit == Init => SyncInv
<1> SUFFICES ASSUME Init PROVE SyncInv
  OBVIOUS
<1>1. Walking = {} /\ subs = <<>> /\ http = "free" /\ sent = 0 /\ value = 0 /\ initial = 0
  BY DEF Init, Walking
<1>2. \A c \in Clients : ~Subscribed(c)
  BY <1>1 DEF Subscribed
<1> QED BY <1>1, <1>2, WalksInit DEF SyncInv, NotAhead, CleanEvents, Clean, Settled

\* When all is still and the last change was sent, subscribers have the current
\* value, but for failed notifications and events that met another or a request
\* (OnServiceChanged, OnSubscribe and DoNotify, UpnpGenaServer.c).
THEOREM SubscribersInSync == Spec => []InSyncUnlessRaced
<1>1. SyncInv => InSyncUnlessRaced
  <2> SUFFICES ASSUME SyncInv, queue = <<>>, Walking = {}, http = "free", sent = value,
                      NEW c \in Clients \ suspect, Subscribed(c)
               PROVE  got[c] = value
    BY DEF InSyncUnlessRaced
  <2>1. PICK u \in sent..value : EndsWith(queue, got, c, u)
    BY DEF SyncInv, Settled, Pending
  <2>2. u = value
    BY NumberTypes DEF SyncInv, WalkInv
  <2>3. Len(queue) = 0
    OBVIOUS
  <2> QED BY <2>1, <2>2, <2>3 DEF EndsWith
<1> QED BY <1>1, SyncInit, SyncStep, PTL DEF Spec
=============================================================================
