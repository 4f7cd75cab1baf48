---------------------------- MODULE UpnpGenaClient ---------------------------
(***************************************************************************)
(* UpnpStack/UpnpCtrlPoint/UpnpGenaClient: a control point subscribes to   *)
(* the events of a service, and the threads of the HTTP server hand it the *)
(* notifications that arrive.                                              *)
(*                                                                         *)
(* Subscribe and Unsubscribe hold the mutex of the client over the whole   *)
(* exchange with the device, which goes through the HttpClient that the    *)
(* notify worker of the same runtime uses as well.  A notification waits   *)
(* for the mutex, and the listener is called with the mutex held.          *)
(*                                                                         *)
(* The device is another program: it accepts a subscription or refuses it, *)
(* its answer may be lost, and it may notify as soon as it has accepted.   *)
(***************************************************************************)
EXTENDS HttpClient

CONSTANTS
  Services,      \* the services, and with them the callback URIs
  App, Worker,   \* the thread that subscribes, and the one that notifies
  Reentrant      \* whether a listener calls Subscribe or Unsubscribe itself

ASSUME TwoThreads == Threads = {App, Worker} /\ App # Worker
ASSUME ReentrantBoolean == Reentrant \in BOOLEAN
ASSUME SomeService == Services # {}

VARIABLES
  mutex,     \* who holds the mutex: "free", "app" or "conn"
  map,       \* the callback URIs of the subscriptions in the map
  uri,       \* the services with a callback URI, after a Subscribe
  serving,   \* the HTTP server is running
  call,      \* the call of the application: its operation, its service
  app,       \* where it is in that call
  result,    \* what the call has returned
  device,    \* the services whose device has a subscription of this control point
  conn,      \* where the thread with a notification is
  about,     \* the service of that notification
  (* history *)
  deaf       \* the services of which a notification was answered 404 since the
             \* device has accepted the subscription

genaVars == <<mutex, map, uri, serving, call, app, result, device, conn, about, deaf>>
allVars == <<status, socket, conns, pc, got, made, overlapped, met, left, mutex, map,
             uri, serving, call, app, result, device, conn, about, deaf>>

NoCall == [op |-> "none", service |-> CHOOSE s \in Services : TRUE]

GenaInit ==
  /\ Init
  /\ mutex = "free" /\ map = {} /\ uri = {} /\ serving = FALSE
  /\ call = NoCall /\ app = "idle" /\ result = "none"
  /\ device = {} /\ conn = "idle" /\ about = NoCall.service /\ deaf = {}

-----------------------------------------------------------------------------
(* The application.                                                        *)

Call(op, s) ==
  /\ app = "idle" /\ made[App] < MaxRequests[App]
  /\ app' = "wait" /\ call' = [op |-> op, service |-> s] /\ result' = "none"
  /\ UNCHANGED <<vars, mutex, map, uri, serving, device, conn, about, deaf>>

Lock ==
  /\ app = "wait" /\ mutex = "free"
  /\ app' = "check" /\ mutex' = "app"
  /\ UNCHANGED <<vars, map, uri, serving, call, result, device, conn, about, deaf>>

\* Out with an error, and the mutex is free again.
Refuse(code) ==
  /\ app = "check" /\ app' = "idle" /\ mutex' = "free" /\ result' = code
  /\ UNCHANGED <<vars, map, uri, serving, call, device, conn, about, deaf>>

\* Mutant: the mutex stays locked.
RefuseStopped_Locked ==
  /\ ~serving /\ app = "check" /\ app' = "idle" /\ result' = "E_STOPPED"
  /\ UNCHANGED <<vars, mutex, map, uri, serving, call, device, conn, about, deaf>>

RefuseStopped == ~serving /\ Refuse("E_STOPPED")

\* Service already subscribed.
RefuseSubscribed ==
  serving /\ call.op = "subscribe" /\ call.service \in map /\ Refuse("E_ITEM_EXIST")

RefuseUnknown ==
  /\ serving /\ call.op = "unsubscribe"
  /\ call.service \notin uri \/ call.service \notin map
  /\ Refuse("E_NOT_FOUND")

\* The subscription is in the map before the device hears of it.
Subscribe ==
  /\ app = "check" /\ serving /\ call.op = "subscribe" /\ call.service \notin map
  /\ map' = map \cup {call.service}
  /\ app' = "exchange" /\ Begin(App)
  /\ UNCHANGED <<mutex, uri, serving, call, result, device, conn, about, deaf>>

Unsubscribe ==
  /\ app = "check" /\ serving /\ call.op = "unsubscribe" /\ call.service \in uri \cap map
  /\ app' = "exchange" /\ Begin(App)
  /\ UNCHANGED <<mutex, map, uri, serving, call, result, device, conn, about, deaf>>

\* The device acts on the request if it gets it: if no answer comes, it may have
\* done so or not.
SendRequest(reaction) ==
  /\ app = "exchange" /\ Send(App, reaction)
  /\ LET done == IF call.op = "subscribe" THEN device \cup {call.service}
                                          ELSE device \ {call.service}
     IN device' \in (CASE reaction = "accepted" -> {done}
                       [] reaction = "refused" -> {device}
                       [] OTHER -> {device, done})
  /\ deaf' = IF call.op = "subscribe" /\ reaction = "accepted"
             THEN deaf \ {call.service} ELSE deaf
  /\ UNCHANGED <<mutex, map, uri, serving, call, app, result, conn, about>>

Accepted == got[App].is = "accepted"

\* Mutant: the subscription is taken out of the map in any case.
SubscribeEnds_Erases ==
  /\ app = "exchange" /\ pc[App] = "idle" /\ call.op = "subscribe"
  /\ map' = map \ {call.service}
  /\ IF Accepted THEN uri' = uri \cup {call.service} /\ result' = "OK"
                 ELSE result' = "failed" /\ UNCHANGED uri
  /\ app' = "idle" /\ mutex' = "free"
  /\ UNCHANGED <<vars, serving, call, device, conn, about, deaf>>

\* Subscribe fails when the status is not 200, or there was no answer: the
\* subscription is taken out of the map.
SubscribeEnds ==
  /\ app = "exchange" /\ pc[App] = "idle" /\ call.op = "subscribe"
  /\ IF Accepted
     THEN uri' = uri \cup {call.service} /\ result' = "OK" /\ UNCHANGED map
     ELSE map' = map \ {call.service} /\ result' = "failed" /\ UNCHANGED uri
  /\ app' = "idle" /\ mutex' = "free"
  /\ UNCHANGED <<vars, serving, call, device, conn, about, deaf>>

\* Unsubscribe leaves the subscription in the map, whatever the device says.
UnsubscribeEnds ==
  /\ app = "exchange" /\ pc[App] = "idle" /\ call.op = "unsubscribe"
  /\ result' = IF Accepted THEN "OK" ELSE "failed"
  /\ app' = "idle" /\ mutex' = "free"
  /\ UNCHANGED <<vars, map, uri, serving, call, device, conn, about, deaf>>

-----------------------------------------------------------------------------
(* A notification, on the thread of its connection: notify_handler.        *)

ConnStep(from, to) ==
  /\ conn = from /\ conn' = to
  /\ UNCHANGED <<vars, map, uri, serving, call, app, result, device>>

Notification(s) ==
  /\ serving /\ s \in device /\ ConnStep("idle", "wait")
  /\ about' = s
  /\ UNCHANGED <<mutex, deaf>>

NotifyLock ==
  /\ mutex = "free" /\ ConnStep("wait", "lookup")
  /\ mutex' = "conn"
  /\ UNCHANGED <<about, deaf>>

\* 404 when there is no subscription.
NotifyUnknown ==
  /\ about \notin map /\ ConnStep("lookup", "idle")
  /\ mutex' = "free"
  /\ deaf' = IF about \in device THEN deaf \cup {about} ELSE deaf
  /\ UNCHANGED about

NotifyCall ==
  /\ about \in map /\ ConnStep("lookup", "listener")
  /\ UNCHANGED <<mutex, about, deaf>>

\* The listener calls into the client and waits for the mutex of its own thread.
NotifyReenter ==
  /\ Reentrant /\ ConnStep("listener", "reenter")
  /\ UNCHANGED <<mutex, about, deaf>>

NotifyEnd ==
  /\ ConnStep("listener", "idle")
  /\ mutex' = "free"
  /\ UNCHANGED <<about, deaf>>

-----------------------------------------------------------------------------
\* The server starts and stops.
ServingToggles ==
  /\ serving' = ~serving
  /\ UNCHANGED <<vars, mutex, map, uri, call, app, result, device, conn, about, deaf>>

\* Invoke and Notify send requests as well, from threads with no mutex.
OtherRequest ==
  /\ Begin(Worker) \/ \E reaction \in Reactions : Send(Worker, reaction)
  /\ UNCHANGED genaVars

Exchanging(t) == Exchange(t) /\ UNCHANGED genaVars

AppStep ==
  \/ RefuseStopped \/ RefuseSubscribed \/ RefuseUnknown
  \/ Subscribe \/ Unsubscribe
  \/ Exchanging(App) \/ \E reaction \in Reactions : SendRequest(reaction)
  \/ SubscribeEnds \/ UnsubscribeEnds

NotifyStep == NotifyUnknown \/ NotifyCall \/ NotifyReenter \/ NotifyEnd

GenaNext ==
  \/ \E op \in {"subscribe", "unsubscribe"}, s \in Services : Call(op, s)
  \/ Lock \/ AppStep
  \/ \E s \in Services : Notification(s)
  \/ NotifyLock \/ NotifyStep
  \/ ServingToggles
  \/ OtherRequest \/ Exchanging(Worker)

GenaSpec == GenaInit /\ [][GenaNext]_allVars

(* Every step of an exchange ends, by its timeout at the latest; whoever   *)
(* has the mutex goes on; and the mutex, though not fair, is had by those  *)
(* who wait while it comes free again and again.                           *)
Fairness ==
  /\ WF_allVars(AppStep) /\ WF_allVars(NotifyStep)
  /\ SF_allVars(Lock) /\ SF_allVars(NotifyLock)

FairSpec == GenaSpec /\ Fairness

-----------------------------------------------------------------------------
GenaTypeOK ==
  /\ TypeOK
  /\ mutex \in {"free", "app", "conn"}
  /\ map \subseteq Services /\ uri \subseteq Services /\ device \subseteq Services
  /\ deaf \subseteq Services /\ serving \in BOOLEAN
  /\ call \in [op : {"none", "subscribe", "unsubscribe"}, service : Services]
  /\ app \in {"idle", "wait", "check", "exchange"}
  /\ result \in {"none", "OK", "failed", "E_STOPPED", "E_ITEM_EXIST", "E_NOT_FOUND"}
  /\ conn \in {"idle", "wait", "lookup", "listener", "reenter"} /\ about \in Services

\* When Subscribe returns success, and its exchange met no other request, the
\* device has accepted this very subscription; and no notification was lost
\* that came before Subscribe returned, nor will be one that comes after it:
\* each finds its listener.
SubscribedIsHeard ==
  call.op = "subscribe" /\ app = "idle" /\ result = "OK" /\ App \notin overlapped =>
    /\ call.service \in device
    /\ call.service \in map /\ call.service \notin deaf

\* Subscribe, Unsubscribe and notify_handler return, unless a listener has
\* called into the client.
CallsReturn ==
  /\ app = "wait" ~> app = "idle" \/ conn = "reenter"
  /\ conn = "wait" ~> conn \in {"idle", "reenter"}

\* "Service already subscribed": the device of a service for which Subscribe is
\* refused with E_ITEM_EXIST has a subscription.
RefusedIsSubscribed ==
  [][RefuseSubscribed => call.service \in device]_allVars
=============================================================================
