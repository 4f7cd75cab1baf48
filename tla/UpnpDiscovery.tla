---------------------------- MODULE UpnpDiscovery ----------------------------
(***************************************************************************)
(* The control point's discovery: UpnpRuntime_StartScan and StopScan, the  *)
(* validator, and UpnpRegistry_OnAlive, OnByebye and OnResponse, which run *)
(* on the SSDP thread and keep the list of the objects that were found.    *)
(*                                                                         *)
(* The fields of a scan are written by the application, one after the      *)
(* other and with no lock, while the SSDP thread tests and uses them.  The *)
(* mutex of the list protects it from nobody: only the SSDP thread has it. *)
(*                                                                         *)
(* The network delivers what was once sent late, twice, in any order, or   *)
(* never.  A device leaves with a byebye or without.                       *)
(***************************************************************************)
EXTENDS Naturals, FiniteSets

CONSTANTS
  Usns,        \* the USNs that others announce
  UsnType,     \* UsnType[u]: the type of the URI in u, "invalid" if it is not parsed
  NtType,      \* NtType[u]: the same of the NT or ST that comes with u
  FilterOf,    \* FilterOf[s]: the USNs that the filter of scan s lets through
  MaxScans,    \* bound: calls of StartScan
  MaxChanges   \* bound: how often a device comes or leaves

Types == {"device", "other", "invalid"}

ASSUME UsnTypes == UsnType \in [Usns -> Types]
ASSUME NtTypes == NtType \in [Usns -> Types]
ASSUME MaxScansNat == MaxScans \in Nat
ASSUME MaxChangesNat == MaxChanges \in Nat
ASSUME FilterOfScans == FilterOf \in [1..MaxScans -> SUBSET Usns]

Kinds == {"alive", "response", "byebye"}

NoMessage == [kind |-> "none"]
Messages == [kind : Kinds, usn : Usns]

VARIABLES
  ssdpRunning, \* ssdp.running, and its thread is there
  scan,        \* the scan of the runtime: deviceListener, deviceFilter, discoveryCtx
  validator,   \* validator.filter and its ctx are set
  listener,    \* UpnpRegistry.listener # NULL
  context,     \* UpnpRegistry.ctx # NULL
  app,         \* where the application is in StartScan
  found,       \* foundObjects
  ssdpThread,  \* where the SSDP thread is with a message
  msg,         \* the message it has read
  present,     \* the USNs of devices that are on the network
  sent,        \* what has ever been sent and may still arrive
  (* history, never read by the code's own steps *)
  scans,       \* calls of StartScan
  changes,
  raced,       \* the application has been in StartScan or StopScan during msg
  told,        \* told[u]: what a listener has heard last about u
  hearer,      \* hearer[u]: the scan whose listener that was
  passed       \* <<filter, context>> that the last message has passed

scanVars == <<scan, validator, listener, context, app, scans>>
netVars == <<present, sent, changes>>
reports == <<told, hearer>>
foundVars == <<found, ssdpThread, msg, reports, passed>>
discoveryVars == <<ssdpRunning, scanVars, netVars, foundVars, raced>>

DiscoveryInit ==
  /\ ssdpRunning = FALSE
  /\ scan = [listener |-> 0, filter |-> 0, context |-> 0]
  /\ validator = FALSE /\ listener = FALSE /\ context = FALSE /\ app = "idle"
  /\ found = {} /\ ssdpThread = "idle" /\ msg = NoMessage
  /\ present = {} /\ sent = {}
  /\ scans = 0 /\ changes = 0 /\ raced = FALSE
  /\ told = [u \in Usns |-> "nothing"] /\ hearer = [u \in Usns |-> 0]
  /\ passed = <<0, 0>>

-----------------------------------------------------------------------------
(* The network.                                                            *)

\* A device that comes announces itself.
Come(u) ==
  /\ changes < MaxChanges /\ u \notin present
  /\ present' = present \cup {u} /\ changes' = changes + 1
  /\ sent' = sent \cup {[kind |-> "alive", usn |-> u]}
  /\ UNCHANGED <<ssdpRunning, scanVars, foundVars, raced>>

Leave(u) ==
  /\ changes < MaxChanges /\ u \in present
  /\ present' = present \ {u} /\ changes' = changes + 1
  /\ \/ sent' = sent \cup {[kind |-> "byebye", usn |-> u]}
     \/ UNCHANGED sent
  /\ UNCHANGED <<ssdpRunning, scanVars, foundVars, raced>>

\* The SSDP thread starts and stops between messages.
SsdpToggles ==
  /\ ssdpRunning' = ~ssdpRunning /\ ssdpThread = "idle"
  /\ UNCHANGED <<scanVars, netVars, foundVars, raced>>

-----------------------------------------------------------------------------
(* The application: UpnpRuntime_StartScan and UpnpRegistry_Discover write  *)
(* the fields one by one, then send the search.                            *)

AppStep(from, to) ==
  /\ app = from /\ app' = to
  /\ raced' = (raced \/ ssdpThread # "idle")
  /\ UNCHANGED <<ssdpRunning, foundVars, present, changes>>

StartScan ==
  /\ AppStep("idle", "filter")
  /\ scans < MaxScans /\ scans' = scans + 1
  /\ scan' = [scan EXCEPT !.listener = scans']
  /\ UNCHANGED <<validator, listener, context, sent>>

SetFilter ==
  /\ AppStep("filter", "context")
  /\ scan' = [scan EXCEPT !.filter = scans]
  /\ UNCHANGED <<validator, listener, context, sent, scans>>

SetContext ==
  /\ AppStep("context", "validator")
  /\ scan' = [scan EXCEPT !.context = scans]
  /\ UNCHANGED <<validator, listener, context, sent, scans>>

SetValidator ==
  /\ AppStep("validator", "listener")
  /\ validator' = TRUE
  /\ UNCHANGED <<scan, listener, context, sent, scans>>

SetListener ==
  /\ AppStep("listener", "listenerCtx")
  /\ listener' = TRUE
  /\ UNCHANGED <<scan, validator, context, sent, scans>>

SetListenerCtx ==
  /\ AppStep("listenerCtx", "search")
  /\ context' = TRUE
  /\ UNCHANGED <<scan, validator, listener, sent, scans>>

\* Nothing is sent when SSDP is not running; the scan is on all the same.
\* Whoever is there answers.
SendSearch ==
  /\ AppStep("search", "idle")
  /\ sent' = IF ssdpRunning THEN sent \cup [kind : {"response"}, usn : present] ELSE sent
  /\ UNCHANGED <<scan, validator, listener, context, scans>>

\* The list, the validator and the context stay as they are.
StopScan ==
  /\ AppStep("idle", "idle")
  /\ listener' = FALSE
  /\ UNCHANGED <<scan, validator, context, sent, scans>>

-----------------------------------------------------------------------------
(* The SSDP thread.                                                        *)

MessageStep(from, to) ==
  /\ ssdpThread = from /\ ssdpThread' = to
  /\ UNCHANGED <<ssdpRunning, scanVars, netVars>>

Receive(m) ==
  /\ ssdpRunning /\ m \in sent
  /\ MessageStep("idle", "test")
  /\ msg' = m /\ raced' = (app # "idle")
  /\ UNCHANGED <<found, reports, passed>>

\* Mutant: nobody tests whether there is a scan.
Test_Always ==
  /\ MessageStep("test", "validate")
  /\ UNCHANGED <<found, msg, raced, reports, passed>>

\* if (thiz->listener == NULL) break;
Test ==
  /\ MessageStep("test", IF listener THEN "validate" ELSE "idle")
  /\ UNCHANGED <<found, msg, raced, reports, passed>>

\* UpnpValidator_ValidateUSN with object_filter: devices that the filter of
\* the scan lets through, called with the context of the scan.
Passes(u) ==
  /\ UsnType[u] # "invalid"
  /\ validator => UsnType[u] = "device" /\ (scan.filter # 0 => u \in FilterOf[scan.filter])

Validate ==
  /\ MessageStep("validate", IF Passes(msg.usn) THEN "lookup" ELSE "idle")
  /\ passed' = IF validator THEN <<scan.filter, scan.context>> ELSE passed
  /\ UNCHANGED <<found, msg, raced, reports>>

\* A goodbye is news if the object is in the list; anything else if it is not,
\* and the factory can make an object of it, which goes into the list first.
News == IF msg.kind = "byebye" THEN msg.usn \in found
        ELSE msg.usn \notin found /\ NtType[msg.usn] # "invalid"

\* Mutant: the object is reported and does not get into the list.
Lookup_NotAdded ==
  /\ MessageStep("lookup", IF News THEN "call" ELSE "idle")
  /\ UNCHANGED <<found, msg, raced, reports, passed>>

Lookup ==
  /\ MessageStep("lookup", IF News THEN "call" ELSE "idle")
  /\ found' = IF News /\ msg.kind # "byebye" THEN found \cup {msg.usn} ELSE found
  /\ UNCHANGED <<msg, raced, reports, passed>>

\* thiz->listener(obj, alive, thiz->ctx): the listener is read again, or kept
\* from the test as the compiler likes.
CallListener ==
  /\ \E l \in {TRUE, listener} :
       MessageStep("call", IF l /\ context THEN "notify" ELSE "fault")
  /\ UNCHANGED <<found, msg, raced, reports, passed>>

\* object_listener calls the listener of the scan there is now, for a device.
Tell(u, what) ==
  IF NtType[u] = "device"
  THEN /\ told' = [told EXCEPT ![u] = what]
       /\ hearer' = [hearer EXCEPT ![u] = scan.listener]
  ELSE UNCHANGED reports

\* Mutant: the object stays in the list when it says goodbye.
Notify_Keeps ==
  /\ MessageStep("notify", "idle")
  /\ Tell(msg.usn, IF msg.kind = "byebye" THEN "gone" ELSE "alive")
  /\ UNCHANGED <<found, msg, raced, passed>>

\* The application is told; then an object that has said goodbye is removed.
Notify ==
  /\ MessageStep("notify", "idle")
  /\ Tell(msg.usn, IF msg.kind = "byebye" THEN "gone" ELSE "alive")
  /\ found' = IF msg.kind = "byebye" THEN found \ {msg.usn} ELSE found
  /\ UNCHANGED <<msg, raced, passed>>

-----------------------------------------------------------------------------
Scanning == SetFilter \/ SetContext \/ SetValidator \/ SetListener \/ SetListenerCtx \/ SendSearch

Handling == Test \/ Validate \/ Lookup \/ CallListener \/ Notify

DiscoveryNext ==
  \/ \E u \in Usns : Come(u) \/ Leave(u)
  \/ SsdpToggles
  \/ StartScan \/ Scanning \/ StopScan
  \/ \E m \in sent : Receive(m)
  \/ Handling

DiscoverySpec == DiscoveryInit /\ [][DiscoveryNext]_discoveryVars

(* Both threads go on with what they have begun.  A device that is there   *)
(* repeats its announcement, and not every repetition is lost.             *)
Announced(u) == u \in present /\ Receive([kind |-> "alive", usn |-> u])

DiscoveryFairness ==
  /\ WF_discoveryVars(Scanning) /\ WF_discoveryVars(Handling)
  /\ \A u \in Usns : SF_discoveryVars(Announced(u))

DiscoveryFairSpec == DiscoverySpec /\ DiscoveryFairness

-----------------------------------------------------------------------------
DiscoveryTypeOK ==
  /\ {ssdpRunning, validator, listener, context, raced} \subseteq BOOLEAN
  /\ scan \in [listener : 0..MaxScans, filter : 0..MaxScans, context : 0..MaxScans]
  /\ app \in {"idle", "filter", "context", "validator", "listener", "listenerCtx", "search"}
  /\ found \subseteq Usns /\ present \subseteq Usns
  /\ sent \subseteq Messages /\ msg \in Messages \cup {NoMessage}
  /\ ssdpThread # "idle" => msg \in Messages
  /\ ssdpThread \in {"idle", "test", "validate", "lookup", "call", "notify", "fault"}
  /\ scans \in 0..MaxScans /\ changes \in 0..MaxChanges
  /\ told \in [Usns -> {"nothing", "alive", "gone"}] /\ hearer \in [Usns -> 0..MaxScans]
  /\ passed \in (0..MaxScans) \X (0..MaxScans)

\* As long as StartScan and StopScan do not run while a message is handled, the
\* SSDP thread never calls a listener that is gone, what a listener hears has
\* passed the filter of its own scan, and both get the context of that scan.
CleanUnlessRaced ==
  ~raced =>
    /\ ssdpThread # "fault"
    /\ ssdpThread \in {"call", "notify"} => passed = <<scan.listener, scan.context>>
    /\ ssdpThread = "notify" => msg.usn \in FilterOf[scan.listener]

\* Over any number of scans, and whatever the network repeats or reorders, the
\* reports about a device alternate between alive and gone: one that is in the
\* list was reported alive, one that is not was reported gone or never.
ReportsAlternate ==
  ssdpThread = "idle" =>
    \A u \in Usns : NtType[u] = "device" => (told[u] = "alive" <=> u \in found)

\* The listener of a scan that is left alone is told, again and again, that a
\* device is there that stays there, even when an old goodbye comes late: but
\* for a device that is in the list since an earlier scan, which StopScan has
\* not emptied.  That one is not mentioned before it has said goodbye.
Watched(u) ==
  /\ u \in present /\ ssdpRunning /\ listener /\ app = "idle" /\ ssdpThread # "fault"
  /\ UsnType[u] = "device" /\ NtType[u] = "device" /\ u \in FilterOf[scan.filter]

Rediscovered ==
  \A u \in Usns :
    <>[]Watched(u) =>
      \/ []<>(told[u] = "alive" /\ hearer[u] = scan.listener)
      \/ <>[](u \in found /\ hearer[u] < scan.listener)
=============================================================================
