--------------------------- MODULE Advertisement ---------------------------
(***************************************************************************)
(* What a host promises to the network, with no locks, sockets or threads: *)
(* while it is online a device is announced as soon as it is registered,   *)
(* taken back as soon as it is not, and everything is taken back when the  *)
(* host goes offline.  A host that is thrown away while it is online       *)
(* vanishes and takes nothing back.                                        *)
(*                                                                         *)
(* Module UpnpRegistry is shown to implement this specification.           *)
(***************************************************************************)
CONSTANT Devices

VARIABLES
  devices,   \* what is registered
  online,    \* the host answers for its devices
  audible,   \* it has a network interface to be heard through
  heard      \* heard[d]: the last claim made about d

vars == <<devices, online, audible, heard>>

Claims == {"nothing", "alive", "byebye"}

Claim(ds, what) ==
  heard' = IF audible THEN [d \in Devices |-> IF d \in ds THEN what ELSE heard[d]] ELSE heard

Init ==
  /\ devices = {} /\ online = FALSE /\ audible = FALSE
  /\ heard = [d \in Devices |-> "nothing"]

Register(d) ==
  /\ d \notin devices /\ devices' = devices \cup {d}
  /\ IF online THEN Claim({d}, "alive") ELSE heard' = heard
  /\ UNCHANGED <<online, audible>>

Unregister(d) ==
  /\ d \in devices /\ devices' = devices \ {d}
  /\ IF online THEN Claim({d}, "byebye") ELSE heard' = heard
  /\ UNCHANGED <<online, audible>>

\* The interfaces are chosen when the sockets are opened, which may fail.
OpenSockets == ~online /\ audible' \in BOOLEAN /\ UNCHANGED <<devices, online, heard>>

GoOnline ==
  /\ ~online /\ online' = TRUE
  /\ audible' \in BOOLEAN
  /\ heard' = IF audible' THEN [d \in Devices |-> IF d \in devices THEN "alive" ELSE heard[d]]
                          ELSE heard
  /\ UNCHANGED devices

GoOffline ==
  /\ online /\ online' = FALSE
  /\ Claim(devices, "byebye")
  /\ UNCHANGED <<devices, audible>>

Vanish == online /\ online' = FALSE /\ UNCHANGED <<devices, audible, heard>>

\* A search is answered for every registered device.
Answer == online /\ Claim(devices, "alive") /\ UNCHANGED <<devices, online, audible>>

Next ==
  \/ \E d \in Devices : Register(d) \/ Unregister(d)
  \/ OpenSockets \/ GoOnline \/ GoOffline \/ Vanish \/ Answer

Spec == Init /\ [][Next]_vars
=============================================================================
