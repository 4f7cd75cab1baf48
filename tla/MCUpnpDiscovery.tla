--------------------------- MODULE MCUpnpDiscovery ---------------------------
(***************************************************************************)
(* UpnpDiscovery with a device, a device whose NT is of another type, and  *)
(* three scans.  The second does not want the first device, which the      *)
(* third may inherit from the first, or find.                              *)
(***************************************************************************)
EXTENDS UpnpDiscovery, TLC

CONSTANTS u1, u2

TypesOfUsns == u1 :> "device" @@ u2 :> "device"
TypesOfNts  == u1 :> "device" @@ u2 :> "other"
Filters     == 1 :> {u1, u2} @@ 2 :> {u2} @@ 3 :> {u1}
=============================================================================
