--------------------------- MODULE MCUpnpProvider ---------------------------
(***************************************************************************)
(* UpnpProvider on small sets; devices, threads and the observer objects   *)
(* of the registry are interchangeable.                                    *)
(***************************************************************************)
EXTENDS UpnpProvider, TLC

Interchangeable ==
  Permutations(Devices) \cup Permutations(Threads) \cup Permutations(Registries)
=============================================================================
