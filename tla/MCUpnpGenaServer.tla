-------------------------- MODULE MCUpnpGenaServer --------------------------
(***************************************************************************)
(* UpnpGenaServer on small sets; clients and threads are interchangeable.  *)
(***************************************************************************)
EXTENDS UpnpGenaServer, TLC

Interchangeable == Permutations(Clients) \cup Permutations(Threads)
=============================================================================
