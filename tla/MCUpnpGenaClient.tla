-------------------------- MODULE MCUpnpGenaClient ---------------------------
(***************************************************************************)
(* UpnpGenaClient with two exchanges of the control point and one of the   *)
(* notify worker.                                                          *)
(***************************************************************************)
EXTENDS UpnpGenaClient, TLC

CONSTANTS s1, f1, f2

Requests == App :> 2 @@ Worker :> 1

\* The control point alone, with one exchange more.
RequestsAlone == App :> 3 @@ Worker :> 0
=============================================================================
