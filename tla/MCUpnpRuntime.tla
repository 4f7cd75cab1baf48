---------------------------- MODULE MCUpnpRuntime ----------------------------
(***************************************************************************)
(* UpnpRuntime with two requests: an action and a document.                *)
(***************************************************************************)
EXTENDS UpnpRuntime, TLC

CONSTANTS c1, c2

ActionAndDocument == c1 :> "POST" @@ c2 :> "GET"
=============================================================================
