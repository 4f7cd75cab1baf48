---------------------------- MODULE MCTinyWorker ----------------------------
(***************************************************************************)
(* TinyWorker on small sets of jobs and producers.                         *)
(***************************************************************************)
EXTENDS TinyWorker

\* DoNotify, the listener of the GENA server, always returns TRUE.
NeverRefuses == {TRUE}
MayRefuse    == {TRUE, FALSE}
=============================================================================
