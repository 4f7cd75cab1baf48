----------------------------- MODULE JobLedger -----------------------------
(***************************************************************************)
(* What a TinyWorker promises to those who give it jobs, with no queue, no *)
(* semaphore and no thread in it: a job that was submitted is settled at   *)
(* most once, in one of five ways; one job at a time is in the worker's    *)
(* hands; a job is taken only while the worker serves; and when the worker *)
(* closes, nothing is left in its hands.                                   *)
(*                                                                         *)
(* Module TinyWorker, translated from Tiny/Worker, is shown to implement   *)
(* this specification.                                                     *)
(***************************************************************************)
CONSTANT Jobs

VARIABLES
  fate,       \* fate[j]: where job j is in its life
  serving     \* TRUE from Start until Stop has returned

vars == <<fate, serving>>

Settlement == {"executed", "deleted", "leaked", "polled", "spilled"}
Fate       == {"absent", "queued", "held"} \cup Settlement

Init ==
  /\ fate = [j \in Jobs |-> "absent"]
  /\ serving = FALSE

HandsEmpty == \A j \in Jobs : fate[j] # "held"

Move(j, from, to) ==
  /\ fate[j] = from
  /\ fate' = [fate EXCEPT ![j] = to]

Submit(j) == Move(j, "absent", "queued") /\ UNCHANGED serving

Open == ~serving /\ serving' = TRUE /\ UNCHANGED fate

Take(j) == serving /\ HandsEmpty /\ Move(j, "queued", "held") /\ UNCHANGED serving

Settle(j) ==
  /\ serving
  /\ \E how \in {"executed", "deleted", "leaked"} : Move(j, "held", how)
  /\ UNCHANGED serving

\* TinyWorker_GetJob gives a waiting job back to the caller.
Withdraw(j) == Move(j, "queued", "polled") /\ UNCHANGED serving

\* TinyWorker_Dispose deletes what still waits, after the service has closed.
Discard(j) == ~serving /\ Move(j, "queued", "deleted") /\ UNCHANGED serving

\* What waits when the worker is destroyed is lost with it, all at once.
Spill ==
  /\ ~serving
  /\ fate' = [j \in Jobs |-> IF fate[j] = "queued" THEN "spilled" ELSE fate[j]]
  /\ UNCHANGED serving

Close == serving /\ HandsEmpty /\ serving' = FALSE /\ UNCHANGED fate

Next ==
  \/ Open
  \/ Close
  \/ Spill
  \/ \E j \in Jobs : Submit(j) \/ Take(j) \/ Settle(j) \/ Withdraw(j) \/ Discard(j)

Spec == Init /\ [][Next]_vars
=============================================================================
