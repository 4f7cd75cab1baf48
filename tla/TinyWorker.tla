----------------------------- MODULE TinyWorker -----------------------------
(***************************************************************************)
(* Tiny/Worker: a worker thread fed by a blocking queue.                   *)
(*                                                                         *)
(* TinyBlockingQueue is a list behind a mutex and a counting semaphore     *)
(* that is posted AFTER the mutex is released; TinyWorker_Stop wakes the   *)
(* thread with one more post that stands for no job.  is_running, listener *)
(* and listener_ctx are plain fields that the owner writes and the worker  *)
(* reads with no lock.  Every step below is what happens between two       *)
(* points where another thread can be observed.                            *)
(*                                                                         *)
(* Threads: the owner (Start, Stop, Dispose), any number of producers      *)
(* (PutJob), callers of GetJob, and the worker thread itself.              *)
(***************************************************************************)
EXTENDS Naturals, Sequences, FiniteSets

CONSTANTS
  Jobs,        \* the jobs that may be put, each one once
  Producers,   \* the threads that call TinyWorker_PutJob
  NoJob,       \* the worker has no job in its hands
  Verdicts,    \* what the listener may return: TRUE goes on, FALSE ends the loop
  MaxStarts,   \* bound: how often the owner calls TinyWorker_Start
  MaxPolls     \* bound: how often TinyWorker_GetJob is called

ASSUME ProducersFinite == IsFiniteSet(Producers)
ASSUME NoJobIsNoJob    == NoJob \notin Jobs
ASSUME VerdictsBoolean == Verdicts \subseteq BOOLEAN
ASSUME BoundsNat       == MaxStarts \in Nat /\ MaxPolls \in Nat

VARIABLES
  queue,        \* job_queue.queue
  sem,          \* job_queue.sem
  put,          \* put[p]: where producer p is in TinyBlockingQueue_Put
  isRunning,    \* is_running
  listener,     \* listener # NULL
  listenerCtx,  \* listener_ctx # NULL
  status,       \* thread.status
  owner,        \* where the owner is in Start, Stop or Dispose
  disposing,    \* the owner is inside TinyWorker_Dispose
  worker,       \* where the worker thread is in worker_loop
  current,      \* the local variable job of worker_loop
  (* history, never read by the code's own steps *)
  fate,         \* fate[j]: what became of job j
  starts,       \* successful calls of TinyWorker_Start
  stopPosts,    \* posts made by TinyBlockingQueue_Stop
  polls,        \* jobs that GetJob or Dispose took, or lost, without a token
  nullTakes,    \* times Take returned NULL
  refused,      \* the listener has returned FALSE
  late,         \* jobs whose PutJob was called when Dispose had been called
  overlap       \* Dispose was called while a producer was about to post

queueVars  == <<queue, sem>>
fieldVars  == <<isRunning, listener, listenerCtx, status>>
ownerVars  == <<owner, disposing, starts, stopPosts>>
workerVars == <<worker, current, nullTakes, refused>>
lateVars   == <<late, overlap>>
vars == <<queueVars, put, fieldVars, ownerVars, workerVars, fate, polls, lateVars>>

Ledger == INSTANCE JobLedger WITH serving <- (status = "running")

Init ==
  /\ queue = <<>> /\ sem = 0
  /\ put = [p \in Producers |-> "idle"]
  /\ isRunning = FALSE /\ listener = FALSE /\ listenerCtx = FALSE /\ status = "init"
  /\ owner = "idle" /\ disposing = FALSE /\ starts = 0 /\ stopPosts = 0
  /\ worker = "none" /\ current = NoJob /\ nullTakes = 0 /\ refused = FALSE
  /\ fate = [j \in Jobs |-> "absent"]
  /\ polls = 0 /\ late = {} /\ overlap = FALSE

Settle(j, how) == fate' = [fate EXCEPT ![j] = how]

-----------------------------------------------------------------------------
(* TinyWorker_PutJob -> TinyBlockingQueue_Put.  It looks neither at        *)
(* is_running nor at whether the worker is being disposed of, and nobody   *)
(* keeps producers away from Dispose: UpnpGenaServer_Dispose has left the   *)
(* mutex that OnSubscribe holds, and OnServiceChanged holds none.          *)

IsLate(j) == late' = IF disposing THEN late \cup {j} ELSE late

PutPush(p, j) ==
  /\ put[p] = "idle" /\ owner # "destroyed" /\ fate[j] = "absent"
  /\ queue' = Append(queue, j)
  /\ put' = [put EXCEPT ![p] = "post"]
  /\ Settle(j, "queued")
  /\ IsLate(j)
  /\ UNCHANGED <<sem, fieldVars, ownerVars, workerVars, polls, overlap>>

\* The mutex is locked after it was destroyed.
PutDestroyed(p, j) ==
  /\ put[p] = "idle" /\ owner = "destroyed" /\ fate[j] = "absent"
  /\ put' = [put EXCEPT ![p] = "fault"]
  /\ IsLate(j)
  /\ UNCHANGED <<queueVars, fieldVars, ownerVars, workerVars, fate, polls, overlap>>

\* Mutant: the post after the unlock is missing.
PutPost_NoToken(p) ==
  /\ put[p] = "post"
  /\ put' = [put EXCEPT ![p] = "idle"]
  /\ UNCHANGED <<queueVars, fieldVars, ownerVars, workerVars, fate, polls, lateVars>>

\* Mutant: one job is announced twice.
PutPost_Twice(p) ==
  /\ put[p] = "post"
  /\ sem' = sem + 2
  /\ put' = [put EXCEPT ![p] = "idle"]
  /\ UNCHANGED <<queue, fieldVars, ownerVars, workerVars, fate, polls, lateVars>>

\* A post to the destroyed semaphore is undefined: nothing is said beyond it.
PutPost(p) ==
  /\ put[p] = "post"
  /\ sem' = sem + 1
  /\ put' = [put EXCEPT ![p] = IF owner = "destroyed" THEN "fault" ELSE "idle"]
  /\ UNCHANGED <<queue, fieldVars, ownerVars, workerVars, fate, polls, lateVars>>

\* TinyWorker_GetJob -> TinyBlockingQueue_Poll: pops without taking a token.
GetJob ==
  /\ owner # "destroyed" /\ polls < MaxPolls /\ queue # <<>>
  /\ queue' = Tail(queue)
  /\ Settle(Head(queue), "polled")
  /\ polls' = polls + 1
  /\ UNCHANGED <<sem, put, fieldVars, ownerVars, workerVars, lateVars>>

-----------------------------------------------------------------------------
(* The owner.  TinyWorker_Start runs while no worker thread exists, so     *)
(* nobody can observe its assignments one by one.                          *)

\* Mutant: the listener is not stored.
Start_NoListener ==
  /\ owner = "idle" /\ ~disposing /\ ~isRunning /\ starts < MaxStarts
  /\ isRunning' = TRUE /\ listenerCtx' = TRUE
  /\ status' = "running"
  /\ worker' = "wait"
  /\ starts' = starts + 1
  /\ UNCHANGED <<queueVars, put, listener, owner, disposing, stopPosts,
                 current, nullTakes, refused, fate, polls, lateVars>>

Start ==
  /\ owner = "idle" /\ ~disposing /\ ~isRunning /\ starts < MaxStarts
  /\ isRunning' = TRUE /\ listener' = TRUE /\ listenerCtx' = TRUE
  /\ status' = "running"
  /\ worker' = "wait"
  /\ starts' = starts + 1
  /\ UNCHANGED <<queueVars, put, owner, disposing, stopPosts,
                 current, nullTakes, refused, fate, polls, lateVars>>

StopBegin ==
  /\ owner = "idle" /\ ~disposing /\ isRunning
  /\ isRunning' = FALSE
  /\ owner' = "clearListener"
  /\ UNCHANGED <<queueVars, put, listener, listenerCtx, status, disposing,
                 starts, stopPosts, workerVars, fate, polls, lateVars>>

\* Dispose stops a running worker first, whatever the producers are doing.
DisposeBegin ==
  /\ owner = "idle" /\ ~disposing
  /\ disposing' = TRUE
  /\ overlap' = (\E p \in Producers : put[p] = "post")
  /\ isRunning' = FALSE
  /\ owner' = IF isRunning THEN "clearListener" ELSE "drain"
  /\ UNCHANGED <<queueVars, put, listener, listenerCtx, status,
                 starts, stopPosts, workerVars, fate, polls, late>>

StopClearListener ==
  /\ owner = "clearListener"
  /\ listener' = FALSE
  /\ owner' = "clearCtx"
  /\ UNCHANGED <<queueVars, put, isRunning, listenerCtx, status, disposing,
                 starts, stopPosts, workerVars, fate, polls, lateVars>>

StopClearCtx ==
  /\ owner = "clearCtx"
  /\ listenerCtx' = FALSE
  /\ owner' = "post"
  /\ UNCHANGED <<queueVars, put, isRunning, listener, status, disposing,
                 starts, stopPosts, workerVars, fate, polls, lateVars>>

StopPost ==
  /\ owner = "post"
  /\ sem' = sem + 1
  /\ stopPosts' = stopPosts + 1
  /\ owner' = "join"
  /\ UNCHANGED <<queue, put, fieldVars, disposing, starts, workerVars, fate, polls, lateVars>>

\* Mutant: Stop does not wait for the thread.
StopJoin_NoWait ==
  /\ owner = "join"
  /\ status' = "stop"
  /\ owner' = IF disposing THEN "drain" ELSE "idle"
  /\ UNCHANGED <<queueVars, put, isRunning, listener, listenerCtx, disposing,
                 starts, stopPosts, workerVars, fate, polls, lateVars>>

StopJoin ==
  /\ owner = "join"
  /\ status = "running" => worker = "exited"
  /\ status' = "stop"
  /\ owner' = IF disposing THEN "drain" ELSE "idle"
  /\ UNCHANGED <<queueVars, put, isRunning, listener, listenerCtx, disposing,
                 starts, stopPosts, workerVars, fate, polls, lateVars>>

\* Mutant: the drain looks at the head and does not remove it.
DisposeDrain_NotPopped ==
  /\ owner = "drain" /\ queue # <<>>
  /\ Settle(Head(queue), "deleted")
  /\ UNCHANGED <<queueVars, put, fieldVars, ownerVars, workerVars, polls, lateVars>>

DisposeDrain ==
  /\ owner = "drain" /\ queue # <<>>
  /\ queue' = Tail(queue)
  /\ Settle(Head(queue), "deleted")
  /\ polls' = polls + 1
  /\ UNCHANGED <<sem, put, fieldVars, ownerVars, workerVars, lateVars>>

\* Mutant: the queue is destroyed with the jobs in it.
DisposeEmpty_NoDrain ==
  /\ owner = "drain"
  /\ owner' = "destroy"
  /\ UNCHANGED <<queueVars, put, fieldVars, disposing, starts, stopPosts,
                 workerVars, fate, polls, lateVars>>

\* Poll has returned NULL.
DisposeEmpty ==
  /\ owner = "drain" /\ queue = <<>>
  /\ owner' = "destroy"
  /\ UNCHANGED <<queueVars, put, fieldVars, disposing, starts, stopPosts,
                 workerVars, fate, polls, lateVars>>

Waiting == {queue[i] : i \in 1..Len(queue)}

\* TinyBlockingQueue_Dispose frees the nodes of the queue; nobody frees a job
\* that was put since Poll has returned NULL.
DisposeEnd ==
  /\ owner = "destroy"
  /\ owner' = "destroyed"
  /\ queue' = <<>>
  /\ fate' = [j \in Jobs |-> IF j \in Waiting THEN "spilled" ELSE fate[j]]
  /\ polls' = polls + Len(queue)
  /\ UNCHANGED <<sem, put, fieldVars, disposing, starts, stopPosts, workerVars, lateVars>>

-----------------------------------------------------------------------------
(* worker_loop                                                             *)

TakeWait ==
  /\ worker = "wait" /\ sem > 0
  /\ sem' = sem - 1
  /\ worker' = "take"
  /\ UNCHANGED <<queue, put, fieldVars, ownerVars, current, nullTakes, refused, fate, polls, lateVars>>

\* A token with no job behind it: Take returns NULL and the loop ends.
TakeNull ==
  /\ worker = "take" /\ queue = <<>>
  /\ worker' = "exited"
  /\ nullTakes' = nullTakes + 1
  /\ UNCHANGED <<queueVars, put, fieldVars, ownerVars, current, refused, fate, polls, lateVars>>

TakeJob ==
  /\ worker = "take" /\ queue # <<>>
  /\ queue' = Tail(queue)
  /\ current' = Head(queue)
  /\ Settle(Head(queue), "held")
  /\ worker' = "checkRunning"
  /\ UNCHANGED <<sem, put, fieldVars, ownerVars, nullTakes, refused, polls, lateVars>>

\* "worker is stopped": the job goes to job_delete_listener.
DropStopped ==
  /\ worker = "checkRunning" /\ ~isRunning
  /\ Settle(current, "deleted")
  /\ current' = NoJob
  /\ worker' = "exited"
  /\ UNCHANGED <<queueVars, put, fieldVars, ownerVars, nullTakes, refused, polls, lateVars>>

SeeRunning ==
  /\ worker = "checkRunning" /\ isRunning
  /\ worker' = "checkListener"
  /\ UNCHANGED <<queueVars, put, fieldVars, ownerVars, current, nullTakes, refused, fate, polls, lateVars>>

\* "worker listener is NULL": the loop ends and nobody frees the job.
LeakJob ==
  /\ worker = "checkListener" /\ ~listener
  /\ Settle(current, "leaked")
  /\ current' = NoJob
  /\ worker' = "exited"
  /\ UNCHANGED <<queueVars, put, fieldVars, ownerVars, nullTakes, refused, polls, lateVars>>

SeeListener ==
  /\ worker = "checkListener" /\ listener
  /\ worker' = "call"
  /\ UNCHANGED <<queueVars, put, fieldVars, ownerVars, current, nullTakes, refused, fate, polls, lateVars>>

\* The call loads listener_ctx, and loads listener again or reuses the value
\* tested before: both are what a build may do with an unsynchronised field.
CallListener ==
  /\ worker = "call"
  /\ \E reload \in BOOLEAN :
       worker' = CASE reload /\ ~listener -> "fault"
                   [] ~(reload /\ ~listener) /\ listenerCtx -> "exec"
                   [] OTHER -> "execNoCtx"
  /\ UNCHANGED <<queueVars, put, fieldVars, ownerVars, current, nullTakes, refused, fate, polls, lateVars>>

\* DoNotify, the listener of this code, reads a field of its context for an
\* event with arguments, and does not touch it for an event without any.
UseNullCtx ==
  /\ worker = "execNoCtx"
  /\ worker' = "fault"
  /\ UNCHANGED <<queueVars, put, fieldVars, ownerVars, current, nullTakes, refused, fate, polls, lateVars>>

ListenerReturns ==
  /\ worker \in {"exec", "execNoCtx"}
  /\ \E goOn \in Verdicts :
       /\ worker' = IF goOn THEN "wait" ELSE "exited"
       /\ refused' = (refused \/ ~goOn)
  /\ Settle(current, "executed")
  /\ current' = NoJob
  /\ UNCHANGED <<queueVars, put, fieldVars, ownerVars, nullTakes, polls, lateVars>>

-----------------------------------------------------------------------------
OwnerStep ==
  \/ StopClearListener \/ StopClearCtx \/ StopPost \/ StopJoin
  \/ DisposeDrain \/ DisposeEmpty \/ DisposeEnd

WorkerStep ==
  \/ TakeWait \/ TakeNull \/ TakeJob
  \/ DropStopped \/ SeeRunning \/ LeakJob \/ SeeListener
  \/ CallListener \/ UseNullCtx \/ ListenerReturns

ProcessAlive == worker # "fault" /\ \A p \in Producers : put[p] # "fault"

Next ==
  /\ ProcessAlive
  /\ \/ \E p \in Producers :
          (\E j \in Jobs : PutPush(p, j) \/ PutDestroyed(p, j)) \/ PutPost(p)
     \/ GetJob
     \/ Start \/ StopBegin \/ DisposeBegin
     \/ OwnerStep
     \/ WorkerStep

Spec == Init /\ [][Next]_vars

(* A thread that can run does run: the scheduler serves the worker thread, *)
(* a producer between its push and its post, and an owner inside Stop or   *)
(* Dispose.  Nobody is obliged to call PutJob, GetJob, Start, Stop or      *)
(* Dispose, and a listener that is called is assumed to return.            *)
Fairness ==
  /\ WF_vars(ProcessAlive /\ WorkerStep)
  /\ WF_vars(ProcessAlive /\ OwnerStep)
  /\ \A p \in Producers : WF_vars(ProcessAlive /\ PutPost(p))

FairSpec == Spec /\ Fairness
-----------------------------------------------------------------------------
(* Properties                                                              *)

\* The range of every variable.
TypeOK ==
  /\ queue \in Seq(Jobs) /\ sem \in Nat
  /\ put \in [Producers -> {"idle", "post", "fault"}]
  /\ isRunning \in BOOLEAN /\ listener \in BOOLEAN /\ listenerCtx \in BOOLEAN
  /\ status \in {"init", "running", "stop"}
  /\ owner \in {"idle", "clearListener", "clearCtx", "post", "join",
                "drain", "destroy", "destroyed"}
  /\ disposing \in BOOLEAN /\ refused \in BOOLEAN
  /\ worker \in {"none", "wait", "take", "checkRunning", "checkListener", "call",
                 "exec", "execNoCtx", "exited", "fault"}
  /\ current \in Jobs \cup {NoJob}
  /\ fate \in [Jobs -> Ledger!Fate]
  /\ starts \in Nat /\ stopPosts \in Nat /\ polls \in Nat /\ nullTakes \in Nat
  /\ late \subseteq Jobs /\ overlap \in BOOLEAN

Posting == {p \in Producers : put[p] = "post"}
Taking  == IF worker = "take" THEN 1 ELSE 0

\* Every token of the semaphore is accounted for: each stands for one waiting
\* job, except those posted by Stop and those whose job was taken by Poll.
Accounting ==
  sem + Taking + Cardinality(Posting) + nullTakes = Len(queue) + stopPosts + polls

\* No lost wake-up: for each waiting job there is a token, a producer about to
\* post one, or a worker that has just taken one and is about to pop a job.
NoStrandedJob == Len(queue) <= sem + Taking + Cardinality(Posting)

\* A job is in one place: waiting once in the queue, or in the worker's hands,
\* or settled; so no job is executed, deleted or handed out twice.
Custody ==
  /\ \A i, k \in 1..Len(queue) : queue[i] = queue[k] => i = k
  /\ \A i \in 1..Len(queue) : fate[queue[i]] = "queued"
  /\ \A j \in Jobs : fate[j] = "queued" => \E i \in 1..Len(queue) : queue[i] = j
  /\ \A j \in Jobs : fate[j] = "held" <=> current = j

\* Once Stop has returned (and all through the rest of Dispose) no thread runs
\* the listener or holds a job: the owner may free what the listener uses.
StoppedMeansQuiet ==
  owner \in {"idle", "drain", "destroy", "destroyed"} /\ ~isRunning
    => worker \in {"none", "exited"} /\ current = NoJob

\* A worker that IsStarted still has its thread, unless the listener ended the
\* loop or a token without a job did: one left by an earlier Stop, or by GetJob.
AliveUntilSurplusToken ==
  isRunning /\ worker = "exited" => refused \/ stopPosts + polls > 0

\* Dispose settles every job whose PutJob was called before it: such a job is
\* never lost with the queue.  A job may be lost, or a PutJob use the destroyed
\* queue, only if that PutJob was under way when Dispose began, or began later.
DisposeSettlesAll ==
  /\ \A j \in Jobs : fate[j] = "spilled" => j \in late
  /\ owner = "destroyed" =>
       /\ \A j \in Jobs : fate[j] \notin {"queued", "held"}
       /\ late = {} /\ ~overlap => \A p \in Producers : put[p] = "idle"

\* The worker loses the job in its hands only in the window of a Stop in
\* progress, never while it serves or after Stop has returned.
LeakOnlyInStop ==
  [][\A j \in Jobs : fate[j] # "leaked" /\ fate'[j] = "leaked"
       => owner \in {"clearCtx", "post", "join"}]_vars

\* The promise of JobLedger, kept by the queue, the semaphore and the thread.
LedgerSpec == Ledger!Spec

\* Dispose returns, however many jobs still wait.
DisposeReturns == disposing ~> owner = "destroyed" \/ ~ProcessAlive

\* A job that waits is executed, unless the owner stops the worker, the listener
\* has ended the loop, or a token that GetJob or an earlier Stop has left may.
JobServed ==
  \A j \in Jobs :
    fate[j] = "queued" /\ isRunning
      ~> fate[j] = "executed" \/ ~isRunning \/ refused \/ stopPosts + polls > 0

-----------------------------------------------------------------------------
(* What makes the properties above inductive: how the phases of the owner  *)
(* and of the worker thread constrain each other.                          *)

InStop == owner \in {"clearListener", "clearCtx", "post", "join"}

Hands ==
  /\ worker \in {"checkRunning", "checkListener", "call", "exec", "execNoCtx"}
       => current # NoJob
  /\ worker \in {"none", "wait", "take", "exited"} => current = NoJob

Phases ==
  /\ status = "running" <=> isRunning \/ InStop
  /\ status # "running" => worker \in {"none", "exited"}
  /\ isRunning => owner = "idle" /\ listener /\ ~disposing
  /\ owner = "clearListener" => listener
  /\ owner \in {"drain", "destroy", "destroyed"} => disposing
  /\ owner = "destroyed" => queue = <<>>

\* Tokens without a job exist only because of Stop and Poll.
TokenBound ==
  /\ nullTakes <= stopPosts + polls
  /\ isRunning /\ worker = "exited" => refused \/ nullTakes > 0

\* Who is late: what is put after the last Poll, and who meets Dispose.
Lateness ==
  /\ owner = "destroy" => Waiting \subseteq late
  /\ \A j \in Jobs : fate[j] = "spilled" => j \in late
  /\ disposing /\ late = {} /\ ~overlap => \A p \in Producers : put[p] = "idle"
  /\ ~disposing => \A p \in Producers : put[p] # "fault"

IInv == TypeOK /\ Accounting /\ Custody /\ Hands /\ Phases /\ TokenBound /\ Lateness
=============================================================================
