-------------------------- MODULE TinyWorkerProofs --------------------------
(***************************************************************************)
(* Theorems about TinyWorker for every set of jobs, every finite set of    *)
(* producers and every bound: its types, the accounting of the semaphore,  *)
(* the custody of the jobs, the quiet after Stop, and that it implements   *)
(* JobLedger.                                                              *)
(***************************************************************************)
EXTENDS TinyWorker, FiniteSetTheorems, TLAPS

USE DEF queueVars, fieldVars, ownerVars, workerVars, lateVars

(* The types hold initially.                                              *)
LEMMA InitType == Init => TypeOK
<1> SUFFICES ASSUME Init PROVE TypeOK
  OBVIOUS
<1>1. queue \in Seq(Jobs) /\ put \in [Producers -> {"idle", "post", "fault"}]
  BY DEF Init
<1>2. fate \in [Jobs -> Ledger!Fate]
  BY DEF Init, Ledger!Fate
<1>3. QED
  BY <1>1, <1>2 DEF Init, TypeOK

(* Every variable keeps its range: the type invariant of the worker and    *)
(* its queue is inductive alone.                                           *)
THEOREM TypeCorrect == Spec => []TypeOK
<1>1. TypeOK /\ [Next]_vars => TypeOK'
  <2> SUFFICES ASSUME TypeOK, [Next]_vars PROVE TypeOK'
    OBVIOUS
  <2> USE DEF TypeOK, Settle, Ledger!Fate, Ledger!Settlement
  <2>1. ASSUME NEW p \in Producers, NEW j \in Jobs, PutPush(p, j) \/ PutDestroyed(p, j)
        PROVE  TypeOK'
    <3>1. late' \subseteq Jobs /\ UNCHANGED overlap
      BY <2>1 DEF PutPush, PutDestroyed, IsLate
    <3>2. CASE PutPush(p, j)
      BY <3>1, <3>2 DEF PutPush
    <3>3. CASE PutDestroyed(p, j)
      BY <3>1, <3>3 DEF PutDestroyed
    <3>4. QED
      BY <2>1, <3>2, <3>3
  <2>2. ASSUME NEW p \in Producers, PutPost(p) PROVE TypeOK'
    BY <2>2 DEF PutPost
  <2>3. CASE GetJob
    BY <2>3 DEF GetJob
  <2>4. CASE Start
    BY <2>4 DEF Start
  <2>5. CASE StopBegin
    <3>1. isRunning' \in BOOLEAN /\ owner' = "clearListener"
      BY <2>5 DEF StopBegin
    <3>2. UNCHANGED <<queueVars, put, listener, listenerCtx, status, disposing,
                      starts, stopPosts, workerVars, fate, polls, lateVars>>
      BY <2>5 DEF StopBegin
    <3>3. QED
      BY <3>1, <3>2
  <2>6. CASE DisposeBegin
    <3>1. /\ isRunning' \in BOOLEAN /\ disposing' \in BOOLEAN /\ overlap' \in BOOLEAN
          /\ owner' \in {"clearListener", "drain"}
      BY <2>6 DEF DisposeBegin
    <3>2. UNCHANGED <<queueVars, put, listener, listenerCtx, status,
                      starts, stopPosts, workerVars, fate, polls, late>>
      BY <2>6 DEF DisposeBegin
    <3>3. QED
      BY <3>1, <3>2
  <2>7. CASE OwnerStep
    <3>1. CASE StopClearListener
      <4>1. listener' \in BOOLEAN /\ owner' = "clearCtx"
        BY <3>1 DEF StopClearListener
      <4>2. UNCHANGED <<queueVars, put, isRunning, listenerCtx, status, disposing,
                        starts, stopPosts, workerVars, fate, polls, lateVars>>
        BY <3>1 DEF StopClearListener
      <4>3. QED
        BY <4>1, <4>2
    <3>2. CASE StopClearCtx
      <4>1. listenerCtx' \in BOOLEAN /\ owner' = "post"
        BY <3>2 DEF StopClearCtx
      <4>2. UNCHANGED <<queueVars, put, isRunning, listener, status, disposing,
                        starts, stopPosts, workerVars, fate, polls, lateVars>>
        BY <3>2 DEF StopClearCtx
      <4>3. QED
        BY <4>1, <4>2
    <3>3. CASE StopPost
      BY <3>3 DEF StopPost
    <3>4. CASE StopJoin
      BY <3>4 DEF StopJoin
    <3>5. CASE DisposeDrain
      BY <3>5 DEF DisposeDrain
    <3>6. CASE DisposeEmpty
      BY <3>6 DEF DisposeEmpty
    <3>8. CASE DisposeEnd
      <4>1. fate' \in [Jobs -> Ledger!Fate] /\ queue' \in Seq(Jobs) /\ polls' \in Nat
        BY <3>8 DEF DisposeEnd
      <4>2. QED
        BY <3>8, <4>1 DEF DisposeEnd
    <3>7. QED
      BY <2>7, <3>1, <3>2, <3>3, <3>4, <3>5, <3>6, <3>8 DEF OwnerStep
  <2>8. CASE WorkerStep
    <3>1. CASE TakeWait
      BY <3>1 DEF TakeWait
    <3>2. CASE TakeNull
      BY <3>2 DEF TakeNull
    <3>3. CASE TakeJob
      BY <3>3 DEF TakeJob
    <3>4. CASE DropStopped
      BY <3>4 DEF DropStopped
    <3>5. CASE SeeRunning \/ SeeListener
      BY <3>5 DEF SeeRunning, SeeListener
    <3>6. CASE LeakJob
      BY <3>6 DEF LeakJob
    <3>7. CASE CallListener \/ UseNullCtx
      BY <3>7 DEF CallListener, UseNullCtx
    <3>8. CASE ListenerReturns
      BY <3>8, VerdictsBoolean DEF ListenerReturns
    <3>9. QED
      BY <2>8, <3>1, <3>2, <3>3, <3>4, <3>5, <3>6, <3>7, <3>8 DEF WorkerStep
  <2>9. CASE UNCHANGED vars
    BY <2>9 DEF vars
  <2>10. QED
    BY <2>1, <2>2, <2>3, <2>4, <2>5, <2>6, <2>7, <2>8, <2>9 DEF Next
<1>2. QED
  BY <1>1, InitType, PTL DEF Spec

-----------------------------------------------------------------------------
(* The producers between their push and their post.                        *)
LEMMA PostingFinite ==
  /\ IsFiniteSet(Posting)
  /\ Cardinality(Posting) \in Nat
BY ProducersFinite, FS_Subset, FS_CardinalityType DEF Posting

(* A push adds one of them ...                                             *)
LEMMA PostingAdd ==
  ASSUME TypeOK, NEW p \in Producers, put[p] = "idle",
         put' = [put EXCEPT ![p] = "post"]
  PROVE  Cardinality(Posting') = Cardinality(Posting) + 1
<1>1. Posting' = Posting \cup {p} /\ p \notin Posting
  BY DEF Posting, TypeOK
<1>2. QED
  BY <1>1, PostingFinite, FS_AddElement

(* ... and a post removes it.                                              *)
LEMMA PostingRemove ==
  ASSUME TypeOK, NEW p \in Producers, put[p] = "post",
         NEW to \in {"idle", "fault"}, put' = [put EXCEPT ![p] = to]
  PROVE  Cardinality(Posting') = Cardinality(Posting) - 1
<1>1. Posting' = Posting \ {p} /\ p \in Posting
  BY DEF Posting, TypeOK
<1>2. QED
  BY <1>1, PostingFinite, FS_RemoveElement

(* Each push, post, take and poll keeps the books of the semaphore.        *)
LEMMA AccountingStep == IInv /\ TypeOK' /\ Next => Accounting'
<1> SUFFICES ASSUME IInv, TypeOK', Next PROVE Accounting'
  OBVIOUS
<1> USE PostingFinite DEF IInv, TypeOK, Accounting, Taking
<1>10. /\ sem \in Nat /\ Taking \in Nat /\ Cardinality(Posting) \in Nat /\ nullTakes \in Nat
       /\ Len(queue) \in Nat /\ stopPosts \in Nat /\ polls \in Nat
       /\ sem + Taking + Cardinality(Posting) + nullTakes = Len(queue) + stopPosts + polls
  OBVIOUS
<1>1. ASSUME NEW p \in Producers, NEW j \in Jobs, PutPush(p, j) PROVE Accounting'
  <2>1. Cardinality(Posting') = Cardinality(Posting) + 1
    BY <1>1, PostingAdd DEF PutPush
  <2>2. Len(queue') = Len(queue) + 1 /\ Taking' = Taking
        /\ UNCHANGED <<sem, nullTakes, stopPosts, polls>>
    BY <1>1 DEF PutPush
  <2> HIDE DEF IInv, TypeOK, Accounting, Taking
  <2>3. sem + Taking + (Cardinality(Posting) + 1) + nullTakes
          = (Len(queue) + 1) + stopPosts + polls
    BY <1>10
  <2>4. QED
    BY <2>1, <2>2, <2>3 DEF Accounting
<1>2. ASSUME NEW p \in Producers, PutPost(p) PROVE Accounting'
  <2>1. put[p] = "post" /\ \E to \in {"idle", "fault"} : put' = [put EXCEPT ![p] = to]
    BY <1>2 DEF PutPost
  <2>2. Cardinality(Posting') = Cardinality(Posting) - 1
    BY <2>1, PostingRemove
  <2>3. sem' = sem + 1 /\ Taking' = Taking /\ UNCHANGED <<queue, nullTakes, stopPosts, polls>>
    BY <1>2 DEF PutPost
  <2> HIDE DEF IInv, TypeOK, Accounting, Taking
  <2>4. QED
    BY <1>10, <2>2, <2>3 DEF Accounting
<1>3. put' = put => Cardinality(Posting') = Cardinality(Posting)
  BY DEF Posting
<1>9. ASSUME NEW p \in Producers, NEW j \in Jobs, PutDestroyed(p, j) PROVE Accounting'
  <2>1. Posting' = Posting
    BY <1>9 DEF Posting, PutDestroyed
  <2>2. QED
    BY <1>9, <2>1 DEF PutDestroyed
<1>4. CASE GetJob
  BY <1>3, <1>4 DEF GetJob
<1>5. CASE Start \/ StopBegin \/ DisposeBegin
  <2>1. (worker # "take" /\ worker' # "take") \/ worker' = worker
    BY <1>5 DEF Start, StopBegin, DisposeBegin, Phases, InStop
  <2>2. QED
    BY <1>3, <1>5, <2>1 DEF Start, StopBegin, DisposeBegin
<1>6. CASE OwnerStep
  <2>1. CASE StopClearListener \/ StopClearCtx \/ StopJoin \/ DisposeEmpty
    BY <1>3, <2>1 DEF StopClearListener, StopClearCtx, StopJoin, DisposeEmpty
  <2>2. CASE StopPost
    <3>1. sem' = sem + 1 /\ stopPosts' = stopPosts + 1 /\ UNCHANGED <<put, queue, worker, polls, nullTakes>>
      BY <2>2 DEF StopPost, workerVars
    <3>2. Cardinality(Posting') = Cardinality(Posting) /\ Cardinality(Posting) \in Nat
      BY <1>3, <3>1, PostingFinite
    <3>3. Taking' = Taking /\ Taking \in Nat /\ Len(queue) \in Nat /\ Len(queue') = Len(queue)
      BY <3>1
    <3>4. sem \in Nat /\ nullTakes \in Nat /\ stopPosts \in Nat /\ polls \in Nat
      OBVIOUS
    <3>5. sem + Taking + Cardinality(Posting) + nullTakes = Len(queue) + stopPosts + polls
      OBVIOUS
    <3> HIDE DEF IInv, TypeOK, Accounting, Taking
    <3>6. (sem + 1) + Taking + Cardinality(Posting) + nullTakes = Len(queue) + (stopPosts + 1) + polls
      BY <3>2, <3>3, <3>4, <3>5
    <3> QED BY <3>1, <3>2, <3>3, <3>6 DEF Accounting
  <2>3. CASE DisposeDrain
    BY <1>3, <2>3 DEF DisposeDrain
  <2>5. CASE DisposeEnd
    <3>1. polls' = polls + Len(queue) /\ Len(queue') = 0 /\ Len(queue) \in Nat
      BY <2>5 DEF DisposeEnd
    <3>2. QED
      BY <1>3, <2>5, <3>1 DEF DisposeEnd
  <2>4. QED
    BY <1>6, <2>1, <2>2, <2>3, <2>5 DEF OwnerStep
<1>7. CASE WorkerStep
  <2>1. CASE TakeWait
    BY <1>3, <2>1 DEF TakeWait
  <2>2. CASE TakeNull
    BY <1>3, <2>2 DEF TakeNull
  <2>3. CASE TakeJob
    <3>1. Len(queue') = Len(queue) - 1
      BY <2>3 DEF TakeJob
    <3>2. /\ worker = "take" /\ worker' = "checkRunning"
          /\ UNCHANGED <<sem, put, nullTakes, stopPosts, polls>>
      BY <2>3 DEF TakeJob
    <3>3. QED
      BY <1>3, <3>1, <3>2
  <2>4. CASE DropStopped \/ SeeRunning \/ LeakJob \/ SeeListener
    BY <1>3, <2>4 DEF DropStopped, SeeRunning, LeakJob, SeeListener
  <2>5. CASE CallListener \/ UseNullCtx \/ ListenerReturns
    BY <1>3, <2>5 DEF CallListener, UseNullCtx, ListenerReturns
  <2>6. QED
    BY <1>7, <2>1, <2>2, <2>3, <2>4, <2>5 DEF WorkerStep
<1>8. QED
  BY <1>1, <1>2, <1>4, <1>5, <1>6, <1>7, <1>9 DEF Next

(* Popping the head moves exactly that job out of the queue.               *)
LEMMA CustodyPop ==
  ASSUME TypeOK, TypeOK', Custody, queue # <<>>, queue' = Tail(queue),
         NEW how \in {"held", "deleted", "polled"}, Settle(Head(queue), how),
         current' = IF how = "held" THEN Head(queue) ELSE current,
         how = "held" => current = NoJob
  PROVE  Custody'
<1> USE DEF TypeOK, Custody, Settle
<1>1. Len(queue') = Len(queue) - 1 /\ \A i \in 1..Len(queue') : queue'[i] = queue[i + 1]
  OBVIOUS
<1>2. Head(queue) = queue[1] /\ 1 \in 1..Len(queue) /\ Head(queue) \in Jobs
  OBVIOUS
<1>3. \A i \in 1..Len(queue') : queue'[i] # Head(queue) /\ queue'[i] \in Jobs
  BY <1>1, <1>2
<1>4. \A i, k \in 1..Len(queue') : queue'[i] = queue'[k] => i = k
  BY <1>1
<1>5. \A i \in 1..Len(queue') : fate'[queue'[i]] = "queued"
  BY <1>1, <1>2, <1>3
<1>6. ASSUME NEW j \in Jobs, fate'[j] = "queued"
      PROVE  \E i \in 1..Len(queue') : queue'[i] = j
  <2>1. fate[j] = "queued" /\ j # Head(queue)
    BY <1>2, <1>6
  <2>2. PICK i \in 1..Len(queue) : queue[i] = j
    BY <2>1
  <2>3. i - 1 \in 1..Len(queue') /\ queue'[i - 1] = j
    BY <1>1, <1>2, <2>1, <2>2
  <2>4. QED
    BY <2>3
<1>7. \A j \in Jobs : fate'[j] = "held" <=> current' = j
  BY <1>2, NoJobIsNoJob
<1>8. QED
  BY <1>4, <1>5, <1>6, <1>7

(* Every step keeps each job in one place.                                 *)
LEMMA CustodyStep == IInv /\ TypeOK' /\ Next => Custody'
<1> SUFFICES ASSUME IInv, TypeOK', Next PROVE Custody'
  OBVIOUS
<1> USE DEF IInv
<1>1. ASSUME NEW p \in Producers, NEW j \in Jobs, PutPush(p, j) PROVE Custody'
  <2> USE <1>1 DEF TypeOK, Custody, PutPush, Settle
  <2>1. /\ Len(queue') = Len(queue) + 1 /\ queue'[Len(queue) + 1] = j
        /\ \A i \in 1..Len(queue) : queue'[i] = queue[i]
    OBVIOUS
  <2>2. \A i \in 1..Len(queue) : queue[i] # j
    OBVIOUS
  <2>3. \A i, k \in 1..Len(queue') : queue'[i] = queue'[k] => i = k
    BY <2>1, <2>2
  <2>4. \A i \in 1..Len(queue') : fate'[queue'[i]] = "queued"
    BY <2>1, <2>2
  <2>5. ASSUME NEW m \in Jobs, fate'[m] = "queued"
        PROVE  \E i \in 1..Len(queue') : queue'[i] = m
    <3>1. CASE m = j
      BY <2>1, <3>1
    <3>2. CASE m # j
      <4>1. PICK i \in 1..Len(queue) : queue[i] = m
        BY <2>5, <3>2
      <4>2. QED
        BY <2>1, <4>1
    <3>3. QED
      BY <3>1, <3>2
  <2>6. \A m \in Jobs : fate'[m] = "held" <=> current' = m
    OBVIOUS
  <2>7. QED
    BY <2>3, <2>4, <2>5, <2>6
<1>2. UNCHANGED <<queue, fate, current>> => Custody'
  BY DEF Custody
<1>3. ASSUME NEW p \in Producers, NEW j \in Jobs, PutPost(p) \/ PutDestroyed(p, j)
      PROVE  Custody'
  BY <1>2, <1>3 DEF PutPost, PutDestroyed
<1>11. ASSUME NEW p \in Producers, PutPost(p) PROVE Custody'
  BY <1>2, <1>11 DEF PutPost
<1>4. CASE GetJob \/ DisposeDrain
  BY <1>4, CustodyPop DEF GetJob, DisposeDrain
<1>5. CASE Start \/ StopBegin \/ DisposeBegin
  BY <1>2, <1>5 DEF Start, StopBegin, DisposeBegin
<1>6. CASE StopClearListener \/ StopClearCtx \/ StopPost \/ StopJoin \/ DisposeEmpty
  BY <1>2, <1>6 DEF StopClearListener, StopClearCtx, StopPost, StopJoin, DisposeEmpty
<1>12. CASE DisposeEnd
  BY <1>12 DEF DisposeEnd, Custody, TypeOK, Waiting
<1>7. CASE TakeWait \/ TakeNull \/ SeeRunning \/ SeeListener \/ CallListener \/ UseNullCtx
  BY <1>2, <1>7 DEF TakeWait, TakeNull, SeeRunning, SeeListener, CallListener, UseNullCtx
<1>8. CASE TakeJob
  <2>1. current = NoJob
    BY <1>8 DEF TakeJob, Hands
  <2>2. QED
    BY <1>8, <2>1, CustodyPop DEF TakeJob
<1>9. CASE DropStopped \/ LeakJob \/ ListenerReturns
  <2>1. /\ current \in Jobs /\ fate[current] = "held"
        /\ queue' = queue /\ current' = NoJob
        /\ \E how \in {"deleted", "leaked", "executed"} : Settle(current, how)
    BY <1>9 DEF DropStopped, LeakJob, ListenerReturns, Hands, TypeOK, Custody
  <2>2. PICK how \in {"deleted", "leaked", "executed"} : Settle(current, how)
    BY <2>1
  <2>3. QED
    BY <2>1, <2>2, NoJobIsNoJob DEF Settle, Custody, TypeOK
<1>10. QED
  BY <1>1, <1>3, <1>4, <1>5, <1>6, <1>7, <1>8, <1>9, <1>11, <1>12
     DEF Next, OwnerStep, WorkerStep

(* The phases of the owner and of the worker thread.                       *)
LEMMA PhasesStep ==
  IInv /\ TypeOK' /\ Next => Hands' /\ Phases' /\ TokenBound'
<1> DEFINE Goal == Hands /\ Phases /\ TokenBound
<1> SUFFICES ASSUME IInv, TypeOK', Next PROVE Goal'
  OBVIOUS
<1> USE DEF IInv, TypeOK, Hands, Phases, TokenBound, InStop, Posting
<1>1. ASSUME NEW p \in Producers, NEW j \in Jobs, PutPush(p, j) PROVE Goal'
  BY <1>1 DEF PutPush
<1>10. ASSUME NEW p \in Producers, NEW j \in Jobs, PutDestroyed(p, j) PROVE Goal'
  BY <1>10 DEF PutDestroyed
<1>2. ASSUME NEW p \in Producers, PutPost(p) PROVE Goal'
  BY <1>2 DEF PutPost
<1>3. CASE GetJob
  BY <1>3 DEF GetJob
<1>4. CASE Start
  <2>1. status # "running" /\ current = NoJob
    BY <1>4 DEF Start
  <2>2. Hands' /\ TokenBound'
    BY <1>4, <2>1 DEF Start
  <2>3. Phases'
    BY <1>4 DEF Start
  <2>4. QED
    BY <2>2, <2>3
<1>5. CASE StopBegin
  BY <1>5 DEF StopBegin
<1>6. CASE DisposeBegin
  BY <1>6 DEF DisposeBegin
<1>7. CASE OwnerStep
  <2>1. CASE StopClearListener
    BY <2>1 DEF StopClearListener
  <2>2. CASE StopClearCtx
    BY <2>2 DEF StopClearCtx
  <2>3. CASE StopPost
    BY <2>3 DEF StopPost
  <2>4. CASE StopJoin
    BY <2>4 DEF StopJoin
  <2>5. CASE DisposeDrain
    BY <2>5 DEF DisposeDrain
  <2>6. CASE DisposeEmpty
    BY <2>6 DEF DisposeEmpty
  <2>8. CASE DisposeEnd
    <3>1. polls' >= polls /\ queue' = <<>> /\ polls' \in Nat
      BY <2>8 DEF DisposeEnd
    <3>2. QED
      BY <2>8, <3>1 DEF DisposeEnd
  <2>7. QED
    BY <1>7, <2>1, <2>2, <2>3, <2>4, <2>5, <2>6, <2>8 DEF OwnerStep
<1>8. CASE WorkerStep
  <2>1. CASE TakeWait
    BY <2>1 DEF TakeWait
  <2>2. CASE TakeNull
    <3>1. nullTakes + 1 <= stopPosts + polls
      BY <2>2, PostingFinite DEF TakeNull, Accounting, Taking
    <3>2. QED
      BY <2>2, <3>1 DEF TakeNull
  <2>3. CASE TakeJob
    BY <2>3, NoJobIsNoJob DEF TakeJob
  <2>4. CASE DropStopped \/ SeeRunning \/ LeakJob \/ SeeListener
    BY <2>4 DEF DropStopped, SeeRunning, LeakJob, SeeListener
  <2>5. CASE CallListener \/ UseNullCtx
    BY <2>5 DEF CallListener, UseNullCtx
  <2>6. CASE ListenerReturns
    BY <2>6 DEF ListenerReturns
  <2>7. QED
    BY <1>8, <2>1, <2>2, <2>3, <2>4, <2>5, <2>6 DEF WorkerStep
<1>9. QED
  BY <1>1, <1>2, <1>3, <1>4, <1>5, <1>6, <1>7, <1>8, <1>10 DEF Next

(* What is put after the last Poll of Dispose is late.                     *)
LEMMA LatenessStep == IInv /\ TypeOK' /\ Next => Lateness'
<1> SUFFICES ASSUME IInv, TypeOK', Next PROVE Lateness'
  OBVIOUS
<1> USE DEF IInv, TypeOK, Lateness, Phases, InStop, Settle
<1>1. ASSUME NEW p \in Producers, NEW j \in Jobs, PutPush(p, j) PROVE Lateness'
  <2>1. Waiting' \subseteq Waiting \cup {j}
    <3>1. /\ Len(queue') = Len(queue) + 1 /\ queue'[Len(queue) + 1] = j
          /\ \A i \in 1..Len(queue) : queue'[i] = queue[i]
      BY <1>1 DEF PutPush
    <3>2. \A i \in 1..Len(queue') : i \in 1..Len(queue) \/ i = Len(queue) + 1
      BY <3>1
    <3>3. \A i \in 1..Len(queue') : queue'[i] = j \/ \E k \in 1..Len(queue) : queue'[i] = queue[k]
      BY <3>1, <3>2
    <3> HIDE DEF IInv, TypeOK, Lateness, Phases
    <3>4. QED
      BY <3>3 DEF Waiting
  <2>2. QED
    BY <1>1, <2>1 DEF PutPush, IsLate
<1>2. ASSUME NEW p \in Producers, NEW j \in Jobs, PutDestroyed(p, j) PROVE Lateness'
  BY <1>2 DEF PutDestroyed, IsLate
<1>3. ASSUME NEW p \in Producers, PutPost(p) PROVE Lateness'
  BY <1>3 DEF PutPost, Waiting
<1>4. queue # <<>> /\ queue' = Tail(queue) => Waiting' \subseteq Waiting
  BY DEF Waiting
<1>5. CASE GetJob
  BY <1>4, <1>5 DEF GetJob
<1>6. CASE Start \/ StopBegin
  BY <1>6 DEF Start, StopBegin
<1>7. CASE DisposeBegin
  BY <1>7 DEF DisposeBegin
<1>8. CASE StopClearListener \/ StopClearCtx \/ StopPost \/ StopJoin
  BY <1>8 DEF StopClearListener, StopClearCtx, StopPost, StopJoin
<1>9. CASE DisposeDrain
  BY <1>9 DEF DisposeDrain
<1>10. CASE DisposeEmpty
  <2>1. Waiting' = {}
    BY <1>10 DEF DisposeEmpty, Waiting
  <2>2. QED
    BY <1>10, <2>1 DEF DisposeEmpty
<1>11. CASE DisposeEnd
  BY <1>11 DEF DisposeEnd
<1>12. CASE TakeJob
  BY <1>12 DEF TakeJob
<1>13. CASE DropStopped \/ LeakJob \/ ListenerReturns
  BY <1>13 DEF DropStopped, LeakJob, ListenerReturns, Waiting
<1>14. CASE TakeWait \/ TakeNull \/ SeeRunning \/ SeeListener \/ CallListener \/ UseNullCtx
  BY <1>14 DEF TakeWait, TakeNull, SeeRunning, SeeListener, CallListener, UseNullCtx, Waiting
<1>15. QED
  BY <1>1, <1>2, <1>3, <1>5, <1>6, <1>7, <1>8, <1>9, <1>10, <1>11, <1>12, <1>13, <1>14
     DEF Next, OwnerStep, WorkerStep

-----------------------------------------------------------------------------
(* The inductive invariant of the worker, its queue and its owner.         *)
THEOREM Invariance == Spec => []IInv
<1>1. Init => IInv
  <2> SUFFICES ASSUME Init, TypeOK PROVE IInv
    BY InitType
  <2>1. Posting = {}
    BY DEF Init, Posting
  <2>2. Accounting
    BY <2>1, FS_EmptySet DEF Init, Accounting, Taking
  <2>3. Custody
    BY NoJobIsNoJob DEF Init, Custody
  <2>4. Hands /\ Phases /\ TokenBound
    BY <2>1 DEF Init, Hands, Phases, TokenBound, InStop
  <2>6. Lateness
    BY DEF Init, Lateness
  <2>5. QED
    BY <2>2, <2>3, <2>4, <2>6 DEF IInv
<1>2. IInv /\ TypeOK' /\ [Next]_vars => IInv'
  <2>1. CASE Next
    BY <2>1, AccountingStep, CustodyStep, PhasesStep, LatenessStep DEF IInv
  <2>2. ASSUME IInv, TypeOK', UNCHANGED vars PROVE IInv'
    BY <2>2 DEF vars, IInv, Accounting, Taking, Posting, Custody, Hands, Phases,
                InStop, TokenBound, Lateness, Waiting
  <2>3. QED
    BY <2>1, <2>2
<1>3. QED
  BY <1>1, <1>2, TypeCorrect, PTL DEF Spec

(* The semaphore of the queue: its tokens, those about to be posted and    *)
(* the one just taken match the waiting jobs, Stop's posts and Poll's      *)
(* takes exactly.                                                          *)
THEOREM TokensAccounted == Spec => []Accounting
BY Invariance, PTL DEF IInv

(* No wake-up is lost: no job waits in the queue without a token for it.   *)
THEOREM NoLostWakeup == Spec => []NoStrandedJob
<1>1. IInv => NoStrandedJob
  BY PostingFinite DEF IInv, TypeOK, Accounting, Taking, TokenBound, NoStrandedJob
<1>2. QED
  BY <1>1, Invariance, PTL

(* No job is executed, freed or handed out twice, or while it waits.       *)
THEOREM JobsInCustody == Spec => []Custody
BY Invariance, PTL DEF IInv

(* After TinyWorker_Stop has returned, the worker thread is gone and holds *)
(* no job, whatever was waiting in the queue.                              *)
THEOREM QuietAfterStop == Spec => []StoppedMeansQuiet
<1>1. IInv => StoppedMeansQuiet
  BY DEF IInv, TypeOK, Hands, Phases, InStop, StoppedMeansQuiet
<1>2. QED
  BY <1>1, Invariance, PTL

(* A started worker loses its thread only to a token without a job, and    *)
(* such tokens come only from an earlier Stop or from GetJob.              *)
THEOREM AliveInFirstRun == Spec => []AliveUntilSurplusToken
<1>1. IInv => AliveUntilSurplusToken
  BY DEF IInv, TypeOK, TokenBound, AliveUntilSurplusToken
<1>2. QED
  BY <1>1, Invariance, PTL

(* Dispose settles what was put before it; only a PutJob that meets Dispose *)
(* or comes after it can lose its job or use the destroyed queue.          *)
THEOREM DisposeSettles == Spec => []DisposeSettlesAll
<1>1. IInv => DisposeSettlesAll
  <2>1. IInv => \A j \in Jobs : fate[j] = "spilled" => j \in late
    BY DEF IInv, Lateness
  <2>2. ASSUME IInv, owner = "destroyed"
        PROVE  /\ \A j \in Jobs : fate[j] \notin {"queued", "held"}
               /\ late = {} /\ ~overlap => \A p \in Producers : put[p] = "idle"
    <3>1. queue = <<>> /\ current = NoJob /\ disposing
      BY <2>2 DEF IInv, TypeOK, Phases, Hands, InStop
    <3>2. \A j \in Jobs : fate[j] \notin {"queued", "held"}
      BY <2>2, <3>1, NoJobIsNoJob DEF IInv, Custody
    <3>3. QED
      BY <2>2, <3>1, <3>2 DEF IInv, Lateness
  <2>3. QED
    BY <2>1, <2>2 DEF DisposeSettlesAll
<1>2. QED
  BY <1>1, Invariance, PTL

(* A job is lost only while a Stop is in progress.                         *)
THEOREM LeaksOnlyInStop == Spec => LeakOnlyInStop
<1> DEFINE A == \A j \in Jobs : fate[j] # "leaked" /\ fate'[j] = "leaked"
                  => owner \in {"clearCtx", "post", "join"}
<1>1. IInv /\ Next => A
  <2> SUFFICES ASSUME IInv, Next, NEW j \in Jobs,
                      fate[j] # "leaked", fate'[j] = "leaked"
               PROVE  owner \in {"clearCtx", "post", "join"}
    OBVIOUS
  <2> USE DEF IInv, TypeOK, Settle
  <2>1. LeakJob
    <3>1. ~(\E p \in Producers :
              (\E k \in Jobs : PutPush(p, k) \/ PutDestroyed(p, k)) \/ PutPost(p))
      BY DEF PutPush, PutDestroyed, PutPost
    <3>2. ~(GetJob \/ Start \/ StopBegin \/ DisposeBegin)
      BY DEF GetJob, Start, StopBegin, DisposeBegin
    <3>3. ~OwnerStep
      BY DEF OwnerStep, StopClearListener, StopClearCtx, StopPost, StopJoin,
             DisposeDrain, DisposeEmpty, DisposeEnd
    <3>4. ~(TakeWait \/ TakeNull \/ TakeJob \/ DropStopped \/ SeeRunning \/ SeeListener)
      BY DEF TakeWait, TakeNull, TakeJob, DropStopped, SeeRunning, SeeListener
    <3>5. ~(CallListener \/ UseNullCtx \/ ListenerReturns)
      BY DEF CallListener, UseNullCtx, ListenerReturns
    <3>6. QED
      BY <3>1, <3>2, <3>3, <3>4, <3>5 DEF Next, WorkerStep
  <2>2. QED
    BY <2>1 DEF LeakJob, Phases, InStop
<1>2. IInv /\ [Next]_vars => [A]_vars
  BY <1>1
<1>3. QED
  BY <1>2, Invariance, PTL DEF Spec, LeakOnlyInStop

-----------------------------------------------------------------------------
(* The queue, the semaphore and the thread keep the promise of JobLedger.  *)
THEOREM Refinement == Spec => LedgerSpec
<1>1. Init => Ledger!Init
  BY DEF Init, Ledger!Init
<1>2. IInv /\ IInv' /\ [Next]_vars => [Ledger!Next]_(Ledger!vars)
  <2> SUFFICES ASSUME IInv, IInv', [Next]_vars PROVE [Ledger!Next]_(Ledger!vars)
    OBVIOUS
  <2> USE DEF IInv, TypeOK, Settle, Ledger!Next, Ledger!Move, Ledger!vars
  <2>1. current = NoJob => Ledger!HandsEmpty
    BY NoJobIsNoJob DEF Custody, Ledger!HandsEmpty
  <2>2. queue # <<>> => Head(queue) \in Jobs /\ fate[Head(queue)] = "queued"
    BY DEF Custody
  <2>3. ASSUME NEW p \in Producers, NEW j \in Jobs, PutPush(p, j)
        PROVE  Ledger!Submit(j)
    BY <2>3 DEF PutPush, Ledger!Submit
  <2>4. ASSUME NEW p \in Producers, PutPost(p) PROVE UNCHANGED Ledger!vars
    BY <2>4 DEF PutPost
  <2>16. ASSUME NEW p \in Producers, NEW j \in Jobs, PutDestroyed(p, j)
         PROVE  UNCHANGED Ledger!vars
    BY <2>16 DEF PutDestroyed
  <2>5. CASE GetJob
    BY <2>2, <2>5 DEF GetJob, Ledger!Withdraw
  <2>6. CASE Start
    BY <2>6 DEF Start, Phases, InStop, Ledger!Open
  <2>7. CASE StopBegin \/ DisposeBegin
    BY <2>7 DEF StopBegin, DisposeBegin
  <2>8. CASE StopClearListener \/ StopClearCtx \/ StopPost \/ DisposeEmpty
    BY <2>8 DEF StopClearListener, StopClearCtx, StopPost, DisposeEmpty
  <2>17. CASE DisposeEnd
    <3>1. status # "running" /\ status' = status
      BY <2>17 DEF DisposeEnd, Phases, InStop
    <3>2. \A j \in Jobs : j \in Waiting <=> fate[j] = "queued"
      BY DEF Custody, Waiting
    <3>3. Ledger!Spill
      BY <2>17, <3>1, <3>2 DEF DisposeEnd, Ledger!Spill
    <3>4. QED
      BY <3>3
  <2>9. CASE StopJoin
    <3>1. status = "running" /\ current = NoJob
      BY <2>9 DEF StopJoin, Phases, InStop, Hands
    <3>2. QED
      BY <2>1, <2>9, <3>1 DEF StopJoin, Ledger!Close
  <2>10. CASE DisposeDrain
    <3>1. status # "running"
      BY <2>10 DEF DisposeDrain, Phases, InStop
    <3>2. QED
      BY <2>2, <2>10, <3>1 DEF DisposeDrain, Ledger!Discard
  <2>11. CASE TakeJob
    <3>1. status = "running" /\ current = NoJob
      BY <2>11 DEF TakeJob, Phases, Hands
    <3>2. QED
      BY <2>1, <2>2, <2>11, <3>1 DEF TakeJob, Ledger!Take
  <2>12. CASE DropStopped \/ LeakJob \/ ListenerReturns
    <3>1. status = "running" /\ current \in Jobs /\ fate[current] = "held"
      BY <2>12 DEF DropStopped, LeakJob, ListenerReturns, Phases, Hands, Custody
    <3>2. \E how \in {"executed", "deleted", "leaked"} : Settle(current, how)
      BY <2>12 DEF DropStopped, LeakJob, ListenerReturns
    <3>3. status' = status
      BY <2>12 DEF DropStopped, LeakJob, ListenerReturns
    <3>4. Ledger!Settle(current)
      BY <3>1, <3>2, <3>3 DEF Ledger!Settle
    <3>5. QED
      BY <3>1, <3>4
  <2>13. CASE TakeWait \/ TakeNull \/ SeeRunning \/ SeeListener
                \/ CallListener \/ UseNullCtx
    BY <2>13 DEF TakeWait, TakeNull, SeeRunning, SeeListener, CallListener, UseNullCtx
  <2>14. CASE UNCHANGED vars
    BY <2>14 DEF vars
  <2>15. QED
    BY <2>3, <2>4, <2>5, <2>6, <2>7, <2>8, <2>9, <2>10, <2>11, <2>12, <2>13, <2>14,
       <2>16, <2>17 DEF Next, OwnerStep, WorkerStep
<1>3. QED
  BY <1>1, <1>2, Invariance, PTL DEF Spec, LedgerSpec, Ledger!Spec
=============================================================================
