---------------------------- MODULE TinyCondition ----------------------------
(***************************************************************************)
(* Tiny/Thread/TinyCondition.c: a condition variable with a flag of its    *)
(* own.  Wait clears is_ready BEFORE it sleeps, so a second Wait that      *)
(* comes between a notification and the moment the first waiter has the    *)
(* mutex again takes the notification away from it.                        *)
(*                                                                         *)
(* Each of the three calls holds the mutex from its first line to its last *)
(* and lets go of it only in pthread_cond_wait: a call is one step, but    *)
(* for the two halves of Wait.  pthread_cond_signal wakes at least one     *)
(* sleeper, and a sleeper may wake for no reason.                          *)
(***************************************************************************)
EXTENDS Naturals, FiniteSets

CONSTANTS
  Waiters,     \* the threads that call TinyCondition_Wait
  MaxWaits,    \* bound: calls of Wait
  MaxNotifies, \* bound: calls of NotifyOne and NotifyAll
  MaxSpurious  \* bound: wake-ups for no reason

VARIABLES
  isReady,   \* is_ready
  waiter,    \* waiter[w]: where w is in TinyCondition_Wait
  (* history, never read by the code's own steps *)
  notified,  \* notified[w]: a notification has come since w began to wait
  called,    \* called[w]: a notification was meant for w and it has not returned
  overtaken, \* overtaken[w]: another Wait began after it
  waits, notifies, spurious

condition == <<isReady, waiter>>
counts    == <<waits, notifies, spurious>>
conditionVars == <<condition, notified, called, overtaken, counts>>

None == [w \in Waiters |-> FALSE]

ConditionInit ==
  /\ isReady = FALSE
  /\ waiter = [w \in Waiters |-> "out"]
  /\ notified = None /\ called = None /\ overtaken = None
  /\ waits = 0 /\ notifies = 0 /\ spurious = 0

Asleep == {w \in Waiters : waiter[w] = "asleep"}

\* Mutant: Wait does not clear the flag that an old notification has left.
Wait_KeepsReady(w) ==
  /\ waiter[w] = "out" /\ waits < MaxWaits
  /\ UNCHANGED isReady
  /\ waiter' = [waiter EXCEPT ![w] = "asleep"]
  /\ notified' = [notified EXCEPT ![w] = FALSE]
  /\ overtaken' = [v \in Waiters |-> IF v = w THEN FALSE ELSE overtaken[v] \/ called[v]]
  /\ waits' = waits + 1
  /\ UNCHANGED <<called, notifies, spurious>>

\* TinyCondition_Wait up to pthread_cond_wait.
Wait(w) ==
  /\ waiter[w] = "out" /\ waits < MaxWaits
  /\ isReady' = FALSE
  /\ waiter' = [waiter EXCEPT ![w] = "asleep"]
  /\ notified' = [notified EXCEPT ![w] = FALSE]
  /\ overtaken' = [v \in Waiters |-> IF v = w THEN FALSE ELSE overtaken[v] \/ called[v]]
  /\ waits' = waits + 1
  /\ UNCHANGED <<called, notifies, spurious>>

\* The sleeper has the mutex again: it returns if the flag is still set.
Recheck(w) ==
  /\ waiter[w] = "woken"
  /\ waiter' = [waiter EXCEPT ![w] = IF isReady THEN "out" ELSE "asleep"]
  /\ called' = [called EXCEPT ![w] = ~isReady /\ called[w]]
  /\ UNCHANGED <<isReady, notified, overtaken, counts>>

Spurious(w) ==
  /\ waiter[w] = "asleep" /\ spurious < MaxSpurious
  /\ waiter' = [waiter EXCEPT ![w] = "woken"]
  /\ spurious' = spurious + 1
  /\ UNCHANGED <<isReady, notified, called, overtaken, waits, notifies>>

Wake(ws) ==
  /\ waiter' = [w \in Waiters |-> IF w \in ws THEN "woken" ELSE waiter[w]]
  /\ called' = [w \in Waiters |-> called[w] \/ w \in ws]
  /\ overtaken' = [w \in Waiters |-> overtaken[w] /\ w \notin ws]
  /\ notified' = [w \in Waiters |-> notified[w] \/ waiter[w] # "out"]
  /\ notifies' = notifies + 1
  /\ UNCHANGED <<waits, spurious>>

NotifyOne ==
  /\ notifies < MaxNotifies
  /\ isReady' = TRUE
  /\ IF Asleep = {} THEN Wake({}) ELSE \E w \in Asleep : Wake({w})

\* Mutant: NotifyAll wakes the sleepers and forgets the flag.
NotifyAll_NoFlag ==
  /\ notifies < MaxNotifies
  /\ UNCHANGED isReady
  /\ Wake(Asleep)

NotifyAll ==
  /\ notifies < MaxNotifies
  /\ isReady' = TRUE
  /\ Wake(Asleep)

ConditionNext ==
  \/ \E w \in Waiters : Wait(w) \/ Recheck(w) \/ Spurious(w)
  \/ NotifyOne
  \/ NotifyAll

ConditionSpec == ConditionInit /\ [][ConditionNext]_conditionVars

\* A woken thread gets the mutex in the end: nobody holds it for long.
ConditionFairness == \A w \in Waiters : WF_conditionVars(Recheck(w))

ConditionFairSpec == ConditionSpec /\ ConditionFairness

-----------------------------------------------------------------------------
ConditionTypeOK ==
  /\ isReady \in BOOLEAN
  /\ waiter \in [Waiters -> {"out", "asleep", "woken"}]
  /\ {notified, called, overtaken} \subseteq [Waiters -> BOOLEAN]
  /\ waits \in 0 .. MaxWaits
  /\ notifies \in 0 .. MaxNotifies
  /\ spurious \in 0 .. MaxSpurious

\* Wait returns only when a notification has come since it was called: what
\* an earlier NotifyOne or NotifyAll has left behind, or a wake-up for no
\* reason, lets nobody through.
OnlyNotifiedReturn ==
  [][\A w \in Waiters :
       waiter[w] # "out" /\ waiter'[w] = "out" => notified[w]]_conditionVars

\* A waiter that a notification has woken returns, unless another Wait began
\* before it had the mutex again and took the notification away.
CalledReturns ==
  \A w \in Waiters : called[w] ~> (~called[w] \/ overtaken[w])
=============================================================================
