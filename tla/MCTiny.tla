------------------------------- MODULE MCTiny --------------------------------
(***************************************************************************)
(* Four parts of the Tiny library that know nothing of each other: a       *)
(* timer, a condition variable, a list, and the message loop of HTTP.      *)
(* `part` says which of them a behaviour is about; the others rest in      *)
(* their initial states, where no step of theirs is under way.             *)
(***************************************************************************)
EXTENDS TinyTimer, TinyCondition, TinyList, HttpTransfer

CONSTANTS w1, w2, w3, d1, d2

VARIABLE part

allVars == <<part, timerVars, conditionVars, listVars, transferVars>>

\* On time, late, early, very late, and a clock that was put back.
ClockReadings == {-2, 0, 3, 4, 5, 9}

PartInit ==
  /\ part \in {"timer", "condition", "list", "transfer"}
  /\ TimerInit /\ ConditionInit /\ ListInit /\ TransferInit
  /\ part # "timer" => times = CHOOSE t \in TimesSet : TRUE
  /\ part # "transfer" => /\ length = CHOOSE l \in Lengths : TRUE
                         /\ surplus = CHOOSE n \in Surpluses : TRUE

PartNext ==
  /\ part' = part
  /\ \/ part = "timer" /\ TimerNext /\ UNCHANGED <<conditionVars, listVars, transferVars>>
     \/ part = "condition" /\ ConditionNext /\ UNCHANGED <<timerVars, listVars, transferVars>>
     \/ part = "list" /\ ListNext /\ UNCHANGED <<timerVars, conditionVars, transferVars>>
     \/ part = "transfer" /\ TransferNext /\ UNCHANGED <<timerVars, conditionVars, listVars>>

PartSpec == PartInit /\ [][PartNext]_allVars /\ TimerFairness /\ ConditionFairness
=============================================================================
