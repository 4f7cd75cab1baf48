------------------------------ MODULE DataList -------------------------------
(***************************************************************************)
(* What Tiny/Container/TinyList promises: a sequence of data, and that a   *)
(* datum that leaves it is handed to the delete listener, once.  What the  *)
(* operations return is part of it, RemoveAt and SetAt included, which     *)
(* return an error whatever they have done.                                *)
(***************************************************************************)
EXTENDS Naturals, Sequences

CONSTANT Data

VARIABLES
  list,      \* the data, from the first to the last
  dropped,   \* what the last operation has handed to the delete listener
  ret        \* what the last operation has returned

vars == <<list, dropped, ret>>

Init == list = <<>> /\ dropped = <<>> /\ ret = "OK"

\* Positions start at 0 and may be any integer.
At(pos) == pos + 1

Valid(pos) == At(pos) \in 1..Len(list)

Without(i) == SubSeq(list, 1, i - 1) \o SubSeq(list, i + 1, Len(list))

Keep(l, code) == list' = l /\ dropped' = <<>> /\ ret' = code
Drop(l, ds, code) == list' = l /\ dropped' = ds /\ ret' = code

OutOfMemory == Keep(list, "E_NEW")

AddHead(d) == Keep(<<d>> \o list, "OK")

AddTail(d) == Keep(Append(list, d), "OK")

RemoveHead == IF list = <<>> THEN Keep(list, "OK") ELSE Drop(Tail(list), <<Head(list)>>, "OK")

RemoveTail ==
  IF list = <<>> THEN Keep(list, "OK")
  ELSE Drop(SubSeq(list, 1, Len(list) - 1), <<list[Len(list)]>>, "OK")

RemoveAll == Drop(<<>>, list, "OK")

RemoveAt(pos) ==
  IF Valid(pos) THEN Drop(Without(At(pos)), <<list[At(pos)]>>, "E_POSITION_INVALID")
                ELSE Keep(list, "E_POSITION_INVALID")

SetAt(pos, d) ==
  IF Valid(pos) THEN Drop([list EXCEPT ![At(pos)] = d], <<list[At(pos)]>>, "E_POSITION_INVALID")
                ELSE Keep(list, "E_POSITION_INVALID")

InsertAfter(pos, d) ==
  IF Valid(pos)
  THEN Keep(SubSeq(list, 1, At(pos)) \o <<d>> \o SubSeq(list, At(pos) + 1, Len(list)), "OK")
  ELSE Keep(list, "E_POSITION_INVALID")

InsertBefore(pos, d) == IF pos = 0 THEN AddHead(d) ELSE InsertAfter(pos - 1, d)

Next ==
  \/ OutOfMemory
  \/ RemoveHead \/ RemoveTail \/ RemoveAll
  \/ \E d \in Data : AddHead(d) \/ AddTail(d)
  \/ \E i \in 0..Len(list) : RemoveAt(i)
  \/ \E i \in 0..Len(list), d \in Data : SetAt(i, d) \/ InsertAfter(i, d) \/ InsertBefore(i, d)

Spec == Init /\ [][Next]_vars
=============================================================================
