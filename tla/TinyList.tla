------------------------------ MODULE TinyList -------------------------------
(***************************************************************************)
(* Tiny/Container/TinyList (and TinyQueue, which is a name for it): nodes  *)
(* with a link to the next and to the previous one, and a count of the     *)
(* nodes that were allocated.  Nobody keeps the last node: it is looked    *)
(* for.  The list has no lock; its users lock, so that an operation is a   *)
(* step.                                                                   *)
(***************************************************************************)
EXTENDS Naturals, Sequences, FiniteSets

CONSTANTS
  Data,
  Nodes,     \* the memory there is for nodes: a finite set of numbers
  Null       \* none of them

ASSUME MemoryIsFinite == Nodes \subseteq Nat /\ IsFiniteSet(Nodes) /\ Null \notin Nodes

VARIABLES
  first,     \* the first node, or Null
  next, prev, data,   \* the fields of the nodes
  used,      \* the nodes that are allocated
  size,      \* what TinyList_GetCount returns
  dropped,   \* what the last operation has handed to the delete listener
  ret        \* what the last operation has returned

nodeVars == <<next, prev, data>>
listVars == <<first, nodeVars, used, size, dropped, ret>>

ListInit ==
  /\ first = Null /\ used = {} /\ size = 0
  /\ next = [n \in Nodes |-> Null] /\ prev = next /\ data = next
  /\ dropped = <<>> /\ ret = "OK"

-----------------------------------------------------------------------------
(* Walking along the links.                                                *)

Steps == 0..Cardinality(Nodes)

\* The node at position i, by TinyList_GetAt's loop.
NodeAt ==
  LET at[i \in Steps] == IF i = 0 THEN first
                         ELSE IF at[i - 1] = Null THEN Null ELSE next[at[i - 1]]
  IN at

Length == Cardinality({i \in Steps : NodeAt[i] # Null})

\* The data in the order of the links: what the list stands for.
Content == [i \in 1..Length |-> data[NodeAt[i - 1]]]

Last == NodeAt[Length - 1]

Abstract == INSTANCE DataList WITH list <- Content

-----------------------------------------------------------------------------
(* TinyNode_New and TinyNode_Delete.                                       *)

Free == Nodes \ used

\* The allocator's choice: here the lowest that is free.
NewNode == CHOOSE n \in Free : \A m \in Free : n <= m

Allocate == Free # {} /\ used' = used \cup {NewNode} /\ size' = size + 1

\* The fields of the new node, and links that change in others.
Link(nx, pv, d) ==
  /\ next' = [n \in Nodes |-> IF n \in DOMAIN nx THEN nx[n] ELSE next[n]]
  /\ prev' = [n \in Nodes |-> IF n \in DOMAIN pv THEN pv[n] ELSE prev[n]]
  /\ data' = [data EXCEPT ![NewNode] = d]

Forget(ns) ==
  /\ used' = used \ ns
  /\ size' = size - Cardinality(ns)
  /\ data' = [n \in Nodes |-> IF n \in ns THEN Null ELSE data[n]]

\* The links of the node x are taken out; those of its neighbours go past it.
Unlink(x) ==
  /\ next' = [n \in Nodes |-> IF n = x THEN Null
                              ELSE IF n = prev[x] THEN next[x] ELSE next[n]]
  /\ prev' = [n \in Nodes |-> IF n = x THEN Null
                              ELSE IF n = next[x] THEN prev[x] ELSE prev[n]]

Return(code, ds) == ret' = code /\ dropped' = ds

Nothing(code) == Return(code, <<>>) /\ UNCHANGED <<first, nodeVars, used, size>>

-----------------------------------------------------------------------------
OutOfMemory == Free = {} /\ Nothing("E_NEW")

\* Two changed links: that of n to v and that of m to w.
With(n, v, m, w) == [k \in {n, m} \ {Null} |-> IF k = n THEN v ELSE w]

AddHead(d) ==
  /\ Allocate /\ Return("OK", <<>>)
  /\ first' = NewNode
  /\ Link(With(NewNode, first, NewNode, first), With(first, NewNode, NewNode, Null), d)

AddTail(d) ==
  /\ Allocate /\ Return("OK", <<>>)
  /\ IF first = Null
     THEN /\ first' = NewNode
          /\ Link(With(NewNode, Null, NewNode, Null), With(NewNode, Null, NewNode, Null), d)
     ELSE /\ first' = first
          /\ Link(With(Last, NewNode, NewNode, Null), With(NewNode, Last, NewNode, Last), d)

\* Remove the node x, which is in the list.
Remove(x, code) ==
  /\ first' = IF x = first THEN next[x] ELSE first
  /\ Unlink(x) /\ Forget({x}) /\ Return(code, <<data[x]>>)

RemoveHead == IF first = Null THEN Nothing("OK") ELSE Remove(first, "OK")

\* Mutant: the last node is looked for one too early.
RemoveTail_OneTooEarly ==
  IF first = Null THEN Nothing("OK")
  ELSE Remove(IF Length > 1 THEN NodeAt[Length - 2] ELSE Last, "OK")

RemoveTail == IF first = Null THEN Nothing("OK") ELSE Remove(Last, "OK")

\* The list is empty before the first listener is called.
RemoveAll ==
  LET all == {NodeAt[i] : i \in Steps} \ {Null} IN
  /\ first' = Null
  /\ next' = [n \in Nodes |-> IF n \in all THEN Null ELSE next[n]]
  /\ prev' = [n \in Nodes |-> IF n \in all THEN Null ELSE prev[n]]
  /\ Forget(all) /\ Return("OK", Content)

IsAt(pos) == pos \in 0..Length - 1

\* The loop ends with E_POSITION_INVALID although it has found the node.
RemoveAt(pos) ==
  IF IsAt(pos) THEN Remove(NodeAt[pos], "E_POSITION_INVALID") ELSE Nothing("E_POSITION_INVALID")

SetAt(pos, d) ==
  IF IsAt(pos)
  THEN /\ data' = [data EXCEPT ![NodeAt[pos]] = d]
       /\ Return("E_POSITION_INVALID", <<data[NodeAt[pos]]>>)
       /\ UNCHANGED <<first, next, prev, used, size>>
  ELSE Nothing("E_POSITION_INVALID")

\* Mutant: the node after the new one keeps its link back.
InsertAfter_NoBackLink(pos, d) ==
  IF first = Null THEN Nothing("E_POSITION_INVALID")
  ELSE /\ Allocate
       /\ IsAt(pos) /\ first' = first /\ Return("OK", <<>>)
       /\ Link(With(NewNode, next[NodeAt[pos]], NodeAt[pos], NewNode),
               With(NewNode, NodeAt[pos], NewNode, NodeAt[pos]), d)

\* A position that is not there is noticed when the node is allocated already:
\* the node is lost, and counted.
InsertAfter(pos, d) ==
  IF first = Null THEN Nothing("E_POSITION_INVALID")
  ELSE /\ Allocate
       /\ IF IsAt(pos)
          THEN LET at == NodeAt[pos] IN
               /\ first' = first /\ Return("OK", <<>>)
               /\ Link(With(NewNode, next[at], at, NewNode),
                       With(NewNode, at, next[at], NewNode), d)
          ELSE /\ Return("E_POSITION_INVALID", <<>>)
               /\ data' = [data EXCEPT ![NewNode] = d]
               /\ UNCHANGED <<first, next, prev>>

InsertBefore(pos, d) == IF pos = 0 THEN AddHead(d) ELSE InsertAfter(pos - 1, d)

-----------------------------------------------------------------------------
Positions == 0..Cardinality(Nodes)

ListNext ==
  \/ OutOfMemory
  \/ RemoveHead \/ RemoveTail \/ RemoveAll
  \/ \E d \in Data : AddHead(d) \/ AddTail(d)
  \/ \E pos \in Positions : RemoveAt(pos)
  \/ \E pos \in Positions, d \in Data : SetAt(pos, d) \/ InsertAfter(pos, d) \/ InsertBefore(pos, d)

ListSpec == ListInit /\ [][ListNext]_listVars

-----------------------------------------------------------------------------
InList == {NodeAt[i] : i \in Steps} \ {Null}

ListTypeOK ==
  /\ first \in Nodes \cup {Null}
  /\ next \in [Nodes -> Nodes \cup {Null}] /\ prev \in [Nodes -> Nodes \cup {Null}]
  /\ data \in [Nodes -> Data \cup {Null}] /\ used \subseteq Nodes

\* The two chains of links say the same, no node that is freed is linked, the
\* list ends, and the count is that of the allocated nodes: it exceeds the
\* length by the nodes that a refused InsertAfter has lost.
WellLinked ==
  /\ NodeAt[Cardinality(Nodes)] = Null
  /\ InList \subseteq used /\ size = Cardinality(used)
  /\ first # Null => prev[first] = Null
  /\ \A n \in InList : next[n] # Null => prev[next[n]] = n

\* The list is the sequence that it stands for, and each datum that leaves it
\* is handed to the delete listener once: the promise of DataList.
DataListSpec == Abstract!Spec
=============================================================================
