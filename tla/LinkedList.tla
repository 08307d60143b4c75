------------------------------ MODULE LinkedList ------------------------------
(***************************************************************************)
(* The list of requests: nodes of an arena, chained by pointers, and the   *)
(* stack of pointers to those that are free.                               *)
(***************************************************************************)
EXTENDS Integers, Sequences, FiniteSets

CONSTANTS
  ListCapacity,  \* capacity
  ListValues     \* that are listed

ASSUME LinkedListAssumption == ListCapacity \in Nat \ {0} /\ ListValues # {}

VARIABLES
  first,      \* the first node, 0: null
  next,       \* of each node
  data,       \* of each node
  freeNodes,  \* pool
  available   \* those of its entries that count

listVars == <<first, next, data, freeNodes, available>>

Arena == 1..ListCapacity

-----------------------------------------------------------------------------
(* Walks along the chain. *)

\* The node after so many hops.
Hop[n \in 0..ListCapacity] ==
  IF n = 0 THEN first ELSE IF Hop[n - 1] = 0 THEN 0 ELSE next[Hop[n - 1]]

ListLength == Cardinality({n \in 0..(ListCapacity - 1) : Hop[n] # 0})
Chain      == [i \in 1..ListLength |-> Hop[i - 1]]
Listed     == [i \in 1..ListLength |-> data[Chain[i]]]

\* The chain as the list that it stands for.
Abstract == INSTANCE Listing WITH
  Value  <- ListValues,
  Room   <- ListCapacity,
  listed <- Listed

\* findIf(): the first node whose value is one of these.
findIf(wanted) ==
  LET places == {i \in 1..ListLength : Listed[i] \in wanted}
  IN IF places = {} THEN 0 ELSE Chain[CHOOSE i \in places : \A k \in places : i <= k]

\* The chain without some nodes: the pointer to each becomes the one that it holds.
Past(gone) ==
  LET kept == Abstract!Others(Chain, gone)
  IN /\ first' = IF kept = <<>> THEN 0 ELSE kept[1]
     /\ next' = [n \in Arena |->
                   IF \E i \in 1..Len(kept) : kept[i] = n
                   THEN LET i == CHOOSE i \in 1..Len(kept) : kept[i] = n
                        IN IF i = Len(kept) THEN 0 ELSE kept[i + 1]
                   ELSE next[n]]

-----------------------------------------------------------------------------
\* Slip: the last pointer that counts is written over.
ReleasedOver(nodes) ==
  [i \in Arena |-> IF i \in available..(available + Len(nodes) - 1)
                   THEN nodes[i - available + 1] ELSE freeNodes[i]]

\* release(), of one node after the other.
Released(nodes) ==
  [i \in Arena |-> IF i \in (available + 1)..(available + Len(nodes))
                   THEN nodes[i - available] ELSE freeNodes[i]]

EraseNodes(gone) ==
  /\ Past(gone) /\ UNCHANGED data
  /\ LET nodes == Abstract!Others(Chain, Arena \ gone)
     IN freeNodes' = Released(nodes) /\ available' = available + Len(nodes)

listFull == available = 0

\* pushBack() and allocate().
pushBack(v) ==
  /\ ~listFull
  /\ LET node == freeNodes[available]
         tail == [next EXCEPT ![node] = 0]
     IN /\ data' = [data EXCEPT ![node] = v]
        /\ first' = IF first = 0 THEN node ELSE first
        /\ next' = IF first = 0 THEN tail ELSE [tail EXCEPT ![Chain[ListLength]] = node]
  /\ available' = available - 1 /\ UNCHANGED freeNodes

\* erase() of a node, which may be one that is not on the list.
eraseNode(node) == EraseNodes({node})

\* erase() of a value: its first node.
eraseValue(v) == EraseNodes({findIf({v})})

eraseIf(gone) == EraseNodes({Chain[i] : i \in {j \in 1..ListLength : Listed[j] \in gone}})

clear ==
  /\ first' = 0 /\ available' = ListCapacity /\ freeNodes' = [i \in Arena |-> i]
  /\ UNCHANGED <<next, data>>

\* The arena holds no values yet.
ListInit ==
  /\ first = 0 /\ available = ListCapacity /\ freeNodes = [i \in Arena |-> i]
  /\ next = [n \in Arena |-> 0] /\ data = [n \in Arena |-> CHOOSE v \in ListValues : TRUE]

ListNext ==
  \/ \E v \in ListValues : pushBack(v) \/ eraseValue(v)
  \/ \E n \in Arena : eraseNode(n)
  \/ \E gone \in SUBSET ListValues : eraseIf(gone)
  \/ clear

-----------------------------------------------------------------------------
\* The chain is a list whatever is put on it and taken from it: no node is on it twice
\* or is given out while it is on it, none is lost, and the others keep their order.
ListIsAList == Abstract!Spec
=============================================================================
