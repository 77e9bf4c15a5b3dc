------------------------------- MODULE AsrBuf -------------------------------
(***************************************************************************)
(* The growing array the parser fills and the back ends read               *)
(* (src/src/asr/buf.c).  Its capacity starts at InitialCapacity (8 in the  *)
(* code) and is multiplied by 3; when realloc fails the old array stays    *)
(* and the item is not stored, which nobody is told.                       *)
(*                                                                         *)
(* An item is stored with its id, its position; ids count from 1 here.     *)
(***************************************************************************)
EXTENDS Integers, Sequences

CONSTANT InitialCapacity

ASSUME InitialCapacityAssumption == InitialCapacity \in Nat \ {0}

VARIABLES
  items,      \* the stored items; asr->count is Len(items)
  capacity,
  lost        \* history: items that found no room

bufVars == <<items, capacity, lost>>

BufInit == items = <<>> /\ capacity = 0 /\ lost = 0

Grown(cap) == IF cap = 0 THEN InitialCapacity ELSE cap * 3

\* Mutation of IsFull: one item too many.
IsFullBeyond == Len(items) > capacity

IsFull == Len(items) >= capacity

Store(item) == items' = Append(items, [item EXCEPT !.id = Len(items) + 1])

AddInPlace(item) == ~IsFull /\ Store(item) /\ UNCHANGED <<capacity, lost>>

AddGrowing(item) ==
  IsFull /\ capacity' = Grown(capacity) /\ Store(item) /\ UNCHANGED lost

AddFails == IsFull /\ lost' = lost + 1 /\ UNCHANGED <<items, capacity>>
=============================================================================
