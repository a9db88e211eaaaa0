--------------------------- MODULE FragmentedList ---------------------------
(***************************************************************************)
(* generics/FragmentedList.h: a list of item pointers in fragments of a    *)
(* fixed number of slots that are chained and never freed.  The list is    *)
(* the sequence of the slots of all its fragments, empty before the first  *)
(* addItem().  Both operations run under the list's recursive _lock, which *)
(* the modules that use the list model.                                    *)
(***************************************************************************)
EXTENDS Naturals, Sequences, FiniteSetsExt

CONSTANTS
  FragmentSize,   \* the template parameter fragmentSize
  NoItem          \* the null pointer

ASSUME FragmentSizeAssumption == FragmentSize \in Nat \ {0}

EmptySlots(list) == {i \in 1..Len(list) : list[i] = NoItem}

(* addItem(): the first empty slot is used, of a new fragment if there is  *)
(* none.  An item may be entered more than once.                           *)
Added(list, item) ==
  LET room == IF EmptySlots(list) = {}
              THEN list \o [i \in 1..FragmentSize |-> NoItem] ELSE list
  IN  [room EXCEPT ![Min(EmptySlots(room))] = item]

(* removeItem(): every slot of the item is emptied.                        *)
Removed(list, item) ==
  [i \in 1..Len(list) |-> IF list[i] = item THEN NoItem ELSE list[i]]
=============================================================================
