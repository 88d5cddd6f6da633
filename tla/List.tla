--------------------------------- MODULE List ---------------------------------
(***************************************************************************)
(* List<T> of Headers/List.h: an array of mArraySize slots, of which the   *)
(* first mCount are in use.  A list is a record [slots, size, count];      *)
(* slots is a function from 0 .. n-1.  Garbage stands for every value that *)
(* is no element: the zeroes of calloc, the 0x33 of free, foreign memory.  *)
(***************************************************************************)
EXTENDS Integers

CONSTANTS
    InitialSize,   \* slots of a new list, 5 in the code
    Growth,        \* slots added when the list is full, 5 in the code
    Garbage

ASSUME ListAssumption == InitialSize \in Nat /\ Growth \in Nat \ {0}

Cleared(n) == [x \in 0 .. n - 1 |-> Garbage]

NewList == [slots |-> Cleared(InitialSize), size |-> InitialSize, count |-> 0]

\* mArray[index]; what is beyond the array is somebody else's memory.
Get(list, index) == IF index \in DOMAIN list.slots THEN list.slots[index] ELSE Garbage

Full(list) == list.count + 1 > list.size

GrownEmpty(list) ==                \* mutant of Grown: nothing is copied
    [slots |-> Cleared(list.size + Growth), size |-> list.size + Growth,
     count |-> list.count]

\* An array of n slots that starts with the elements of list.
Copied(list, n) == [x \in 0 .. n - 1 |-> IF x < list.count THEN Get(list, x) ELSE Garbage]

Grown(list) ==
    [slots |-> Copied(list, list.size + Growth), size |-> list.size + Growth,
     count |-> list.count]

\* mArray[x] = item.
Write(slots, x, item) == [y \in DOMAIN slots |-> IF y = x THEN item ELSE slots[y]]

AddFirst(list, item) ==            \* mutant of Add: the item is put in front
    LET room == IF Full(list) THEN Grown(list) ELSE list
    IN  [room EXCEPT !.slots = [x \in DOMAIN room.slots |->
                                   IF x = 0 THEN item ELSE Get(room, x - 1)],
                     !.count = @ + 1]

Add(list, item) ==
    LET room == IF Full(list) THEN Grown(list) ELSE list
    IN  [room EXCEPT !.slots = Write(room.slots, room.count, item), !.count = @ + 1]

KeepAll(list, index) == list       \* mutant of RemoveAt: nothing is removed

MoveLast(list, index) ==           \* mutant of RemoveAt: the last element fills the gap
    IF index + 1 > list.count THEN list
    ELSE [list EXCEPT !.slots = Write(list.slots, index, Get(list, list.count - 1)),
                      !.count = @ - 1]

\* The elements after index move down; the last slot keeps its value, except
\* that a list of one element is cleared.
RemoveAt(list, index) ==
    IF index + 1 > list.count THEN list
    ELSE IF index = 0 /\ list.count = 1
    THEN [list EXCEPT !.slots = Write(list.slots, 0, Garbage), !.count = 0]
    ELSE [list EXCEPT !.slots = [x \in DOMAIN list.slots |->
                                    IF x \in index .. list.count - 2
                                    THEN Get(list, x + 1) ELSE list.slots[x]],
                      !.count = @ - 1]
=============================================================================
