------------------------------- MODULE HeapSpec -------------------------------
(***************************************************************************)
(* What malloc and free (Memory/Memory.cpp) promise the rest of the kernel.*)
(* A thread that asked for memory is given, some time later, a block that  *)
(* overlaps none of the blocks in use; a block stays in use, where it is   *)
(* and as large as it is, until it is freed.                               *)
(***************************************************************************)
EXTENDS Integers

CONSTANT Threads

VARIABLES
    pending,    \* for each thread the size it is waiting for, 0 when none
    live        \* the blocks in use: a function from address to size

vars == <<pending, live>>

Init ==
    /\ pending = [t \in Threads |-> 0]
    /\ live = [b \in {} |-> 0]

Ask(t, size) ==
    /\ pending[t] = 0
    /\ size > 0
    /\ pending' = [pending EXCEPT ![t] = size]
    /\ UNCHANGED live

\* The address is one that live' has and live has not.
Give(t, address) ==
    /\ pending[t] > 0
    /\ address \notin DOMAIN live
    /\ \A b \in DOMAIN live : \/ address + pending[t] <= b
                              \/ b + live[b] <= address
    /\ live' = [b \in DOMAIN live \cup {address} |->
                   IF b = address THEN pending[t] ELSE live[b]]
    /\ pending' = [pending EXCEPT ![t] = 0]

TakeBack(address) ==
    /\ live' = [b \in DOMAIN live \ {address} |-> live[b]]
    /\ UNCHANGED pending

Next ==
    \/ \E t \in Threads : Ask(t, pending'[t])
    \/ \E t \in Threads, address \in DOMAIN live' : Give(t, address)
    \/ \E address \in DOMAIN live : TakeBack(address)

Spec == Init /\ [][Next]_vars
=============================================================================
