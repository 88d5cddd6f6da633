----------------------------- MODULE AddressSpace -----------------------------
(***************************************************************************)
(* What PageTableManager (Memory/PageTableManager.cpp) promises the rest   *)
(* of the kernel: a flat table from virtual pages to an address and flags. *)
(* A call of MapMemory or SetVirtualFlag changes the page it was asked to  *)
(* change, as asked, and no other.  A flag is never taken back: SetFlag    *)
(* has a parameter for its value but always sets it (Headers/Paging.h:28). *)
(*                                                                         *)
(* The promise ends when a table is needed and no page is left: collapsed. *)
(***************************************************************************)
CONSTANTS Page, Address, Flag

VARIABLES
    asked,      \* the call under way: no or one member of Request
    space,      \* for each page [address |-> ..., flags |-> ...]
    collapsed

vars == <<asked, space, collapsed>>

Request == [op : {"map", "flag"}, page : Page, address : Address, flag : Flag]

Nothing == [p \in Page |-> [address |-> 0, flags |-> {}]]

Answer(e, r) ==
    IF r.op = "flag" THEN [address |-> e.address, flags |-> e.flags \cup {r.flag}]
    ELSE [address |-> r.address, flags |-> e.flags \cup {"Present", "ReadWrite"}]

Init ==
    /\ asked = {}
    /\ space = Nothing
    /\ collapsed = FALSE

Ask ==
    /\ ~collapsed /\ asked = {}
    /\ \E r \in asked' : r \in Request /\ asked' = {r}
    /\ UNCHANGED <<space, collapsed>>

Change ==
    /\ ~collapsed /\ asked' = {}
    /\ \E r \in asked : space' = [space EXCEPT ![r.page] = Answer(@, r)]
    /\ UNCHANGED collapsed

Collapse ==
    /\ collapsed' = TRUE
    /\ space' = Nothing /\ asked' = {}

Next == Ask \/ Change \/ Collapse

Spec == Init /\ [][Next]_vars
=============================================================================
