--------------------------------- MODULE Disk ---------------------------------
(***************************************************************************)
(* What ATAPort::Read and ReadBytes (IO/AHCI.cpp) promise the rest of the  *)
(* kernel.  Reads are served one at a time.  The caller's buffer is filled *)
(* from its start with the bytes of the disk, in order, and none of them   *)
(* is written twice; the read then returns true, with every byte asked for *)
(* delivered, or false, with a first part of them.  A read of whole        *)
(* sectors writes nothing past what was asked for; ReadBytes may write up  *)
(* to a sector more.                                                       *)
(*                                                                         *)
(* Only sectors below Reach are promised: past it the bytes are any.       *)
(***************************************************************************)
EXTENDS Integers, Sequences

CONSTANTS Threads, Requests, NoRequest, SectorSize, Reach

VARIABLES
    asked,      \* for each thread the read it called, or NoRequest
    served,     \* the thread whose read is under way: one thread or none
    data,       \* for each thread what its buffer was filled with
    answer      \* for each thread "none", "true" or "false"

vars == <<asked, served, data, answer>>

Wanted(r) == IF r.bytes THEN r.size ELSE r.size * SectorSize

Surplus(r) == IF r.bytes THEN SectorSize ELSE 0

Reached(r) ==
    r.sector + (IF r.bytes THEN r.size \div SectorSize + 1 ELSE r.size) <= Reach

\* out may be in the buffer of a caller who asked for r.
Right(r, out) ==
    /\ Len(out) <= Wanted(r) + Surplus(r)
    /\ Reached(r) => \A x \in 1 .. Len(out) : out[x] = r.sector * SectorSize + x - 1

Extends(old, new) ==
    /\ Len(old) <= Len(new)
    /\ \A x \in 1 .. Len(old) : new[x] = old[x]

Init ==
    /\ asked = [t \in Threads |-> NoRequest]
    /\ served = {}
    /\ data = [t \in Threads |-> <<>>]
    /\ answer = [t \in Threads |-> "none"]

Ask(t) ==
    /\ asked[t] = NoRequest
    /\ \E r \in Requests : asked' = [asked EXCEPT ![t] = r]
    /\ UNCHANGED <<served, data, answer>>

Begin(t) ==
    /\ asked[t] # NoRequest
    /\ served = {} /\ served' = {t}
    /\ UNCHANGED <<asked, data, answer>>

\* More of the buffer is filled; the read may then be done.
Deliver(t, out) ==
    /\ t \in served /\ answer[t] = "none"
    /\ Extends(data[t], out) /\ Right(asked[t], out)
    /\ data' = [data EXCEPT ![t] = out]
    /\ \/ UNCHANGED answer
       \/ Len(out) >= Wanted(asked[t]) /\ answer' = [answer EXCEPT ![t] = "true"]
    /\ UNCHANGED <<asked, served>>

Refuse(t) ==
    /\ t \in served /\ answer[t] = "none"
    /\ answer' = [answer EXCEPT ![t] = "false"]
    /\ UNCHANGED <<asked, served, data>>

Return(t) ==
    /\ t \in served /\ answer[t] # "none"
    /\ asked' = [asked EXCEPT ![t] = NoRequest]
    /\ served' = {}
    /\ data' = [data EXCEPT ![t] = <<>>]
    /\ answer' = [answer EXCEPT ![t] = "none"]

Next == \E t \in Threads :
    Ask(t) \/ Begin(t) \/ Deliver(t, data'[t]) \/ Refuse(t) \/ Return(t)

Spec == Init /\ [][Next]_vars
=============================================================================
