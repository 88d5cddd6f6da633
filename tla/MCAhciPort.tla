------------------------------ MODULE MCAhciPort ------------------------------
(***************************************************************************)
(* A buffer of two sectors of two bytes, and five sectors that the low     *)
(* bytes of the address can name.  The reads need a rest only, two fills   *)
(* and a rest, one fill and nothing (as ReadBytes counts), one more sector *)
(* than they copy from, and a sector past LbaLow.                          *)
(***************************************************************************)
EXTENDS AhciPort

Whole(sector, count) == [bytes |-> FALSE, sector |-> sector, size |-> count]
Part(sector, count) == [bytes |-> TRUE, sector |-> sector, size |-> count]

MCRequests == {Whole(0, 1), Whole(0, 5), Part(2, 3), Part(0, 4), Whole(5, 1)}
=============================================================================
