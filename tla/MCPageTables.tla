----------------------------- MODULE MCPageTables -----------------------------
(***************************************************************************)
(* Tables of three entries, so that 81 pages exist.  Four machines: Large  *)
(* has pages enough to boot; on Full the last one goes to the heap; on     *)
(* Small they run out when the heap is made; on Tiny before the tables are *)
(* in force.                                                               *)
(***************************************************************************)
EXTENDS PageTables

Region(base, nPages, usable) == [base |-> base, nPages |-> nPages, usable |-> usable]

Large == <<Region(0, 2, TRUE), Region(2, 1, FALSE), Region(3, 33, TRUE)>>
Full == <<Region(0, 2, TRUE), Region(2, 1, FALSE), Region(3, 27, TRUE), Region(30, 1, FALSE)>>
Small == <<Region(0, 2, TRUE), Region(2, 1, FALSE), Region(3, 15, TRUE)>>
Tiny == <<Region(0, 2, TRUE), Region(2, 1, FALSE), Region(3, 4, TRUE)>>

MCEfiMaps == {Large, Full, Small, Tiny}
MCKernel == <<4, 1>>
MCFramebuffer == <<76, 1>>
=============================================================================
