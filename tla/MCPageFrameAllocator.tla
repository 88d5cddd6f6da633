------------------------ MODULE MCPageFrameAllocator ------------------------
(***************************************************************************)
(* Two small machines.  Flat has 7 pages of memory and a bitmap of 8 bits, *)
(* so one bit lies past the memory.  Holed has memory above an address     *)
(* hole: 8 pages of memory, but pages numbered up to 9, and a bitmap of 16 *)
(* bits.                                                                   *)
(***************************************************************************)
EXTENDS PageFrameAllocator

Region(base, nPages, usable) == [base |-> base, nPages |-> nPages, usable |-> usable]

Flat == <<Region(0, 2, TRUE), Region(2, 1, FALSE), Region(3, 3, TRUE), Region(6, 1, FALSE)>>
Holed == <<Region(0, 2, TRUE), Region(2, 1, FALSE), Region(5, 5, TRUE)>>

MCEfiMaps == {Flat, Holed}

\* A frame buffer that overlaps the end of the bitmap, a device page in
\* usable memory, one past everything.
MCLockRanges == {<<6, 3>>, <<1, 1>>, <<40, 1>>}
=============================================================================
