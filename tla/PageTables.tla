------------------------------ MODULE PageTables ------------------------------
(***************************************************************************)
(* The kernel's page tables: Memory/PageTableManager.cpp over the page     *)
(* allocator, from InitializePaging (KernelUtils.cpp) through the heap's   *)
(* use of them to the drivers that map their registers.                    *)
(*                                                                         *)
(* A page is the tuple <<PDPi, PDi, PTi, Pi>> of PageMapIndexer, each      *)
(* index below Radix (512 in the code).  A call of MapMemory or            *)
(* SetVirtualFlag is a walk of one step for each level.  Calls do not      *)
(* overlap: boot is single threaded, and ExpandHeap runs under memoryLock. *)
(*                                                                         *)
(* A table is read and written at its physical address.  Until cr3 is      *)
(* loaded the firmware's tables, which map everything, are in force;       *)
(* afterwards an access succeeds only if these tables map the address to   *)
(* itself, and the page fault handler halts the machine if not.            *)
(*                                                                         *)
(* level and given are history variables: for every page that is a table,  *)
(* its level, 1 for PML4 to 4 for PT; and the pages RequestPage returned.  *)
(***************************************************************************)
EXTENDS Integers, Sequences, FiniteSets

CONSTANTS
    EfiMaps, LowPages, PageSize,    \* as in PageFrameAllocator
    Radix,          \* entries of a table
    FirstMapped,    \* first page mapped at boot, 16 in the code
    Kernel,         \* <<page, count>> of the kernel
    Framebuffer,    \* <<page, count>> of the frame buffer that is locked
    FramebufferMapped,  \* pages of it that are mapped, rounded the other way
    Impossible,     \* the page number ~0 >> 12, truncated to 40 bits
    HeapStart, HeapPages,   \* heap's first page and pages it has at boot
    Devices,        \* pages of device registers
    MaxHeap         \* pages ExpandHeap adds in all (bound)

ASSUME ParameterAssumption ==
    /\ Radix \in Nat \ {0}
    /\ FirstMapped \in Nat /\ LowPages \in Nat
    /\ Kernel \in Nat \X Nat /\ Framebuffer \in Nat \X Nat
    /\ FramebufferMapped \in {Framebuffer[2], Framebuffer[2] + 1}
    /\ Impossible \in Nat
    /\ HeapStart \in Nat /\ HeapPages \in Nat /\ MaxHeap \in Nat
    /\ Devices \subseteq Nat

VARIABLES
    efiMap, initialized, sizeBytes, pageBitmap, lastPageIndex,
    freeMemory, allocatedMemory, reservedMemory, held, runsUsed,
    stage,      \* how far InitializePaging has come
    pml4,       \* PML4
    tables,     \* the contents of the pages that are tables
    cr3,        \* these tables are in force
    calls,      \* calls to be made, in order
    walk,       \* the call under way: level (0: none), table, frame
    heapEnd,
    fault,      \* a page fault halted the machine
    level, given

allocator == <<efiMap, initialized, sizeBytes, pageBitmap, lastPageIndex,
               freeMemory, allocatedMemory, reservedMemory, held, runsUsed, given>>
paging == <<stage, pml4, tables, cr3, calls, walk, heapEnd, fault, level>>
vars == <<allocator, paging>>

PFA == INSTANCE PageFrameAllocator
           WITH LockRanges <- {Kernel, Framebuffer}, RunLengths <- {}

ASSUME MapAssumption == \A map \in EfiMaps : PFA!CalculateMemorySize(map) \in Nat

Index == 0 .. Radix - 1
Page == Index \X Index \X Index \X Index
Flag == {"Present", "ReadWrite", "UserSuper", "NX"}

\* Mutant of PageOf: the bits above the first index are not masked off.
PageUnmasked(n) ==
    <<n \div (Radix * Radix * Radix), (n \div (Radix * Radix)) % Radix,
      (n \div Radix) % Radix, n % Radix>>

\* PageMapIndexer: the digits of a page number; higher bits are dropped.
PageOf(n) ==
    <<(n \div (Radix * Radix * Radix)) % Radix, (n \div (Radix * Radix)) % Radix,
      (n \div Radix) % Radix, n % Radix>>

\* What lies where: the memory after its first pages, the frame buffer and the
\* devices, mapped to themselves, and the heap, from 16 TiB on in the code.
MemoryPages(map) == FirstMapped .. PFA!CalculateMemorySize(map) - 1
FramebufferPages == Framebuffer[1] .. Framebuffer[1] + FramebufferMapped - 1
HeapNumbers == HeapStart .. HeapStart + HeapPages + MaxHeap - 1
SelfMapped(map) == MemoryPages(map) \cup FramebufferPages \cup Devices

\* The numbers that are mapped name different pages, the heap's are nobody
\* else's, and the guarded pages are not memory that is mapped; that memory
\* begins within the low pages, which are kept from use.
ASSUME LayoutAssumption ==
    /\ FirstMapped <= LowPages
    /\ \A map \in EfiMaps :
         /\ \A m, n \in SelfMapped(map) \cup {0, Impossible} \cup HeapNumbers :
              PageOf(m) = PageOf(n) => m = n
         /\ HeapNumbers \cap (SelfMapped(map) \cup {0, Impossible}) = {}
         /\ MemoryPages(map) \cap {0, Impossible} = {}

\* A page directory entry, and a table after memset64.
Entry == [address : Nat, flags : SUBSET Flag]
NoEntry == [address |-> 0, flags |-> {}]
Cleared == [i \in Index |-> NoEntry]
Present(e) == "Present" \in e.flags

\* Mutant of Fresh: no memset64, an entry of the page happens to look present.
Stale == [i \in Index |-> [address |-> pml4, flags |-> {"Present"}]]
Fresh == Cleared

\* SetAddress and SetFlag, and what both give for a table and for a page.
\* Mutant of SetFlag: the other flags are lost.
SetOnly(e, flag) == [e EXCEPT !.flags = {flag}]
SetFlag(e, flag) == [e EXCEPT !.flags = @ \cup {flag}]
Mapped(e, address) ==
    SetFlag(SetFlag([e EXCEPT !.address = address], "Present"), "ReadWrite")

-----------------------------------------------------------------------------
(***************************************************************************)
(* What the processor does with the tables.                                *)
(***************************************************************************)
Lookup(t, i) == IF t \in DOMAIN tables THEN tables[t][i] ELSE NoEntry
Below(t, i) == IF Present(Lookup(t, i)) THEN Lookup(t, i).address ELSE -1

PDP(p) == Below(pml4, p[1])
PD(p) == Below(PDP(p), p[2])
PT(p) == Below(PD(p), p[3])
Translate(p) == Lookup(PT(p), p[4])

Accessible(f) == cr3 => /\ Present(Translate(PageOf(f)))
                        /\ Translate(PageOf(f)).address = f

-----------------------------------------------------------------------------
Init ==
    /\ PFA!Init
    /\ stage = "memory map"
    /\ pml4 = -1
    /\ tables = [t \in {} |-> Cleared]
    /\ cr3 = FALSE
    /\ calls = <<>>
    /\ walk = [level |-> 0, table |-> 0, frame |-> 0]
    /\ heapEnd = HeapStart
    /\ fault = FALSE
    /\ level = [t \in {} |-> 0]
    /\ given = {}

\* RequestPage returns page f, or nullptr.
Request(f) ==
    /\ PFA!RequestPage
    /\ IF PFA!Candidates = {} THEN f = 0
       ELSE f \in PFA!Candidates /\ \A x \in PFA!Candidates : f <= x
    /\ given' = given \cup ({f} \ {0})

Cell(f, contents) ==
    [t \in DOMAIN tables \cup {f} |-> IF t = f THEN contents ELSE tables[t]]

MapCall(n, frame) == [op |-> "map", page |-> PageOf(n), frame |-> frame, flag |-> "Present"]
FlagCall(n, flag) == [op |-> "flag", page |-> PageOf(n), frame |-> 0, flag |-> flag]
HeapCall(n) == [op |-> "heap", page |-> PageOf(n), frame |-> 0, flag |-> "Present"]
LoadCr3 == [op |-> "load", page |-> PageOf(0), frame |-> 0, flag |-> "Present"]

\* Mutant of MappedToItself: the last page of memory is forgotten.
AllButLast(memorySize) ==
    [k \in 1 .. memorySize - FirstMapped - 1 |-> MapCall(FirstMapped + k - 1, FirstMapped + k - 1)]

MappedToItself(memorySize) ==
    [k \in 1 .. memorySize - FirstMapped |-> MapCall(FirstMapped + k - 1, FirstMapped + k - 1)]

\* The frame buffer page by page: MapMemory, SetVirtualFlag twice.
FramebufferCalls ==
    [k \in 1 .. 3 * FramebufferMapped |->
        LET n == Framebuffer[1] + (k - 1) \div 3
        IN  CASE k % 3 = 1 -> MapCall(n, n)
              [] k % 3 = 2 -> FlagCall(n, "Present")
              [] k % 3 = 0 -> FlagCall(n, "ReadWrite")]

Guarded(n) == <<MapCall(n, Impossible), FlagCall(n, "NX"),
                FlagCall(n, "UserSuper"), FlagCall(n, "ReadWrite")>>

HeapCalls(first, count) == [k \in 1 .. count |-> HeapCall(first + k - 1)]

(***************************************************************************)
(* InitializePaging, and InitializeHeap's pages after it.                  *)
(***************************************************************************)
ReadEfiMemoryMap ==
    /\ stage = "memory map" /\ stage' = "frame buffer"
    /\ PFA!ReadEfiMemoryMap
    /\ UNCHANGED <<pml4, tables, cr3, calls, walk, heapEnd, fault, level, given>>

LockFramebuffer ==
    /\ stage = "frame buffer" /\ stage' = "kernel"
    /\ PFA!LockPages(Framebuffer)
    /\ UNCHANGED <<pml4, tables, cr3, calls, walk, heapEnd, fault, level, given>>

LockKernel ==
    /\ stage = "kernel" /\ stage' = "tables"
    /\ PFA!LockPages(Kernel)
    /\ UNCHANGED <<pml4, tables, cr3, calls, walk, heapEnd, fault, level, given>>

NewTables ==
    /\ stage = "tables" /\ stage' = "running"
    /\ \E f \in Nat \cap ({0} \cup PFA!Candidates) :
         /\ Request(f)
         /\ pml4' = f
         /\ tables' = Cell(f, Cleared)
         /\ level' = [t \in {f} |-> 1]
    /\ calls' = MappedToItself(PFA!CalculateMemorySize(efiMap)) \o FramebufferCalls
                \o Guarded(0) \o Guarded(Impossible) \o <<LoadCr3>>
                \o HeapCalls(HeapStart, HeapPages)
    /\ heapEnd' = HeapStart + HeapPages
    /\ UNCHANGED <<cr3, walk, fault>>

Load ==
    /\ walk.level = 0 /\ calls # <<>>
    /\ Head(calls).op = "load"
    /\ cr3' = TRUE
    /\ calls' = Tail(calls)
    /\ UNCHANGED <<allocator, stage, pml4, tables, walk, heapEnd, fault, level>>

-----------------------------------------------------------------------------
(***************************************************************************)
(* MapMemory and SetVirtualFlag.  ExpandHeap and InitializeHeap request    *)
(* the page to be mapped before MapMemory runs and clear it after.         *)
(***************************************************************************)
Call == Head(calls)

Begin ==
    /\ ~fault /\ walk.level = 0 /\ calls # <<>>
    /\ Call.op \in {"map", "flag"}
    /\ walk' = [level |-> 1, table |-> pml4, frame |-> Call.frame]
    /\ UNCHANGED <<allocator, stage, pml4, tables, cr3, calls, heapEnd, fault, level>>

BeginHeap ==
    /\ ~fault /\ walk.level = 0 /\ calls # <<>>
    /\ Call.op = "heap"
    /\ \E f \in Nat \cap ({0} \cup PFA!Candidates) :
         Request(f) /\ walk' = [level |-> 1, table |-> pml4, frame |-> f]
    /\ UNCHANGED <<stage, pml4, tables, cr3, calls, heapEnd, fault, level>>

Slot == Call.page[walk.level]
Current == Lookup(walk.table, Slot)

Walking == ~fault /\ walk.level \in 1 .. 3 /\ Accessible(walk.table)

Descend ==
    /\ Walking /\ Present(Current)
    /\ walk' = [walk EXCEPT !.level = @ + 1, !.table = Current.address]
    /\ UNCHANGED <<allocator, stage, pml4, tables, cr3, calls, heapEnd, fault, level>>

\* A missing table.  nullptr is not tested for: with the firmware's tables
\* page 0 itself becomes the table.
AddTable ==
    /\ Walking /\ ~Present(Current)
    /\ \E f \in Nat \cap ({0} \cup PFA!Candidates) :
         /\ Request(f)
         /\ Accessible(f)
         /\ tables' = [Cell(f, Fresh) EXCEPT ![walk.table][Slot] = Mapped(Current, f)]
         /\ level' = [t \in DOMAIN level \cup {f} |-> IF t = f THEN walk.level + 1 ELSE level[t]]
         /\ walk' = [walk EXCEPT !.level = @ + 1, !.table = f]
    /\ UNCHANGED <<stage, pml4, cr3, calls, heapEnd, fault>>

\* What the last entry becomes, and the memset64 of a heap page after it.
NewEntry == IF Call.op = "flag" THEN SetFlag(Current, Call.flag)
                                ELSE Mapped(Current, walk.frame)

Finish ==
    /\ ~fault /\ walk.level = 4 /\ Accessible(walk.table)
    /\ LET written == [tables EXCEPT ![walk.table][Slot] = NewEntry]
       IN  tables' = IF Call.op = "heap" /\ walk.frame \in DOMAIN tables
                     THEN [written EXCEPT ![walk.frame] = Cleared] ELSE written
    /\ calls' = Tail(calls)
    /\ walk' = [walk EXCEPT !.level = 0]
    /\ UNCHANGED <<allocator, stage, pml4, cr3, heapEnd, fault, level>>

\* hPageFault: a table, or the page that is to become one, is not where the
\* tables in force have it.
PageFault ==
    /\ ~fault /\ walk.level # 0
    /\ \/ ~Accessible(walk.table) /\ UNCHANGED allocator
       \/ /\ Walking /\ ~Present(Current)
          /\ \E f \in Nat \cap ({0} \cup PFA!Candidates) : Request(f) /\ ~Accessible(f)
    /\ fault' = TRUE
    /\ UNCHANGED <<stage, pml4, tables, cr3, calls, walk, heapEnd, level>>

(***************************************************************************)
(* The callers once the kernel runs.                                       *)
(***************************************************************************)
Idle == stage = "running" /\ ~fault /\ walk.level = 0 /\ calls = <<>>

\* Mutant of ExpandHeap: the heap's last page is mapped once more.
ExpandHeapAgain(count) ==
    /\ Idle
    /\ heapEnd + count <= HeapStart + HeapPages + MaxHeap
    /\ calls' = HeapCalls(heapEnd - 1, count + 1)
    /\ heapEnd' = heapEnd + count
    /\ UNCHANGED <<allocator, stage, pml4, tables, cr3, walk, fault, level>>

ExpandHeap(count) ==
    /\ Idle
    /\ heapEnd + count <= HeapStart + HeapPages + MaxHeap
    /\ calls' = HeapCalls(heapEnd, count)
    /\ heapEnd' = heapEnd + count
    /\ UNCHANGED <<allocator, stage, pml4, tables, cr3, walk, fault, level>>

\* EnumerateFunction, AHCIDriver, XHCIDriver, IOAPIC, InitializeLAPIC: the
\* device's page is mapped to itself.  LockPage then changes nothing: the
\* page is beyond the bitmap or, not being memory the firmware called usable,
\* marked since boot.  (The few bits behind the memory that are left clear
\* are taken for no device's.)
MapDevice(device) ==
    /\ Idle
    /\ calls' = <<MapCall(device, device)>>
    /\ UNCHANGED <<allocator, stage, pml4, tables, cr3, walk, heapEnd, fault, level>>

Next ==
    \/ ReadEfiMemoryMap \/ LockFramebuffer \/ LockKernel \/ NewTables \/ Load
    \/ Begin \/ BeginHeap \/ Descend \/ AddTable \/ Finish \/ PageFault
    \/ \E count \in 1 .. MaxHeap : ExpandHeap(count)
    \/ \E device \in Devices : MapDevice(device)

Spec == Init /\ [][Next]_vars

-----------------------------------------------------------------------------
TypeOK ==
    /\ stage \in {"memory map", "frame buffer", "kernel", "tables", "running"}
    /\ pml4 \in Nat \cup {-1}
    /\ cr3 \in BOOLEAN /\ fault \in BOOLEAN
    /\ DOMAIN tables \subseteq Nat
    /\ \A t \in DOMAIN tables : tables[t] \in [Index -> Entry]
    /\ walk \in [level : 0 .. 4, table : Nat \cup {-1}, frame : Nat]
    /\ calls \in Seq([op : {"map", "flag", "heap", "load"}, page : Page,
                      frame : Nat, flag : Flag])
    /\ heapEnd \in Nat
    /\ DOMAIN level = DOMAIN tables /\ \A t \in DOMAIN level : level[t] \in 1 .. 4
    /\ given \subseteq Nat \ {0}

\* RequestPage had nothing left when a table was needed before cr3 was loaded:
\* page 0 is a table, and may be several.
Collapsed == 0 \in DOMAIN tables

\* Everybody that refers to page f: PML4, an entry of an upper table, a page
\* of the heap, the walk that is about to map it into the heap.
Users(f) ==
    {<<"pml4", 0, 0>> : x \in {pml4} \cap {f}}
    \cup {<<"entry", e[1], e[2]>> : e \in
            {e \in (DOMAIN tables) \X Index : level[e[1]] < 4 /\ Below(e[1], e[2]) = f}}
    \cup {<<"heap", n, 0>> : n \in
            {n \in HeapStart .. heapEnd - 1 : Below(PT(PageOf(n)), PageOf(n)[4]) = f}}
    \cup {<<"walk", 0, 0>> : x \in
            {x \in {0} : walk.level # 0 /\ Call.op = "heap" /\ walk.frame = f}}

\* Every page that RequestPage returned is one table or one page of the heap,
\* entered in exactly one place: none is lost and none is used twice.  A page
\* that it did not return, be it free, reserved or locked, is neither.
OwnedOnce ==
    stage = "running" /\ ~Collapsed /\ ~fault =>
        \A f \in PFA!Bits \ {0} : Cardinality(Users(f)) = IF f \in given THEN 1 ELSE 0

\* Once the tables are in force each of them can be reached at its own
\* address, by the next MapMemory, except a page behind the memory that
\* InitializePaging counted: the bitmap has such bits and they read as free.
Reachable ==
    cr3 /\ ~Collapsed =>
        \A t \in DOMAIN tables :
            t < PFA!CalculateMemorySize(efiMap) => Accessible(t)

\* The tables are a flat table from pages to addresses, as AddressSpace has
\* it, until they collapse.
Promise == INSTANCE AddressSpace
    WITH Address <- Nat,
         asked <- IF Collapsed \/ walk.level = 0 THEN {}
                  ELSE {[op |-> IF Call.op = "flag" THEN "flag" ELSE "map",
                         page |-> Call.page, address |-> walk.frame, flag |-> Call.flag]},
         space <- [p \in Page |-> IF Collapsed THEN NoEntry ELSE Translate(p)],
         collapsed <- Collapsed

Implements == Promise!Spec
=============================================================================
