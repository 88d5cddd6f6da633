-------------------------- MODULE PageFrameAllocator --------------------------
(***************************************************************************)
(* The physical page allocator: Memory/PageFrameAllocator.cpp over the     *)
(* bitmap of BitMap.cpp.  Addresses are page numbers and amounts are       *)
(* counted in pages.                                                       *)
(*                                                                         *)
(* pageBitmap is the set of the indices whose bit is 1.  BitMap::Get and   *)
(* BitMap::Set refuse an index only when it is GREATER than the number of  *)
(* bits (BitMap.cpp:5 and :21), so one bit more than the bitmap owns can   *)
(* be read and written: the top bit of the byte after the buffer, which    *)
(* memset64 does not clear and whose first value is therefore arbitrary.   *)
(*                                                                         *)
(* The three counters of the code are u64 that are only added to,          *)
(* subtracted from and returned.  They are kept here as integers equal to  *)
(* the code's values modulo 2^64: a negative one is a counter that wrapped.*)
(*                                                                         *)
(* held is a history variable: the pages that RequestPage(s) returned or   *)
(* LockPage(s) took and that no FreePage(s) has given back.  runsUsed      *)
(* records that RequestPages, which no code of the kernel calls yet, ran.  *)
(***************************************************************************)
EXTENDS Integers, Sequences, FiniteSets, FiniteSetsExt

CONSTANTS
    EfiMaps,      \* memory maps the firmware may hand over
    LowPages,     \* pages below 1 MiB kept from use, 0x100 in the code
    PageSize,     \* PAGE_SIZE in bytes, as far as the bitmap's own size goes
    LockRanges,   \* ranges <<page, count>> the kernel and the drivers lock
    RunLengths    \* page counts RequestPages is called with

(***************************************************************************)
(* A memory map is a sequence of EfiMemoryDescriptors.                     *)
(***************************************************************************)
Pages(base, count) == base .. base + count - 1

Usable(map) == {x \in DOMAIN map : map[x].usable}

UsablePages(map) == UNION {Pages(map[x].base, map[x].nPages) : x \in Usable(map)}

CalculateMemorySize(map) == MapThenSumSet(LAMBDA x : map[x].nPages, DOMAIN map)

\* The first of the largest usable regions, nullptr when there is none.
LargestRegion(map) ==
    LET candidates == {x \in Usable(map) : map[x].nPages > 0}
        larger(x, y) == \/ map[x].nPages > map[y].nPages
                        \/ map[x].nPages = map[y].nPages /\ x <= y
    IN  IF candidates = {} THEN 0
        ELSE map[CHOOSE x \in candidates : \A y \in candidates : larger(x, y)].base

ASSUME MapAssumption ==
    \A map \in EfiMaps : /\ CalculateMemorySize(map) \in Nat
                         /\ LargestRegion(map) \in Nat
                         /\ UsablePages(map) \subseteq Nat

ASSUME ParameterAssumption ==
    /\ LowPages \in Nat
    /\ PageSize \in Nat \ {0}
    /\ LockRanges \subseteq Nat \X Nat
    /\ RunLengths \subseteq Nat \ {0}

VARIABLES
    efiMap,          \* the memory map of this machine, never changed
    initialized,     \* Initialized
    sizeBytes,       \* PageBitmap.SizeBytes
    pageBitmap,
    lastPageIndex,   \* LastPageIndex: where RequestPage(s) starts looking
    freeMemory, allocatedMemory, reservedMemory,
    held, runsUsed

vars == <<efiMap, initialized, sizeBytes, pageBitmap, lastPageIndex,
          freeMemory, allocatedMemory, reservedMemory, held, runsUsed>>

SizeBits == sizeBytes * 8
Bits == 0 .. SizeBits           \* the indices Get and Set accept

Init ==
    /\ efiMap \in EfiMaps
    /\ initialized = FALSE
    /\ sizeBytes = 0
    /\ pageBitmap = {}
    /\ lastPageIndex = 0
    /\ freeMemory = 0 /\ allocatedMemory = 0 /\ reservedMemory = 0
    /\ held = {}
    /\ runsUsed = FALSE

(***************************************************************************)
(* Boot.  Everything up to the sum of the descriptors is reserved, the     *)
(* usable regions are released, the low megabyte is reserved again and the *)
(* bitmap's own pages are locked.  stray is what the byte after the bitmap *)
(* holds.                                                                  *)
(***************************************************************************)
ReadEfiMemoryMap ==
    /\ ~initialized
    /\ initialized' = TRUE
    /\ LET memorySize == CalculateMemorySize(efiMap)
           size == (memorySize \div 8) + 1
           indices == 0 .. size * 8
           bitmapPages == Pages(LargestRegion(efiMap), (size \div PageSize) + 1)
       IN  \E stray \in SUBSET {size * 8} :
             LET reserved == stray \cup Pages(0, memorySize)
                 released == reserved \cap UsablePages(efiMap)
                 low == (Pages(0, LowPages) \cap indices) \ (reserved \ released)
                 own == (bitmapPages \cap indices) \ ((reserved \ released) \cup low)
             IN  /\ sizeBytes' = size
                 /\ pageBitmap' = (reserved \ released) \cup low \cup own
                 /\ freeMemory' = Cardinality(released) - Cardinality(low)
                                                        - Cardinality(own)
                 /\ reservedMemory' = memorySize - Cardinality(released)
                                                 + Cardinality(low)
                 /\ allocatedMemory' = Cardinality(own)
                 /\ held' = own
    /\ UNCHANGED <<efiMap, lastPageIndex, runsUsed>>

\* Mutant of Takes: without BitMap::Set's test of the index.
TakesAnywhere(S) == S \ pageBitmap

\* The pages of S that LockPage, called on each, marks: those whose bit is
\* clear and that the bitmap covers.
Takes(S) == (S \cap Bits) \ pageBitmap

Lock(S) ==
    /\ pageBitmap' = pageBitmap \cup Takes(S)
    /\ freeMemory' = freeMemory - Cardinality(Takes(S))
    /\ allocatedMemory' = allocatedMemory + Cardinality(Takes(S))

\* LockPage and LockPages of a range that firmware or a device gave.
LockPages(range) ==
    /\ initialized
    /\ Lock(Pages(range[1], range[2]))
    /\ held' = held \cup Takes(Pages(range[1], range[2]))
    /\ UNCHANGED <<efiMap, initialized, sizeBytes, lastPageIndex, reservedMemory, runsUsed>>

\* Mutant of Candidates: without the test of the bit.
AnyCandidate == lastPageIndex .. SizeBits - 1

\* The clear bits RequestPage and RequestPages look at.
Candidates == {x \in lastPageIndex .. SizeBits - 1 : x \notin pageBitmap}

\* The search ran off the bitmap: nullptr, with the hint left at the end.
RequestFails ==
    /\ lastPageIndex' = SizeBits
    /\ UNCHANGED <<efiMap, initialized, sizeBytes, pageBitmap, freeMemory,
                   allocatedMemory, reservedMemory, held>>

RequestPage ==
    /\ initialized
    /\ UNCHANGED runsUsed
    /\ \/ \E page \in Candidates :
            /\ \A x \in Candidates : page <= x
            /\ lastPageIndex' = page
            /\ Lock({page})
            /\ held' = held \cup {page}
            /\ UNCHANGED <<efiMap, initialized, sizeBytes, reservedMemory>>
       \/ Candidates = {} /\ RequestFails

(***************************************************************************)
(* RequestPages(pages): the first run of clear bits.  A bit beyond the     *)
(* bitmap reads as clear, so the run may stick out; the part of it that    *)
(* has no bit cannot be marked.                                            *)
(***************************************************************************)
RequestPages(pages) ==
    LET starts == {x \in Candidates : Pages(x, pages) \cap pageBitmap = {}}
    IN  /\ initialized
        /\ runsUsed' = TRUE
        /\ \/ \E first \in starts :
                /\ \A x \in starts : first <= x
                /\ lastPageIndex' = first
                /\ Lock(Pages(first, pages))
                /\ held' = held \cup Pages(first, pages)
                /\ UNCHANGED <<efiMap, initialized, sizeBytes, reservedMemory>>
           \/ starts = {} /\ RequestFails

(***************************************************************************)
(* FreePage and FreePages: of pages that are held, and of pages that are   *)
(* free already, which they pass over.  Pages that are reserved are never  *)
(* given to them: FreePage does not tell these from held ones.  The hint   *)
(* moves back to the lowest page freed.                                    *)
(***************************************************************************)
HintKept(freed) == lastPageIndex    \* mutant: the hint is not moved

HintAfterFree(freed) ==
    IF \A x \in freed : x >= lastPageIndex THEN lastPageIndex ELSE Min(freed)

FreedAgain(S) == S \cap Bits        \* mutant of Freed: without the test of the bit

Freed(S) == S \cap pageBitmap

FreePages(first, count) ==
    LET freed == Freed(Pages(first, count))
    IN  /\ initialized
        /\ count > 0
        /\ Pages(first, count) \cap pageBitmap \subseteq held
        /\ pageBitmap' = pageBitmap \ freed
        /\ freeMemory' = freeMemory + Cardinality(freed)
        /\ allocatedMemory' = allocatedMemory - Cardinality(freed)
        /\ lastPageIndex' = HintAfterFree(freed)
        /\ held' = held \ Pages(first, count)
        /\ UNCHANGED <<efiMap, initialized, sizeBytes, reservedMemory, runsUsed>>

Next ==
    \/ ReadEfiMemoryMap
    \/ \E range \in LockRanges : LockPages(range)
    \/ RequestPage
    \/ \E pages \in RunLengths : RequestPages(pages)
    \/ \E first \in Bits : \E count \in {1} \cup RunLengths : FreePages(first, count)

Spec == Init /\ [][Next]_vars

-----------------------------------------------------------------------------
TypeOK ==
    /\ efiMap \in EfiMaps
    /\ initialized \in BOOLEAN
    /\ sizeBytes \in Nat
    /\ pageBitmap \in SUBSET Bits
    /\ lastPageIndex \in 0 .. SizeBits
    /\ freeMemory \in Int /\ allocatedMemory \in Int /\ reservedMemory \in Int
    /\ held \in SUBSET Nat
    /\ runsUsed \in BOOLEAN

\* What the three counters report adds up to the machine's memory, and
\* AllocatedMemory is the number of pages somebody holds (those that have a
\* bit): no sequence of LockPage, RequestPage(s) and FreePage(s) makes the
\* figures of GetFreeRAM, GetAllocatedRAM and GetReservedRAM drift apart.
Accounting ==
    initialized =>
        /\ freeMemory + allocatedMemory + reservedMemory = CalculateMemorySize(efiMap)
        /\ allocatedMemory = Cardinality(held \cap Bits)

\* As long as pages are only requested one at a time, LastPageIndex is a sound
\* hint: nothing below it is free, so RequestPage returns nullptr only when
\* every page the bitmap covers is taken.  (RequestPages moves the hint past
\* free pages that are too few for its run, and RequestPage then never sees
\* them again.)
HintSound ==
    ~runsUsed => \A x \in Bits : x < lastPageIndex => x \in pageBitmap

\* A page that is handed out is marked, stays marked until its holder frees
\* it, and is never one that is reserved or that somebody else holds.
HandOut ==
    /\ \A x \in held' \ held : x \in Bits => x \notin pageBitmap
    /\ \A x \in held \cap held' : x \in Bits => x \in pageBitmap'

HandedOutOnce == [][HandOut]_vars

\* PageFrameAllocator.cpp:203 "Reserve all memory": once the memory map is
\* read, what is left free is memory the firmware called usable.
FreeIsUsable ==
    initialized => \A x \in Pages(0, SizeBits) :
                       x \in pageBitmap \/ x \in UsablePages(efiMap)

\* PageFrameAllocator.cpp:64 "LastPageIndex is valid for the number of pages
\* requested, so we lock da pages": every page of a run that RequestPages
\* returns is locked in the bitmap.
RunsAreLocked == held \subseteq pageBitmap
=============================================================================
