----------------------- MODULE PageFrameAllocatorProofs -----------------------
(***************************************************************************)
(* The inductive invariant of the page allocator and what follows from it, *)
(* for every memory map, every set of locked ranges and every run length.  *)
(***************************************************************************)
EXTENDS PageFrameAllocator, FiniteSetTheorems, WellFoundedInduction, TLAPS

\* Before the memory map is read the counters are zero and no page is held.
Unread == ~initialized =>
    /\ sizeBytes = 0 /\ pageBitmap = {} /\ lastPageIndex = 0 /\ held = {}
    /\ freeMemory = 0 /\ allocatedMemory = 0 /\ reservedMemory = 0

\* A held page that has a bit is marked.
HeldMarked == \A x \in held : x \in Bits => x \in pageBitmap

IInv == TypeOK /\ Unread /\ HeldMarked /\ Accounting /\ HintSound

-----------------------------------------------------------------------------
\* BitMap::Get and Set accept finitely many indices.
LEMMA BitsFinite == ASSUME sizeBytes \in Nat PROVE IsFiniteSet(Bits)
  BY FS_Interval DEF Bits, SizeBits

\* Ranges of pages are finite sets of naturals.
LEMMA PagesFinite ==
  ASSUME NEW base \in Nat, NEW count \in Nat
  PROVE  IsFiniteSet(Pages(base, count)) /\ Pages(base, count) \subseteq Nat
  BY FS_Interval DEF Pages

\* Every nonempty set of naturals has a least element.
LEMMA LeastOfNaturals ==
  ASSUME NEW S \in SUBSET Nat, S # {}
  PROVE  \E x \in S : \A y \in S : x <= y
<1> DEFINE R == OpToRel(LAMBDA x, y : x < y, Nat)
<1>1. IsWellFoundedOn(R, Nat)
  BY NatLessThanWellFounded
<1>2. PICK x \in S : \A y \in S : ~(<<y, x>> \in R)
  <2> HIDE DEF R
  <2>1. QED BY <1>1, WFMin
<1>3. \A y \in S : ~(y < x)
  BY <1>2 DEF OpToRel
<1>4. QED BY <1>3

\* The number of marked pages is a natural: any subset of Bits is finite.
LEMMA CardinalityInBits ==
  ASSUME sizeBytes \in Nat, NEW S
  PROVE  /\ IsFiniteSet(S \cap Bits)
         /\ Cardinality(S \cap Bits) \in Nat
<1>1. IsFiniteSet(S \cap Bits)
  BY BitsFinite, FS_Intersection
<1>2. QED BY <1>1, FS_CardinalityType

\* Locking the pages of S and recording as held some pages H whose part in
\* the bitmap is what was taken keeps the accounts.
LEMMA LockKeepsAccounting ==
  ASSUME TypeOK, HeldMarked, Accounting, initialized,
         NEW S, NEW H, Lock(S), H \cap Bits = Takes(S),
         held' = held \cup H,
         UNCHANGED <<efiMap, initialized, sizeBytes, reservedMemory>>
  PROVE  /\ Accounting' /\ HeldMarked'
         /\ pageBitmap' \in SUBSET Bits
         /\ freeMemory' \in Int /\ allocatedMemory' \in Int
<1> DEFINE before == held \cap Bits
<1>1. Bits' = Bits
  BY DEF Bits, SizeBits
<1>2. IsFiniteSet(before) /\ IsFiniteSet(Takes(S)) /\ Cardinality(Takes(S)) \in Nat
      /\ Cardinality(before) \in Nat
  BY CardinalityInBits DEF TypeOK, Takes
<1>3. before \cap Takes(S) = {}
  BY DEF HeldMarked, Takes
<1>4. (held \cap Bits)' = before \cup Takes(S)
  BY <1>1
<1>5. Cardinality(before \cup Takes(S)) = Cardinality(before) + Cardinality(Takes(S))
  BY <1>2, <1>3, FS_Union, FS_EmptySet
<1>6. Accounting'
  <2>1. /\ freeMemory + allocatedMemory + reservedMemory = CalculateMemorySize(efiMap)
        /\ allocatedMemory = Cardinality(before)
        /\ freeMemory \in Int /\ allocatedMemory \in Int /\ reservedMemory \in Int
    BY DEF Accounting, TypeOK
  <2>2. /\ freeMemory' = freeMemory - Cardinality(Takes(S))
        /\ allocatedMemory' = allocatedMemory + Cardinality(Takes(S))
        /\ reservedMemory' = reservedMemory
    BY DEF Lock
  <2>3. allocatedMemory' = Cardinality((held \cap Bits)')
    BY <1>4, <1>5, <2>1, <2>2
  <2>4. freeMemory' + allocatedMemory' + reservedMemory'
          = freeMemory + allocatedMemory + reservedMemory
    BY <1>2, <2>1, <2>2
  <2>5. QED BY <2>1, <2>3, <2>4 DEF Accounting
<1>7. HeldMarked'
  BY <1>1 DEF HeldMarked, Lock, Takes
<1>8. QED
  BY <1>1, <1>2, <1>6, <1>7 DEF Lock, Takes, TypeOK

\* Init establishes the invariant.
LEMMA InitInv == Init => IInv
<1> SUFFICES ASSUME Init PROVE IInv
  OBVIOUS
<1>1. initialized = FALSE /\ runsUsed = FALSE
  BY DEF Init
<1>2. Bits = 0 .. 0 /\ SizeBits = 0
  BY DEF Init, Bits, SizeBits
<1>3. TypeOK
  <2>1. initialized \in BOOLEAN /\ runsUsed \in BOOLEAN
    BY <1>1
  <2>2. lastPageIndex \in 0 .. SizeBits
    BY <1>2 DEF Init
  <2>3. QED BY <2>1, <2>2 DEF TypeOK, Init
<1>4. Accounting
  BY <1>1 DEF Accounting
<1>5. HintSound
  BY <1>2 DEF HintSound, Init
<1>6. QED BY <1>3, <1>4, <1>5 DEF IInv, Unread, HeldMarked, Init

-----------------------------------------------------------------------------
\* Reading the memory map at boot.
LEMMA ReadEfiMemoryMapInv == IInv /\ ReadEfiMemoryMap => IInv'
<1> SUFFICES ASSUME IInv, ReadEfiMemoryMap PROVE IInv'
  OBVIOUS
<1> DEFINE memorySize == CalculateMemorySize(efiMap)
           size == (memorySize \div 8) + 1
           indices == 0 .. size * 8
           bitmapPages == Pages(LargestRegion(efiMap), (size \div PageSize) + 1)
<1>1. memorySize \in Nat /\ LargestRegion(efiMap) \in Nat /\ efiMap \in EfiMaps
  BY MapAssumption DEF IInv, TypeOK
<1>2. size \in Nat /\ memorySize < size * 8
  BY <1>1
<1>3. PICK stray \in SUBSET {size * 8} :
        LET reserved == stray \cup Pages(0, memorySize)
            released == reserved \cap UsablePages(efiMap)
            low == (Pages(0, LowPages) \cap indices) \ (reserved \ released)
            own == (bitmapPages \cap indices) \ ((reserved \ released) \cup low)
        IN  /\ sizeBytes' = size
            /\ pageBitmap' = (reserved \ released) \cup low \cup own
            /\ freeMemory' = Cardinality(released) - Cardinality(low) - Cardinality(own)
            /\ reservedMemory' = memorySize - Cardinality(released) + Cardinality(low)
            /\ allocatedMemory' = Cardinality(own)
            /\ held' = own
  BY DEF ReadEfiMemoryMap
<1> DEFINE reserved == stray \cup Pages(0, memorySize)
           released == reserved \cap UsablePages(efiMap)
           low == (Pages(0, LowPages) \cap indices) \ (reserved \ released)
           own == (bitmapPages \cap indices) \ ((reserved \ released) \cup low)
<1>4. /\ sizeBytes' = size
      /\ pageBitmap' = (reserved \ released) \cup low \cup own
      /\ freeMemory' = Cardinality(released) - Cardinality(low) - Cardinality(own)
      /\ reservedMemory' = memorySize - Cardinality(released) + Cardinality(low)
      /\ allocatedMemory' = Cardinality(own)
      /\ held' = own
      /\ efiMap' = efiMap /\ lastPageIndex' = lastPageIndex /\ initialized' = TRUE
      /\ runsUsed' = runsUsed
  BY <1>3 DEF ReadEfiMemoryMap
<1>5. Bits' = indices
  BY <1>4 DEF Bits, SizeBits
<1>6. reserved \subseteq indices /\ low \subseteq indices /\ own \subseteq indices
      /\ released \subseteq indices
  <2>1. Pages(0, memorySize) \subseteq indices
    BY <1>1, <1>2 DEF Pages
  <2>2. stray \subseteq indices
    BY <1>2
  <2>3. QED BY <2>1, <2>2
<1>7. /\ Cardinality(released) \in Nat /\ Cardinality(low) \in Nat
      /\ Cardinality(own) \in Nat
  <2>1. IsFiniteSet(indices)
    BY <1>2, FS_Interval
  <2> HIDE DEF indices, released, low, own
  <2>2. IsFiniteSet(released) /\ IsFiniteSet(low) /\ IsFiniteSet(own)
    BY <1>6, <2>1, FS_Subset
  <2>3. QED BY <2>2, FS_CardinalityType
<1>8. lastPageIndex' = 0
  BY <1>4 DEF IInv, Unread, ReadEfiMemoryMap
<1>9. TypeOK'
  <2>1. pageBitmap' \in SUBSET Bits' /\ held' \in SUBSET Nat
    BY <1>2, <1>4, <1>5, <1>6
  <2> HIDE DEF memorySize, size, released, low, own
  <2>2. freeMemory' \in Int /\ allocatedMemory' \in Int /\ reservedMemory' \in Int
    BY <1>1, <1>4, <1>7
  <2>3. sizeBytes' \in Nat /\ lastPageIndex' \in (0 .. SizeBits)'
    BY <1>2, <1>4, <1>8 DEF SizeBits
  <2>4. QED
    BY <1>4, <2>1, <2>2, <2>3 DEF IInv, TypeOK
<1>10. Accounting'
  <2>1. (held \cap Bits)' = own
    BY <1>4, <1>5, <1>6
  <2> HIDE DEF released, low, own
  <2>2. freeMemory' + allocatedMemory' + reservedMemory' = memorySize
    <3> HIDE DEF memorySize
    <3> QED BY <1>1, <1>4, <1>7
  <2>3. QED BY <1>4, <2>1, <2>2 DEF Accounting
<1>11. HeldMarked' /\ Unread'
  BY <1>4 DEF HeldMarked, Unread
<1>12. HintSound'
  BY <1>5, <1>8 DEF HintSound
<1>13. QED
  BY <1>9, <1>10, <1>11, <1>12 DEF IInv

\* LockPages of a range a device or the firmware gave.
LEMMA LockPagesInv ==
  ASSUME IInv, NEW range \in LockRanges, LockPages(range)
  PROVE  IInv'
<1> DEFINE S == Pages(range[1], range[2])
<1>1. Takes(S) \cap Bits = Takes(S)
  BY DEF Takes
<1>2. /\ Accounting' /\ HeldMarked'
      /\ pageBitmap' \in SUBSET Bits
      /\ freeMemory' \in Int /\ allocatedMemory' \in Int
  <2> HIDE DEF S
  <2>1. Lock(S) /\ held' = held \cup Takes(S) /\ initialized
        /\ UNCHANGED <<efiMap, initialized, sizeBytes, reservedMemory>>
    BY DEF LockPages, S
  <2>2. QED BY <1>1, <2>1, LockKeepsAccounting DEF IInv
<1>3. TypeOK'
  <2>1. Bits' = Bits /\ SizeBits' = SizeBits
    BY DEF LockPages, Bits, SizeBits
  <2>2. held' \in SUBSET Nat
    <3>1. held' = held \cup Takes(S) /\ Takes(S) \subseteq Bits
      BY DEF LockPages, Takes
    <3>2. Bits \subseteq Nat /\ held \subseteq Nat
      BY DEF Bits, SizeBits, IInv, TypeOK
    <3>3. QED BY <3>1, <3>2
  <2>3. /\ efiMap' \in EfiMaps /\ initialized' \in BOOLEAN /\ runsUsed' \in BOOLEAN
        /\ sizeBytes' \in Nat /\ lastPageIndex' \in 0 .. SizeBits
        /\ reservedMemory' \in Int
    BY Zenon DEF LockPages, IInv, TypeOK
  <2>4. QED BY <1>2, <2>1, <2>2, <2>3, Zenon DEF TypeOK
<1>4. HintSound' /\ Unread'
  BY DEF IInv, HintSound, Unread, LockPages, Lock, Bits, SizeBits
<1>5. QED BY <1>2, <1>3, <1>4 DEF IInv

\* A request that finds nothing: no clear bit at or above the hint.
LEMMA RequestFailsInv ==
  ASSUME IInv, initialized, RequestFails,
         (runsUsed' = runsUsed /\ Candidates = {}) \/ runsUsed' = TRUE
  PROVE  IInv'
<1>1. Bits' = Bits /\ SizeBits' = SizeBits /\ SizeBits \in Nat
  BY DEF RequestFails, Bits, SizeBits, IInv, TypeOK
<1>2. TypeOK'
  <2>1. lastPageIndex' \in 0 .. SizeBits
    BY <1>1 DEF RequestFails
  <2>2. runsUsed' \in BOOLEAN
    BY Zenon DEF IInv, TypeOK
  <2>3. QED BY <1>1, <2>1, <2>2, Zenon DEF IInv, TypeOK, RequestFails
<1>3. HintSound'
  <2> SUFFICES ASSUME ~runsUsed', NEW x \in Bits, x < SizeBits
               PROVE  x \in pageBitmap
    BY <1>1 DEF HintSound, RequestFails
  <2>1. ~runsUsed /\ Candidates = {}
    OBVIOUS
  <2>2. CASE x < lastPageIndex
    BY <2>1, <2>2 DEF IInv, HintSound
  <2>3. CASE ~(x < lastPageIndex)
    <3>1. x \in lastPageIndex .. SizeBits - 1
      BY <1>1, <2>3 DEF Bits, IInv, TypeOK
    <3>2. QED BY <2>1, <3>1 DEF Candidates
  <2>4. QED BY <2>2, <2>3
<1>4. Accounting' /\ HeldMarked' /\ Unread'
  BY <1>1 DEF IInv, Accounting, HeldMarked, Unread, RequestFails
<1>5. QED BY <1>2, <1>3, <1>4 DEF IInv

\* A request that finds its pages.  RequestPage is the case of one page.
LEMMA RequestFindsInv ==
  ASSUME IInv, initialized, NEW pages \in Nat \ {0}, NEW first \in Candidates,
         Pages(first, pages) \cap pageBitmap = {},
         \/ runsUsed' = TRUE
         \/ runsUsed' = runsUsed /\ \A x \in Candidates : first <= x,
         lastPageIndex' = first, Lock(Pages(first, pages)),
         held' = held \cup Pages(first, pages),
         UNCHANGED <<efiMap, initialized, sizeBytes, reservedMemory>>
  PROVE  IInv'
<1>1. Bits' = Bits /\ SizeBits' = SizeBits /\ SizeBits \in Nat
  BY DEF Bits, SizeBits, IInv, TypeOK
<1>2. first \in Nat /\ first < SizeBits /\ Pages(first, pages) \subseteq Nat
  BY <1>1 DEF Candidates, IInv, TypeOK, Pages
<1>3. /\ Accounting' /\ HeldMarked'
      /\ pageBitmap' \in SUBSET Bits
      /\ freeMemory' \in Int /\ allocatedMemory' \in Int
  <2>1. Pages(first, pages) \cap Bits = Takes(Pages(first, pages))
    BY DEF Takes
  <2>2. QED BY <2>1, LockKeepsAccounting DEF IInv
<1>4. TypeOK'
  <2>1. lastPageIndex' \in 0 .. SizeBits
    BY <1>1, <1>2
  <2>2. runsUsed' \in BOOLEAN
    BY Zenon DEF IInv, TypeOK
  <2>3. held' \in SUBSET Nat
    BY <1>2 DEF IInv, TypeOK
  <2>4. QED BY <1>1, <1>3, <2>1, <2>2, <2>3, Zenon DEF IInv, TypeOK
<1>5. HintSound'
  <2> SUFFICES ASSUME ~runsUsed', NEW x \in Bits, x < first
               PROVE  x \in pageBitmap'
    BY <1>1 DEF HintSound
  <2>1. CASE x < lastPageIndex
    BY <2>1 DEF IInv, HintSound, Lock
  <2>2. CASE ~(x < lastPageIndex)
    <3>1. x \in lastPageIndex .. SizeBits - 1 /\ ~(first <= x)
      BY <1>1, <1>2, <2>2 DEF Bits, IInv, TypeOK
    <3>2. x \in pageBitmap
      BY <3>1 DEF Candidates
    <3>3. QED BY <3>2 DEF Lock
  <2>3. QED BY <2>1, <2>2
<1>6. QED BY <1>3, <1>4, <1>5 DEF IInv, Unread

LEMMA RequestPageInv == IInv /\ RequestPage => IInv'
<1> SUFFICES ASSUME IInv, RequestPage PROVE IInv'
  OBVIOUS
<1>1. CASE Candidates = {} /\ RequestFails
  BY <1>1, RequestFailsInv DEF RequestPage
<1>2. ASSUME NEW page \in Candidates, \A x \in Candidates : page <= x,
             lastPageIndex' = page, Lock({page}), held' = held \cup {page},
             UNCHANGED <<efiMap, initialized, sizeBytes, reservedMemory>>
      PROVE  IInv'
  <2>1. page \in Int
    BY DEF Candidates, IInv, TypeOK
  <2>2. Pages(page, 1) = {page}
    BY <2>1 DEF Pages
  <2>3. {page} \cap pageBitmap = {}
    BY DEF Candidates
  <2>4. initialized /\ runsUsed' = runsUsed
    BY DEF RequestPage
  <2>5. 1 \in Nat \ {0}
    OBVIOUS
  <2>6. QED BY <1>2, <2>2, <2>3, <2>4, <2>5, RequestFindsInv, Zenon
<1>3. QED BY <1>1, <1>2 DEF RequestPage

LEMMA RequestPagesInv ==
  ASSUME IInv, NEW pages \in RunLengths, RequestPages(pages)
  PROVE  IInv'
<1> DEFINE starts == {x \in Candidates : Pages(x, pages) \cap pageBitmap = {}}
<1>1. pages \in Nat \ {0} /\ initialized /\ runsUsed' = TRUE
  BY ParameterAssumption DEF RequestPages
<1>2. CASE starts = {} /\ RequestFails
  BY <1>1, <1>2, RequestFailsInv
<1>3. ASSUME NEW first \in starts, lastPageIndex' = first, Lock(Pages(first, pages)),
             held' = held \cup Pages(first, pages),
             UNCHANGED <<efiMap, initialized, sizeBytes, reservedMemory>>
      PROVE  IInv'
  BY <1>1, <1>3, RequestFindsInv
<1>4. QED BY <1>2, <1>3 DEF RequestPages

\* Giving pages back.
LEMMA FreePagesInv ==
  ASSUME IInv, NEW first \in Bits, NEW count \in Nat \ {0}, FreePages(first, count)
  PROVE  IInv'
<1> DEFINE S == Pages(first, count)
           freed == S \cap pageBitmap
<1>1. Bits' = Bits /\ SizeBits' = SizeBits /\ SizeBits \in Nat
  BY DEF FreePages, Bits, SizeBits, IInv, TypeOK
<1>2. /\ initialized /\ freed \subseteq held
      /\ pageBitmap' = pageBitmap \ freed
      /\ freeMemory' = freeMemory + Cardinality(freed)
      /\ allocatedMemory' = allocatedMemory - Cardinality(freed)
      /\ lastPageIndex' = HintAfterFree(freed)
      /\ held' = held \ S
      /\ UNCHANGED <<efiMap, initialized, sizeBytes, reservedMemory, runsUsed>>
  BY DEF FreePages, Freed
<1>3. freed \subseteq Bits /\ freed \subseteq Nat /\ held \cap S \cap Bits = freed
  BY <1>1, <1>2 DEF IInv, TypeOK, HeldMarked, Bits
<1> HIDE DEF S
<1>4. IsFiniteSet(freed) /\ Cardinality(freed) \in Nat
  BY <1>3, CardinalityInBits DEF IInv, TypeOK
<1>5. lastPageIndex' \in 0 .. SizeBits /\ lastPageIndex' <= lastPageIndex
      /\ \A x \in freed : lastPageIndex' <= x
  <2>1. CASE \A x \in freed : x >= lastPageIndex
    BY <1>1, <1>2, <1>3, <2>1 DEF HintAfterFree, IInv, TypeOK
  <2>2. CASE ~(\A x \in freed : x >= lastPageIndex)
    <3>1. PICK y \in freed : y < lastPageIndex
      BY <1>3, <2>2 DEF IInv, TypeOK
    <3>2. \E x \in freed : \A z \in freed : x <= z
      BY <1>3, <3>1, LeastOfNaturals
    <3>3. Min(freed) \in freed /\ \A z \in freed : Min(freed) <= z
      BY <3>2 DEF Min
    <3>4. lastPageIndex' = Min(freed)
      BY <1>2, <2>2 DEF HintAfterFree
    <3>5. QED BY <1>1, <1>3, <3>1, <3>3, <3>4 DEF IInv, TypeOK, Bits
  <2>3. QED BY <2>1, <2>2
<1>6. TypeOK'
  <2>1. pageBitmap' \in SUBSET Bits' /\ held' \in SUBSET Nat
    BY <1>1, <1>2 DEF IInv, TypeOK
  <2> HIDE DEF freed
  <2>2. freeMemory' \in Int /\ allocatedMemory' \in Int /\ reservedMemory' \in Int
    BY <1>2, <1>4 DEF IInv, TypeOK
  <2>3. lastPageIndex' \in 0 .. SizeBits'
    BY <1>1, <1>5
  <2>4. QED BY <1>2, <2>1, <2>2, <2>3 DEF IInv, TypeOK
<1>7. Accounting'
  <2>1. (held \cap Bits)' = (held \cap Bits) \ freed
    BY <1>1, <1>2, <1>3
  <2>2. IsFiniteSet(held \cap Bits) /\ Cardinality(held \cap Bits) \in Nat
    BY CardinalityInBits DEF IInv, TypeOK
  <2>3. (held \cap Bits) \cap freed = freed
    BY <1>2, <1>3
  <2>4. Cardinality((held \cap Bits) \ freed)
          = Cardinality(held \cap Bits) - Cardinality(freed)
    <3> HIDE DEF freed
    <3>1. Cardinality((held \cap Bits) \ freed)
            = Cardinality(held \cap Bits) - Cardinality((held \cap Bits) \cap freed)
      BY <2>2, FS_Difference
    <3>2. QED BY <2>3, <3>1
  <2>5. /\ freeMemory + allocatedMemory + reservedMemory = CalculateMemorySize(efiMap)
        /\ allocatedMemory = Cardinality(held \cap Bits)
        /\ freeMemory \in Int /\ allocatedMemory \in Int /\ reservedMemory \in Int
    BY <1>2 DEF IInv, Accounting, TypeOK
  <2>6. allocatedMemory' = Cardinality((held \cap Bits)')
    BY <1>2, <2>1, <2>4, <2>5
  <2>7. freeMemory' + allocatedMemory' + reservedMemory'
          = freeMemory + allocatedMemory + reservedMemory
    BY <1>2, <1>4, <2>5
  <2>8. QED BY <1>2, <2>5, <2>6, <2>7 DEF Accounting
<1>8. HeldMarked'
  BY <1>1, <1>2 DEF IInv, HeldMarked
<1>9. HintSound'
  <2> SUFFICES ASSUME ~runsUsed, NEW x \in Bits, x < lastPageIndex'
               PROVE  x \in pageBitmap \ freed
    BY <1>1, <1>2 DEF HintSound
  <2>1. x \in Nat /\ lastPageIndex' \in Nat /\ lastPageIndex \in Nat
    BY <1>1, <1>5 DEF Bits, IInv, TypeOK
  <2>2. x < lastPageIndex /\ x \notin freed
    BY <1>3, <1>5, <2>1
  <2>3. QED BY <2>2 DEF IInv, HintSound
<1>10. QED BY <1>2, <1>6, <1>7, <1>8, <1>9 DEF IInv, Unread

-----------------------------------------------------------------------------
\* Every step preserves the invariant.
LEMMA NextInv == IInv /\ [Next]_vars => IInv'
<1> SUFFICES ASSUME IInv, [Next]_vars PROVE IInv'
  OBVIOUS
<1>1. CASE ReadEfiMemoryMap
  BY <1>1, ReadEfiMemoryMapInv
<1>2. CASE \E range \in LockRanges : LockPages(range)
  BY <1>2, LockPagesInv
<1>3. CASE RequestPage
  BY <1>3, RequestPageInv
<1>4. CASE \E pages \in RunLengths : RequestPages(pages)
  BY <1>4, RequestPagesInv
<1>5. CASE \E first \in Bits : \E count \in {1} \cup RunLengths : FreePages(first, count)
  <2>1. {1} \cup RunLengths \subseteq Nat \ {0}
    BY ParameterAssumption
  <2>2. QED BY <1>5, <2>1, FreePagesInv
<1>6. CASE UNCHANGED vars
  BY <1>6 DEF vars, IInv, TypeOK, Unread, HeldMarked, Accounting, HintSound, Bits, SizeBits
<1>7. QED BY <1>1, <1>2, <1>3, <1>4, <1>5, <1>6 DEF Next

\* The inductive invariant holds in every reachable state.
THEOREM Invariance == Spec => []IInv
  BY InitInv, NextInv, PTL DEF Spec

\* The allocator's state keeps its type.
THEOREM TypeCorrect == Spec => []TypeOK
<1>1. IInv => TypeOK
  BY DEF IInv
<1>2. QED BY <1>1, Invariance, PTL

\* GetFreeRAM, GetAllocatedRAM and GetReservedRAM always add up to the memory
\* of the machine, whatever is locked, requested and freed.
THEOREM AccountingHolds == Spec => []Accounting
<1>1. IInv => Accounting
  BY DEF IInv
<1>2. QED BY <1>1, Invariance, PTL

\* RequestPage gives up only when no page is free, as long as RequestPages
\* is not used.
THEOREM HintSoundHolds == Spec => []HintSound
<1>1. IInv => HintSound
  BY DEF IInv
<1>2. QED BY <1>1, Invariance, PTL

\* Locking hands out only pages whose bit is clear and unmarks nothing.
LEMMA LockHandsOut ==
  ASSUME HeldMarked, NEW S, NEW H, Lock(S), held' = held \cup H,
         H \cap Bits \cap pageBitmap = {}
  PROVE  HandOut
  BY DEF HeldMarked, HandOut, Lock, Takes

\* What a step hands out was free, and what stays held stays marked.
LEMMA NextHandsOut == IInv /\ Next => HandOut
<1> SUFFICES ASSUME IInv, Next PROVE HandOut
  OBVIOUS
<1>1. CASE ReadEfiMemoryMap
  BY <1>1 DEF ReadEfiMemoryMap, IInv, Unread, HandOut
<1>2. ASSUME NEW range \in LockRanges, LockPages(range) PROVE HandOut
  <2> DEFINE S == Pages(range[1], range[2])
  <2>1. Takes(S) \cap Bits \cap pageBitmap = {}
    BY DEF Takes
  <2>2. QED BY <1>2, <2>1, LockHandsOut DEF LockPages, IInv
<1>3. CASE RequestPage
  <2>1. CASE RequestFails
    BY <2>1 DEF RequestFails, HandOut, HeldMarked, IInv
  <2>2. ASSUME NEW page \in Candidates, Lock({page}), held' = held \cup {page}
        PROVE  HandOut
    <3>1. {page} \cap Bits \cap pageBitmap = {}
      BY DEF Candidates
    <3>2. QED BY <2>2, <3>1, LockHandsOut DEF IInv
  <2>3. QED BY <1>3, <2>1, <2>2 DEF RequestPage
<1>4. ASSUME NEW pages \in RunLengths, RequestPages(pages) PROVE HandOut
  <2>1. CASE RequestFails
    BY <2>1 DEF RequestFails, HandOut, HeldMarked, IInv
  <2>2. ASSUME NEW first \in Candidates, Pages(first, pages) \cap pageBitmap = {},
               Lock(Pages(first, pages)), held' = held \cup Pages(first, pages)
        PROVE  HandOut
    BY <2>2, LockHandsOut DEF IInv
  <2>3. QED BY <1>4, <2>1, <2>2 DEF RequestPages
<1>5. ASSUME NEW first, NEW count, FreePages(first, count) PROVE HandOut
  BY <1>5 DEF FreePages, Freed, HandOut, HeldMarked, IInv
<1>6. QED BY <1>1, <1>2, <1>3, <1>4, <1>5 DEF Next

\* No page is handed out twice, and none loses its mark while it is held.
THEOREM HandedOutOnceHolds == Spec => HandedOutOnce
<1>1. IInv /\ [Next]_vars => [HandOut]_vars
  BY NextHandsOut
<1>2. QED BY <1>1, Invariance, PTL DEF Spec, HandedOutOnce
=============================================================================
