--------------------------- MODULE PageTablesProofs ---------------------------
(***************************************************************************)
(* The inductive invariants of the page tables and what follows from them, *)
(* for tables of any size, every memory map, any kernel, frame buffer,     *)
(* heap and devices.                                                       *)
(***************************************************************************)
EXTENDS PageTables, SequenceTheorems, FiniteSetTheorems, TLAPS

\* A call in the queue.
Request4 == [op : {"map", "flag", "heap", "load"}, page : Page, frame : Nat, flag : Flag]

\* Until InitializePaging has its first table nothing is mapped or called.
Boot == stage # "running" =>
    /\ DOMAIN tables = {} /\ pml4 = -1 /\ walk.level = 0 /\ calls = <<>>
    /\ cr3 = FALSE /\ fault = FALSE

\* A walk is always that of the first call, and never of the load of cr3.
Walks == walk.level # 0 => calls # <<>> /\ Call.op # "load"

\* What the allocator's search needs.
Searches == efiMap \in EfiMaps /\ sizeBytes \in Nat /\ lastPageIndex \in Nat

\* The parts of the type invariant.
Scalars ==
    /\ stage \in {"memory map", "frame buffer", "kernel", "tables", "running"}
    /\ pml4 \in Nat \cup {-1} /\ heapEnd \in Nat
    /\ cr3 \in BOOLEAN /\ fault \in BOOLEAN
TablesType == DOMAIN tables \subseteq Nat /\ \A t \in DOMAIN tables : tables[t] \in [Index -> Entry]
WalkRecord == walk \in [level : 0 .. 4, table : Nat \cup {-1}, frame : Nat]
CallsType == calls \in Seq(Request4)
LevelsType == DOMAIN level = DOMAIN tables /\ \A t \in DOMAIN level : level[t] \in 1 .. 4

Typing ==
    /\ Scalars /\ TablesType /\ WalkRecord /\ CallsType /\ LevelsType
    /\ Boot /\ Walks /\ Searches

\* The pages RequestPage returned, none before there are tables.
Giving == given \subseteq Nat \ {0} /\ (stage # "running" => given = {})

\* Together they are the type invariant.
LEMMA Parts == Typing /\ Giving => TypeOK
  BY DEF Typing, Giving, Scalars, TablesType, WalkRecord, CallsType, LevelsType, TypeOK, Request4

-----------------------------------------------------------------------------
(***************************************************************************)
(* Pages, entries and the calls of InitializePaging.                       *)
(***************************************************************************)
\* PageMapIndexer gives four indices of a table, whatever the page number.
LEMMA PageOfType == ASSUME NEW n \in Nat PROVE PageOf(n) \in Page
<1> DEFINE square == Radix * Radix
           cube == Radix * Radix * Radix
<1>1. Radix \in Nat \ {0}
  BY ParameterAssumption
<1>2. square \in Nat \ {0}
  BY <1>1
<1>3. cube \in Nat \ {0}
  <2>1. cube = square * Radix
    OBVIOUS
  <2> HIDE DEF square, cube
  <2>2. QED BY <1>1, <1>2, <2>1
<1> DEFINE a == n \div cube
           b == n \div square
           c == n \div Radix
<1>4. PageOf(n) = <<a % Radix, b % Radix, c % Radix, n % Radix>>
  BY DEF PageOf
<1> HIDE DEF square, cube
<1>5. a \in Int /\ b \in Int /\ c \in Int
  BY <1>1, <1>2, <1>3
<1> HIDE DEF a, b, c
<1>6. \A x \in Int : x % Radix \in Index
  BY <1>1 DEF Index
<1>7. QED BY <1>4, <1>5, <1>6 DEF Page

\* An index of a page is an index of a table.
LEMMA PageIndices ==
  ASSUME NEW p \in Page
  PROVE  p[1] \in Index /\ p[2] \in Index /\ p[3] \in Index /\ p[4] \in Index
  BY DEF Page

\* Zero is an index: a table has at least one entry.
LEMMA IndexZero == 0 \in Index /\ Index \subseteq Nat
  BY ParameterAssumption DEF Index

\* A cleared table, and what SetAddress and SetFlag make of an entry.
LEMMA EntryTypes ==
  /\ NoEntry \in Entry /\ Cleared \in [Index -> Entry] /\ ~Present(NoEntry)
  /\ \A e \in Entry : \A flag \in Flag : SetFlag(e, flag) \in Entry
  /\ \A e \in Entry : \A f \in Nat :
        /\ Mapped(e, f) \in Entry
        /\ Present(Mapped(e, f)) /\ Mapped(e, f).address = f
        /\ Mapped(e, f).flags = e.flags \cup {"Present", "ReadWrite"}
<1>1. NoEntry \in Entry /\ ~Present(NoEntry)
  BY DEF NoEntry, Entry, Present
<1>2. Cleared \in [Index -> Entry]
  BY <1>1 DEF Cleared
<1>3. \A e \in Entry : \A flag \in Flag : SetFlag(e, flag) \in Entry
  BY DEF SetFlag, Entry
<1>4. ASSUME NEW e \in Entry, NEW f \in Nat
      PROVE  /\ Mapped(e, f) \in Entry
             /\ Present(Mapped(e, f)) /\ Mapped(e, f).address = f
             /\ Mapped(e, f).flags = e.flags \cup {"Present", "ReadWrite"}
  BY <1>4 DEF Mapped, SetFlag, Entry, Flag, Present
<1>5. QED BY <1>1, <1>2, <1>3, <1>4

\* The frame buffer's pages are page numbers.
LEMMA FramebufferNumbers == FramebufferPages \subseteq Nat
<1>1. Framebuffer[1] \in Nat /\ FramebufferMapped \in Nat
  BY ParameterAssumption
<1>2. QED BY <1>1 DEF FramebufferPages

\* A function on the numbers up to n is a sequence, also when n is negative.
LEMMA Enumerates ==
  ASSUME NEW S, NEW n \in Int, NEW f \in [1 .. n -> S]
  PROVE  f \in Seq(S)
<1>1. CASE n \in Nat
  BY <1>1, SeqDef
<1>2. CASE n \notin Nat
  <2>1. 1 .. n = 1 .. 0
    BY <1>2
  <2>2. QED BY <2>1, SeqDef
<1>3. QED BY <1>1, <1>2

\* The calls that the loops of InitializePaging and ExpandHeap make.
LEMMA CallTypes ==
  /\ \A n, frame \in Nat : MapCall(n, frame) \in Request4
  /\ \A n \in Nat : \A flag \in Flag : FlagCall(n, flag) \in Request4
  /\ \A n \in Nat : HeapCall(n) \in Request4
  /\ LoadCr3 \in Request4
  BY PageOfType DEF MapCall, FlagCall, HeapCall, LoadCr3, Request4, Flag

\* The heap's calls are a sequence of calls of a kind, if each of them is.
LEMMA HeapCallsIn ==
  ASSUME NEW S, NEW first \in Nat, NEW count \in Nat,
         \A n \in first .. first + count - 1 : HeapCall(n) \in S
  PROVE  HeapCalls(first, count) \in Seq(S)
<1>1. \A k \in 1 .. count : first + k - 1 \in first .. first + count - 1
  OBVIOUS
<1>2. \A k \in 1 .. count : HeapCall(first + k - 1) \in S
  BY <1>1
<1>3. HeapCalls(first, count) \in [1 .. count -> S]
  BY <1>2 DEF HeapCalls
<1>4. QED BY <1>3, Enumerates

\* So are those of the memory,
LEMMA MappedToItselfIn ==
  ASSUME NEW S, NEW m \in Nat, \A n \in FirstMapped .. m - 1 : MapCall(n, n) \in S
  PROVE  /\ MappedToItself(m) \in Seq(S) /\ MappedToItself(m) \in [1 .. m - FirstMapped -> S]
         /\ m - FirstMapped \in Int
<1>1. FirstMapped \in Nat /\ m - FirstMapped \in Int
  BY ParameterAssumption
<1>2. \A k \in 1 .. m - FirstMapped : FirstMapped + k - 1 \in FirstMapped .. m - 1
  BY <1>1
<1>3. \A k \in 1 .. m - FirstMapped : MapCall(FirstMapped + k - 1, FirstMapped + k - 1) \in S
  BY <1>2
<1>4. MappedToItself(m) \in [1 .. m - FirstMapped -> S]
  BY <1>3 DEF MappedToItself
<1>5. QED BY <1>1, <1>4, Enumerates

\* those of the frame buffer
LEMMA FramebufferCallsIn ==
  ASSUME NEW S,
         \A n \in FramebufferPages : /\ MapCall(n, n) \in S
                                     /\ \A flag \in Flag : FlagCall(n, flag) \in S
  PROVE  FramebufferCalls \in Seq(S)
<1> DEFINE n(k) == Framebuffer[1] + (k - 1) \div 3
           c(k) == CASE k % 3 = 1 -> MapCall(n(k), n(k))
                     [] k % 3 = 2 -> FlagCall(n(k), "Present")
                     [] k % 3 = 0 -> FlagCall(n(k), "ReadWrite")
<1>1. Framebuffer[1] \in Nat /\ FramebufferMapped \in Nat /\ 3 * FramebufferMapped \in Int
  BY ParameterAssumption
<1>2. ASSUME NEW k \in 1 .. 3 * FramebufferMapped PROVE c(k) \in S
  <2>1. n(k) \in FramebufferPages
    BY <1>1 DEF FramebufferPages
  <2>2. k % 3 \in {0, 1, 2}
    BY <1>1
  <2> HIDE DEF n
  <2>3. /\ MapCall(n(k), n(k)) \in S
        /\ FlagCall(n(k), "Present") \in S /\ FlagCall(n(k), "ReadWrite") \in S
    BY <2>1 DEF Flag
  <2>4. CASE k % 3 = 1
    BY <2>3, <2>4
  <2>5. CASE k % 3 = 2
    BY <2>3, <2>5
  <2>6. CASE k % 3 = 0
    BY <2>3, <2>6
  <2>7. QED BY <2>2, <2>4, <2>5, <2>6
<1>3. FramebufferCalls = [k \in 1 .. 3 * FramebufferMapped |-> c(k)]
  BY DEF FramebufferCalls
<1> HIDE DEF c
<1>4. FramebufferCalls \in [1 .. 3 * FramebufferMapped -> S]
  BY <1>2, <1>3
<1>5. QED BY <1>1, <1>4, Enumerates

\* and those of a guarded page.
LEMMA GuardedIn ==
  ASSUME NEW S, NEW n, MapCall(n, Impossible) \in S, \A flag \in Flag : FlagCall(n, flag) \in S
  PROVE  Guarded(n) \in Seq(S)
<1>1. FlagCall(n, "NX") \in S /\ FlagCall(n, "UserSuper") \in S /\ FlagCall(n, "ReadWrite") \in S
  BY DEF Flag
<1>2. \A a, b, c, d \in S : <<a, b, c, d>> \in Seq(S)
  OBVIOUS
<1>3. QED BY <1>1, <1>2 DEF Guarded

\* All of InitializePaging's calls with those of InitializeHeap; those of the
\* memory come first.
LEMMA BootCallsIn ==
  ASSUME NEW S, NEW m \in Nat,
         \A n \in FirstMapped .. m - 1 : MapCall(n, n) \in S,
         \A n \in FramebufferPages : MapCall(n, n) \in S,
         \A n \in FramebufferPages \cup {0, Impossible} : \A flag \in Flag : FlagCall(n, flag) \in S,
         \A n \in {0, Impossible} : MapCall(n, Impossible) \in S,
         \A n \in HeapStart .. HeapStart + HeapPages - 1 : HeapCall(n) \in S,
         LoadCr3 \in S
  PROVE  \E rest \in Seq(S) :
           MappedToItself(m) \o FramebufferCalls \o Guarded(0) \o Guarded(Impossible)
             \o <<LoadCr3>> \o HeapCalls(HeapStart, HeapPages) = MappedToItself(m) \o rest
<1> DEFINE a == MappedToItself(m)
           b == FramebufferCalls
           c == Guarded(0)
           d == Guarded(Impossible)
           e == <<LoadCr3>>
           h == HeapCalls(HeapStart, HeapPages)
<1>1. a \in Seq(S)
  BY MappedToItselfIn
<1>2. b \in Seq(S)
  BY FramebufferCallsIn
<1>3. c \in Seq(S) /\ d \in Seq(S)
  BY GuardedIn
<1>4. e \in Seq(S)
  OBVIOUS
<1>5. h \in Seq(S)
  BY HeapCallsIn, ParameterAssumption
<1> HIDE DEF a, b, c, d, e, h
<1>6. \A s, t \in Seq(S) : s \o t \in Seq(S)
  BY ConcatProperties
<1>7. \A s, t, u \in Seq(S) : (s \o t) \o u = s \o (t \o u)
  BY ConcatAssociative
<1> DEFINE left == a \o b
           more == left \o c
           most == more \o d
           last == e \o h
           lasts == d \o last
           right == c \o lasts
           rest == b \o right
<1>8. /\ left \in Seq(S) /\ more \in Seq(S) /\ most \in Seq(S)
      /\ last \in Seq(S) /\ lasts \in Seq(S) /\ right \in Seq(S) /\ rest \in Seq(S)
  BY <1>1, <1>2, <1>3, <1>4, <1>5, <1>6
<1>9. /\ left \o right = a \o (b \o right) /\ (left \o c) \o lasts = left \o (c \o lasts)
      /\ (more \o d) \o last = more \o (d \o last) /\ (most \o e) \o h = most \o (e \o h)
  <2>1. \A t, u \in Seq(S) : (left \o t) \o u = left \o (t \o u)
    BY <1>7, <1>8
  <2>2. \A t, u \in Seq(S) : (more \o t) \o u = more \o (t \o u)
    BY <1>7, <1>8
  <2>3. \A t, u \in Seq(S) : (most \o t) \o u = most \o (t \o u)
    BY <1>7, <1>8
  <2>4. \A u \in Seq(S) : (a \o b) \o u = a \o (b \o u)
    BY <1>1, <1>2, <1>7
  <2>5. (a \o b) \o right = a \o (b \o right)
    BY <1>8, <2>4
  <2>6. (left \o c) \o lasts = left \o (c \o lasts)
    BY <1>3, <1>8, <2>1
  <2>7. (more \o d) \o last = more \o (d \o last)
    BY <1>3, <1>8, <2>2
  <2>8. (most \o e) \o h = most \o (e \o h)
    BY <1>4, <1>5, <2>3
  <2>9. QED BY <2>5, <2>6, <2>7, <2>8 DEF left
<1>10. a \o b \o c \o d \o e \o h = a \o rest
  BY <1>9
<1>11. QED BY <1>8, <1>10 DEF a, b, c, d, e, h

\* They are calls.
LEMMA BootCallsType ==
  ASSUME NEW m \in Nat
  PROVE  MappedToItself(m) \o FramebufferCalls \o Guarded(0) \o Guarded(Impossible)
           \o <<LoadCr3>> \o HeapCalls(HeapStart, HeapPages) \in Seq(Request4)
<1>1. /\ FirstMapped .. m - 1 \subseteq Nat /\ HeapStart .. HeapStart + HeapPages - 1 \subseteq Nat
      /\ 0 \in Nat /\ Impossible \in Nat
  BY ParameterAssumption
<1>2. FramebufferPages \subseteq Nat
  BY FramebufferNumbers
<1>3. MappedToItself(m) \in Seq(Request4)
  BY <1>1, CallTypes, MappedToItselfIn
<1>4. PICK rest \in Seq(Request4) :
        MappedToItself(m) \o FramebufferCalls \o Guarded(0) \o Guarded(Impossible)
          \o <<LoadCr3>> \o HeapCalls(HeapStart, HeapPages) = MappedToItself(m) \o rest
  BY <1>1, <1>2, CallTypes, BootCallsIn
<1>5. QED BY <1>3, <1>4, ConcatProperties

-----------------------------------------------------------------------------
(***************************************************************************)
(* The allocator, as the page tables use it.                               *)
(***************************************************************************)
\* RequestPage hands out a page whose bit was clear and sets it, or has no
\* page left and answers nullptr.
LEMMA Requests ==
  ASSUME Searches, NEW f \in Nat, f \in {0} \cup PFA!Candidates, Request(f)
  PROVE  /\ Searches' /\ efiMap' = efiMap /\ PFA!Bits' = PFA!Bits
         /\ \/ f = 0 /\ PFA!Candidates = {} /\ pageBitmap' = pageBitmap
            \/ f \notin pageBitmap /\ f \in PFA!Bits /\ pageBitmap' = pageBitmap \cup {f}
<1> USE DEF Searches
<1>1. PFA!SizeBits \in Nat /\ PFA!RequestPage
  BY DEF PFA!SizeBits, Request
<1>2. CASE PFA!Candidates = {}
  <2>1. f = 0 /\ PFA!RequestFails
    BY <1>1, <1>2 DEF Request, PFA!RequestPage
  <2>2. /\ lastPageIndex' = PFA!SizeBits /\ sizeBytes' = sizeBytes
        /\ efiMap' = efiMap /\ pageBitmap' = pageBitmap
    BY <2>1 DEF PFA!RequestFails
  <2>3. QED BY <1>1, <1>2, <2>1, <2>2 DEF PFA!Bits, PFA!SizeBits
<1>3. CASE PFA!Candidates # {}
  <2>1. PICK page \in PFA!Candidates :
          /\ \A x \in PFA!Candidates : page <= x
          /\ lastPageIndex' = page
          /\ PFA!Lock({page})
          /\ UNCHANGED <<efiMap, initialized, sizeBytes, reservedMemory>>
    BY <1>1, <1>3 DEF PFA!RequestPage
  <2>2. f \in PFA!Candidates /\ \A x \in PFA!Candidates : f <= x
    BY <1>3 DEF Request
  <2>3. PFA!Candidates \subseteq Nat /\ PFA!Candidates \subseteq PFA!Bits
        /\ PFA!Candidates \cap pageBitmap = {}
    BY <1>1 DEF PFA!Candidates, PFA!Bits
  <2>4. page = f
    BY <2>1, <2>2, <2>3
  <2>5. PFA!Takes({page}) = {f}
    BY <2>2, <2>3, <2>4 DEF PFA!Takes
  <2>6. pageBitmap' = pageBitmap \cup {f}
    BY <2>1, <2>5 DEF PFA!Lock
  <2>7. QED BY <2>1, <2>2, <2>3, <2>6 DEF PFA!Bits, PFA!SizeBits
<1>4. QED BY <1>2, <1>3

\* Reading the memory map and locking a range keep what the search needs.
LEMMA BootSearches ==
  ASSUME Searches
  PROVE  /\ PFA!ReadEfiMemoryMap => Searches'
         /\ \A range : PFA!LockPages(range) => Searches'
<1>1. ASSUME PFA!ReadEfiMemoryMap PROVE Searches'
  <2> DEFINE m == PFA!CalculateMemorySize(efiMap)
  <2>1. m \in Nat
    BY MapAssumption DEF Searches
  <2>2. sizeBytes' = (m \div 8) + 1 /\ efiMap' = efiMap /\ lastPageIndex' = lastPageIndex
    BY <1>1 DEF PFA!ReadEfiMemoryMap
  <2> HIDE DEF m
  <2>3. (m \div 8) + 1 \in Nat
    BY <2>1
  <2>4. QED BY <2>2, <2>3 DEF Searches
<1>2. ASSUME NEW range, PFA!LockPages(range) PROVE Searches'
  BY <1>2 DEF PFA!LockPages, Searches
<1>3. QED BY <1>1, <1>2

-----------------------------------------------------------------------------
(***************************************************************************)
(* The type invariant.                                                     *)
(***************************************************************************)
\* What the processor reads is an entry, and what it finds is a page or none.
LEMMA LookupType ==
  ASSUME TablesType, NEW t, NEW i \in Index
  PROVE  /\ Lookup(t, i) \in Entry
         /\ Below(t, i) \in Nat \cup {-1}
         /\ Below(t, i) # -1 <=> Present(Lookup(t, i))
         /\ t \notin DOMAIN tables => Below(t, i) = -1
<1>1. Lookup(t, i) \in Entry /\ (t \notin DOMAIN tables => ~Present(Lookup(t, i)))
  <2>1. CASE t \in DOMAIN tables
    <3>1. tables[t] \in [Index -> Entry]
      BY <2>1 DEF TablesType
    <3>2. tables[t][i] \in Entry
      BY <3>1
    <3>3. QED BY <2>1, <3>2 DEF Lookup
  <2>2. CASE t \notin DOMAIN tables
    BY <2>2, EntryTypes DEF Lookup
  <2>3. QED BY <2>1, <2>2
<1>2. Lookup(t, i).address \in Nat
  BY <1>1 DEF Entry
<1>3. QED BY <1>1, <1>2 DEF Below

\* The call under way, and the entry it is at.
LEMMA WalkType ==
  ASSUME Typing, walk.level # 0
  PROVE  /\ calls \in Seq(Request4) /\ calls # <<>> /\ Call \in Request4 /\ Call.op # "load"
         /\ walk.level \in 1 .. 4 /\ Slot \in Index /\ Current \in Entry
         /\ Tail(calls) \in Seq(Request4)
         /\ Call.page \in Page /\ Call.frame \in Nat /\ Call.flag \in Flag
         /\ stage = "running"
<1>1. calls \in Seq(Request4) /\ calls # <<>> /\ Call.op # "load"
  BY DEF Typing, CallsType, Walks
<1>2. Call \in Request4 /\ Tail(calls) \in Seq(Request4)
  BY <1>1, HeadTailProperties DEF Call
<1>3. walk.level \in 1 .. 4
  BY DEF Typing, WalkRecord
<1>4. Call.page \in Page /\ Call.frame \in Nat /\ Call.flag \in Flag
  BY <1>2 DEF Request4
<1>5. Slot \in Index
  BY <1>3, <1>4, PageIndices DEF Slot
<1>6. Current \in Entry
  BY <1>5, LookupType DEF Current, Typing
<1>7. stage = "running"
  BY DEF Typing, Boot
<1>8. QED BY <1>1, <1>2, <1>3, <1>4, <1>5, <1>6, <1>7

\* A page becomes a table with contents of its own; the others stay.
LEMMA CellIs ==
  ASSUME NEW f, NEW contents
  PROVE  /\ DOMAIN Cell(f, contents) = DOMAIN tables \cup {f}
         /\ Cell(f, contents)[f] = contents
         /\ \A t \in DOMAIN tables \ {f} : Cell(f, contents)[t] = tables[t]
  BY DEF Cell

\* What a record of a walk is made of.
LEMMA WalkLiteral ==
  \A l \in 0 .. 4, t \in Nat \cup {-1}, f \in Nat :
    [level |-> l, table |-> t, frame |-> f]
      \in [level : 0 .. 4, table : Nat \cup {-1}, frame : Nat]
  OBVIOUS

\* A walk goes down a level, to table t.
LEMMA WalkDown ==
  ASSUME WalkRecord, walk.level \in 1 .. 3, NEW t \in Nat,
         walk' = [walk EXCEPT !.level = @ + 1, !.table = t]
  PROVE  /\ WalkRecord' /\ walk'.level = walk.level + 1
         /\ walk'.table = t /\ walk'.frame = walk.frame
<1> DEFINE next == walk.level + 1
<1>1. walk' = [walk EXCEPT !.level = next, !.table = t]
  OBVIOUS
<1>2. next \in 0 .. 4
  OBVIOUS
<1> HIDE DEF next
<1>3. walk' \in [level : 0 .. 4, table : Nat \cup {-1}, frame : Nat]
  BY <1>1, <1>2 DEF WalkRecord
<1>4. walk'.level = next /\ walk'.table = t /\ walk'.frame = walk.frame
  BY <1>1 DEF WalkRecord
<1>5. QED BY <1>3, <1>4 DEF WalkRecord, next

\* The initial state.
LEMMA InitTyping == Init => Typing
<1> SUFFICES ASSUME Init PROVE Typing
  OBVIOUS
<1>1. /\ calls = <<>> /\ pml4 = -1 /\ stage = "memory map" /\ heapEnd = HeapStart
      /\ walk = [level |-> 0, table |-> 0, frame |-> 0] /\ cr3 = FALSE /\ fault = FALSE
      /\ DOMAIN tables = {} /\ DOMAIN level = {}
      /\ efiMap \in EfiMaps /\ sizeBytes = 0 /\ lastPageIndex = 0
  BY DEF Init, PFA!Init
<1>2. cr3 \in BOOLEAN /\ fault \in BOOLEAN
  BY <1>1
<1>3. Scalars
  BY <1>1, <1>2, ParameterAssumption DEF Scalars
<1>4. TablesType /\ LevelsType
  BY <1>1 DEF TablesType, LevelsType
<1>5. CallsType /\ WalkRecord
  <2>1. 0 \in Nat \cup {-1} /\ 0 \in 0 .. 4 /\ 0 \in Nat
    OBVIOUS
  <2>2. walk \in [level : 0 .. 4, table : Nat \cup {-1}, frame : Nat]
    BY <1>1, <2>1, WalkLiteral
  <2>3. QED BY <1>1, <2>2, EmptySeq DEF CallsType, WalkRecord
<1>6. QED BY <1>1, <1>3, <1>4, <1>5 DEF Typing, Boot, Walks, Searches

\* The steps of InitializePaging before the tables.
LEMMA BootTyping ==
  ASSUME Typing, ReadEfiMemoryMap \/ LockFramebuffer \/ LockKernel
  PROVE  Typing'
<1>1. /\ stage # "running" /\ stage' \in {"memory map", "frame buffer", "kernel", "tables", "running"}
      /\ UNCHANGED <<pml4, tables, cr3, calls, walk, heapEnd, fault, level>>
  BY DEF ReadEfiMemoryMap, LockFramebuffer, LockKernel
<1>2. Searches'
  BY BootSearches DEF ReadEfiMemoryMap, LockFramebuffer, LockKernel, Typing
<1>3. /\ TablesType' /\ WalkRecord' /\ CallsType' /\ LevelsType' /\ Boot' /\ Walks'
  BY <1>1 DEF Typing, TablesType, WalkRecord, CallsType, LevelsType, Boot, Walks, Call
<1>4. Scalars'
  BY <1>1 DEF Typing, Scalars
<1>5. QED BY <1>2, <1>3, <1>4 DEF Typing

\* InitializePaging makes PML4 and lists its calls.
LEMMA NewTablesTyping == ASSUME Typing, NewTables PROVE Typing'
<1>1. PICK f \in Nat \cap ({0} \cup PFA!Candidates) :
        Request(f) /\ pml4' = f /\ tables' = Cell(f, Cleared) /\ level' = [t \in {f} |-> 1]
  BY DEF NewTables
<1>2. /\ Searches /\ efiMap \in EfiMaps /\ PFA!CalculateMemorySize(efiMap) \in Nat
      /\ stage # "running" /\ DOMAIN tables = {}
  BY MapAssumption DEF Typing, Searches, NewTables, Boot
<1>3. Searches'
  BY <1>1, <1>2, Requests
<1>4. CallsType'
  BY <1>2, BootCallsType DEF NewTables, CallsType
<1>5. DOMAIN tables' = {f} /\ tables'[f] = Cleared /\ DOMAIN level' = {f} /\ level'[f] = 1
  BY <1>1, <1>2, CellIs
<1>6. heapEnd' \in Nat /\ stage' = "running" /\ cr3' = cr3 /\ walk' = walk /\ fault' = fault
  BY ParameterAssumption DEF NewTables
<1>7. Scalars'
  <2>1. Scalars /\ pml4' \in Nat \cup {-1}
    BY <1>1 DEF Typing
  <2>2. QED BY <1>6, <2>1 DEF Scalars
<1>8. TablesType'
  <2>1. \A t \in DOMAIN tables' : tables'[t] \in [Index -> Entry]
    BY <1>5, EntryTypes
  <2>2. DOMAIN tables' \subseteq Nat
    BY <1>5
  <2>3. QED BY <2>1, <2>2 DEF TablesType
<1>9. WalkRecord' /\ LevelsType' /\ Boot' /\ Walks'
  BY <1>2, <1>5, <1>6 DEF Typing, WalkRecord, LevelsType, Boot, Walks
<1>10. QED BY <1>3, <1>4, <1>7, <1>8, <1>9 DEF Typing

\* Loading cr3.
LEMMA LoadTyping == ASSUME Typing, Load PROVE Typing'
<1>1. calls \in Seq(Request4) /\ calls # <<>>
  BY DEF Typing, CallsType, Load
<1>2. cr3' = TRUE /\ calls' = Tail(calls) /\ walk.level = 0
      /\ UNCHANGED <<allocator, stage, pml4, tables, walk, heapEnd, fault, level>>
  BY DEF Load
<1>3. CallsType'
  BY <1>1, <1>2, HeadTailProperties DEF CallsType
<1>4. cr3' \in BOOLEAN /\ stage = "running"
  BY <1>1, <1>2 DEF Typing, Boot
<1>5. Scalars'
  BY <1>2, <1>4 DEF Typing, Scalars
<1>6. /\ TablesType' /\ WalkRecord' /\ LevelsType' /\ Boot' /\ Walks' /\ Searches'
  BY <1>2, <1>4 DEF Typing, TablesType, WalkRecord, LevelsType, Boot, Walks, Searches, allocator
<1>7. QED BY <1>3, <1>5, <1>6 DEF Typing

\* A walk begins, for a page that is given or one that is requested.
LEMMA BeginTyping ==
  ASSUME Typing, Begin \/ BeginHeap
  PROVE  /\ Typing'
         /\ \E f \in Nat : walk' = [level |-> 1, table |-> pml4, frame |-> f]
<1>1. /\ calls \in Seq(Request4) /\ calls # <<>>
      /\ UNCHANGED <<stage, pml4, tables, cr3, calls, heapEnd, fault, level>>
      /\ Call.op # "load"
  BY DEF Typing, CallsType, Begin, BeginHeap
<1>2. Call \in Request4
  BY <1>1, HeadTailProperties DEF Call
<1>3. Searches' /\ \E f \in Nat : walk' = [level |-> 1, table |-> pml4, frame |-> f]
  <2>1. CASE Begin
    <3>1. Call.frame \in Nat
      BY <1>2 DEF Request4
    <3>2. QED BY <2>1, <3>1 DEF Begin, allocator, Searches, Typing
  <2>2. CASE BeginHeap
    BY <2>2, Requests DEF BeginHeap, Typing
  <2>3. QED BY <2>1, <2>2
<1>4. WalkRecord'
  <2>1. PICK f \in Nat : walk' = [level |-> 1, table |-> pml4, frame |-> f]
    BY <1>3
  <2>2. pml4 \in Nat \cup {-1}
    BY DEF Typing, Scalars
  <2>3. 1 \in 0 .. 4
    OBVIOUS
  <2>4. QED BY <2>1, <2>2, <2>3, WalkLiteral DEF WalkRecord
<1>5. stage = "running"
  BY <1>1 DEF Typing, Boot
<1>6. Scalars' /\ TablesType' /\ CallsType' /\ LevelsType' /\ Boot' /\ Walks'
  BY <1>1, <1>5 DEF Typing, Scalars, TablesType, CallsType, LevelsType, Boot, Walks, Call
<1>7. QED BY <1>3, <1>4, <1>6 DEF Typing

\* Following an entry.
LEMMA DescendTyping == ASSUME Typing, Descend PROVE Typing'
<1>1. /\ walk.level \in 1 .. 3 /\ walk' = [walk EXCEPT !.level = @ + 1, !.table = Current.address]
      /\ UNCHANGED <<allocator, stage, pml4, tables, cr3, calls, heapEnd, fault, level>>
  BY DEF Descend, Walking
<1>2. Current.address \in Nat /\ stage = "running" /\ calls # <<>> /\ Call.op # "load"
  BY <1>1, WalkType DEF Entry
<1>3. WalkRecord'
  BY <1>1, <1>2, WalkDown DEF Typing
<1>4. /\ Scalars' /\ TablesType' /\ CallsType' /\ LevelsType' /\ Boot' /\ Walks' /\ Searches'
  BY <1>1, <1>2 DEF Typing, Scalars, TablesType, CallsType, LevelsType, Boot, Walks, Call, Searches, allocator
<1>5. QED BY <1>3, <1>4 DEF Typing

\* Writing an entry changes the row that holds it, and in it that entry.
LEMMA RowWritten ==
  ASSUME NEW r \in [Index -> Entry], NEW i \in Index, NEW e \in Entry
  PROVE  /\ [r EXCEPT ![i] = e] \in [Index -> Entry]
         /\ \A j \in Index : [r EXCEPT ![i] = e][j] = IF j = i THEN e ELSE r[j]
  OBVIOUS

LEMMA TablesWritten ==
  ASSUME NEW T, NEW a, NEW i \in Index, NEW e \in Entry,
         \A t \in DOMAIN T : T[t] \in [Index -> Entry]
  PROVE  /\ DOMAIN [T EXCEPT ![a][i] = e] = DOMAIN T
         /\ \A t \in DOMAIN T :
              /\ [T EXCEPT ![a][i] = e][t] \in [Index -> Entry]
              /\ \A j \in Index :
                   [T EXCEPT ![a][i] = e][t][j] = IF t = a /\ j = i THEN e ELSE T[t][j]
<1> DEFINE new == [T EXCEPT ![a][i] = e]
<1>1. DOMAIN new = DOMAIN T
  OBVIOUS
<1>2. \A t \in DOMAIN T : new[t] = IF t = a THEN [T[t] EXCEPT ![i] = e] ELSE T[t]
  OBVIOUS
<1> HIDE DEF new
<1>3. ASSUME NEW t \in DOMAIN T
      PROVE  /\ new[t] \in [Index -> Entry]
             /\ \A j \in Index : new[t][j] = IF t = a /\ j = i THEN e ELSE T[t][j]
  <2> DEFINE r == T[t]
  <2> r \in [Index -> Entry]
    OBVIOUS
  <2>1. CASE t = a
    <3>1. new[t] = [r EXCEPT ![i] = e]
      BY <1>2, <2>1
    <3> HIDE DEF r
    <3>2. new[t] \in [Index -> Entry] /\ \A j \in Index : new[t][j] = IF j = i THEN e ELSE r[j]
      BY <3>1, RowWritten
    <3>3. QED BY <2>1, <3>2 DEF r
  <2>2. CASE t # a
    BY <1>2, <2>2
  <2>3. QED BY <2>1, <2>2
<1>4. QED BY <1>1, <1>3 DEF new

\* What AddTable does: page f becomes an empty table, one level further down,
\* the entry that lacked a table refers to it, and the walk goes on there.
LEMMA AddTableIs ==
  ASSUME Typing, AddTable
  PROVE  \E f \in Nat :
           /\ f \in {0} \cup PFA!Candidates /\ Request(f) /\ Accessible(f)
           /\ DOMAIN tables' = DOMAIN tables \cup {f}
           /\ \A t \in DOMAIN tables' :
                /\ tables'[t] \in [Index -> Entry]
                /\ \A i \in Index :
                     tables'[t][i] = IF t = walk.table /\ i = Slot THEN Mapped(Current, f)
                                     ELSE IF t = f THEN NoEntry ELSE tables[t][i]
           /\ DOMAIN level' = DOMAIN tables \cup {f}
           /\ level'[f] = walk.level + 1
           /\ \A t \in DOMAIN tables \ {f} : level'[t] = level[t]
           /\ walk.level \in 1 .. 3 /\ walk'.level = walk.level + 1
           /\ walk'.table = f /\ walk'.frame = walk.frame
           /\ WalkRecord' /\ ~Present(Current)
           /\ UNCHANGED <<stage, pml4, cr3, calls, heapEnd, fault>>
<1>1. PICK f \in Nat \cap ({0} \cup PFA!Candidates) :
         /\ Request(f)
         /\ Accessible(f)
         /\ tables' = [Cell(f, Fresh) EXCEPT ![walk.table][Slot] = Mapped(Current, f)]
         /\ level' = [t \in DOMAIN level \cup {f} |-> IF t = f THEN walk.level + 1 ELSE level[t]]
         /\ walk' = [walk EXCEPT !.level = @ + 1, !.table = f]
  BY DEF AddTable
<1>2. walk.level \in 1 .. 3 /\ ~Present(Current)
      /\ UNCHANGED <<stage, pml4, cr3, calls, heapEnd, fault>>
  BY DEF AddTable, Walking
<1>3. Slot \in Index /\ Current \in Entry /\ Mapped(Current, f) \in Entry
  BY <1>1, <1>2, WalkType, EntryTypes
<1> DEFINE T == Cell(f, Cleared)
           e == Mapped(Current, f)
<1>4. /\ DOMAIN T = DOMAIN tables \cup {f}
      /\ \A t \in DOMAIN T : t # f => T[t] = tables[t]
      /\ T[f] = Cleared
  BY DEF Cell
<1>5. \A t \in DOMAIN T : /\ T[t] \in [Index -> Entry]
                          /\ \A i \in Index : T[t][i] = IF t = f THEN NoEntry ELSE tables[t][i]
  BY <1>4, EntryTypes DEF Typing, TablesType, Cleared
<1>6. tables' = [T EXCEPT ![walk.table][Slot] = e]
  BY <1>1 DEF Fresh
<1> HIDE DEF T, e
<1>7. /\ DOMAIN tables' = DOMAIN T
      /\ \A t \in DOMAIN T :
           /\ tables'[t] \in [Index -> Entry]
           /\ \A i \in Index : tables'[t][i] = IF t = walk.table /\ i = Slot THEN e ELSE T[t][i]
  BY <1>3, <1>5, <1>6, TablesWritten DEF e
<1>8. \A t \in DOMAIN tables' :
        /\ tables'[t] \in [Index -> Entry]
        /\ \A i \in Index : tables'[t][i] = IF t = walk.table /\ i = Slot THEN Mapped(Current, f)
                                            ELSE IF t = f THEN NoEntry ELSE tables[t][i]
  BY <1>5, <1>7 DEF e
<1> DEFINE next == walk.level + 1
<1>9. level' = [t \in DOMAIN level \cup {f} |-> IF t = f THEN next ELSE level[t]]
  BY <1>1
<1> HIDE DEF next
<1>10. /\ DOMAIN level' = DOMAIN tables \cup {f} /\ level'[f] = next
       /\ \A t \in DOMAIN tables \ {f} : level'[t] = level[t]
  BY <1>9 DEF Typing, LevelsType
<1>11. /\ WalkRecord' /\ walk'.level = walk.level + 1
       /\ walk'.table = f /\ walk'.frame = walk.frame
  BY <1>1, <1>2, WalkDown DEF Typing
<1>12. DOMAIN tables' = DOMAIN tables \cup {f}
  BY <1>4, <1>7
<1>13. level'[f] = walk.level + 1
  BY <1>10 DEF next
<1> WITNESS f \in Nat
<1>14. QED BY <1>1, <1>2, <1>8, <1>10, <1>11, <1>12, <1>13

\* What Finish does: the entry of the last level becomes what the call asks
\* for, and a page of the heap that was a table would be cleared.
LEMMA FinishIs ==
  ASSUME Typing, Finish
  PROVE  /\ walk.level = 4 /\ NewEntry \in Entry
         /\ DOMAIN tables' = DOMAIN tables
         /\ \A t \in DOMAIN tables :
              /\ tables'[t] \in [Index -> Entry]
              /\ \A i \in Index :
                   tables'[t][i] =
                     IF Call.op = "heap" /\ walk.frame \in DOMAIN tables /\ t = walk.frame THEN NoEntry
                     ELSE IF t = walk.table /\ i = Slot THEN NewEntry ELSE tables[t][i]
         /\ walk'.level = 0 /\ WalkRecord' /\ calls' = Tail(calls) /\ CallsType'
         /\ walk'.frame = walk.frame
         /\ UNCHANGED <<allocator, stage, pml4, cr3, heapEnd, fault, level>>
<1> DEFINE written == [tables EXCEPT ![walk.table][Slot] = NewEntry]
<1>1. /\ walk.level = 4 /\ calls' = Tail(calls) /\ walk' = [walk EXCEPT !.level = 0]
      /\ tables' = IF Call.op = "heap" /\ walk.frame \in DOMAIN tables
                   THEN [written EXCEPT ![walk.frame] = Cleared] ELSE written
      /\ UNCHANGED <<allocator, stage, pml4, cr3, heapEnd, fault, level>>
  BY DEF Finish
<1>2. Slot \in Index /\ Current \in Entry /\ Call.flag \in Flag /\ Tail(calls) \in Seq(Request4)
  BY <1>1, WalkType
<1>3. walk.frame \in Nat
  BY DEF Typing, WalkRecord
<1>4. NewEntry \in Entry
  BY <1>2, <1>3, EntryTypes DEF NewEntry
<1>5. /\ DOMAIN written = DOMAIN tables
      /\ \A t \in DOMAIN tables :
           /\ written[t] \in [Index -> Entry]
           /\ \A i \in Index : written[t][i] = IF t = walk.table /\ i = Slot THEN NewEntry ELSE tables[t][i]
  BY <1>2, <1>4, TablesWritten DEF Typing, TablesType
<1> HIDE DEF written
<1>6. DOMAIN tables' = DOMAIN tables
  BY <1>1, <1>5
<1>7. ASSUME NEW t \in DOMAIN tables
      PROVE  tables'[t] = IF Call.op = "heap" /\ walk.frame \in DOMAIN tables /\ t = walk.frame
                          THEN Cleared ELSE written[t]
  BY <1>1, <1>5, <1>7
<1>8. ASSUME NEW t \in DOMAIN tables
      PROVE  /\ tables'[t] \in [Index -> Entry]
             /\ \A i \in Index :
                  tables'[t][i] =
                    IF Call.op = "heap" /\ walk.frame \in DOMAIN tables /\ t = walk.frame THEN NoEntry
                    ELSE IF t = walk.table /\ i = Slot THEN NewEntry ELSE tables[t][i]
  <2>1. CASE Call.op = "heap" /\ walk.frame \in DOMAIN tables /\ t = walk.frame
    BY <1>7, <2>1, EntryTypes DEF Cleared
  <2>2. CASE ~(Call.op = "heap" /\ walk.frame \in DOMAIN tables /\ t = walk.frame)
    BY <1>5, <1>7, <2>2
  <2>3. QED BY <2>1, <2>2
<1>9. 0 \in 0 .. 4
  OBVIOUS
<1>10. walk' \in [level : 0 .. 4, table : Nat \cup {-1}, frame : Nat]
       /\ walk'.level = 0 /\ walk'.frame = walk.frame
  BY <1>1, <1>9 DEF Typing, WalkRecord
<1>11. QED BY <1>1, <1>2, <1>4, <1>6, <1>8, <1>10 DEF WalkRecord, CallsType

\* Adding a table.
LEMMA AddTableTyping == ASSUME Typing, AddTable PROVE Typing'
<1>1. PICK f \in Nat :
           /\ f \in {0} \cup PFA!Candidates /\ Request(f)
           /\ DOMAIN tables' = DOMAIN tables \cup {f}
           /\ \A t \in DOMAIN tables' : tables'[t] \in [Index -> Entry]
           /\ DOMAIN level' = DOMAIN tables \cup {f}
           /\ level'[f] = walk.level + 1
           /\ \A t \in DOMAIN tables \ {f} : level'[t] = level[t]
           /\ walk.level \in 1 .. 3
           /\ WalkRecord'
           /\ UNCHANGED <<stage, pml4, cr3, calls, heapEnd, fault>>
  BY AddTableIs
<1>2. stage = "running" /\ calls # <<>> /\ Call.op # "load"
  BY <1>1, WalkType
<1>3. Searches'
  BY <1>1, Requests DEF Typing
<1>4. TablesType'
  BY <1>1 DEF Typing, TablesType
<1>5. LevelsType'
  <2>1. level'[f] \in 1 .. 4
    BY <1>1
  <2>2. \A t \in DOMAIN tables \ {f} : level'[t] \in 1 .. 4
    BY <1>1 DEF Typing, LevelsType
  <2>3. QED BY <1>1, <2>1, <2>2 DEF LevelsType
<1>6. Scalars' /\ CallsType' /\ Boot' /\ Walks'
  BY <1>1, <1>2 DEF Typing, Scalars, CallsType, Boot, Walks, Call
<1>7. QED BY <1>1, <1>3, <1>4, <1>5, <1>6 DEF Typing

\* The end of a call.
LEMMA FinishTyping == ASSUME Typing, Finish PROVE Typing'
<1>1. /\ walk.level = 4 /\ walk'.level = 0 /\ WalkRecord' /\ CallsType'
      /\ DOMAIN tables' = DOMAIN tables
      /\ \A t \in DOMAIN tables : tables'[t] \in [Index -> Entry]
      /\ UNCHANGED <<allocator, stage, pml4, cr3, heapEnd, fault, level>>
  BY FinishIs
<1>2. stage = "running"
  BY <1>1, WalkType
<1>3. TablesType'
  BY <1>1 DEF Typing, TablesType
<1>4. Scalars' /\ LevelsType' /\ Boot' /\ Walks' /\ Searches'
  BY <1>1, <1>2 DEF Typing, Scalars, LevelsType, Boot, Walks, Searches, allocator
<1>5. QED BY <1>1, <1>3, <1>4 DEF Typing

\* A page fault; the machine stops with everything as it is, but for a page
\* that was requested.
LEMMA PageFaultTyping ==
  ASSUME Typing, PageFault
  PROVE  /\ Typing' /\ fault'
         /\ UNCHANGED <<stage, pml4, tables, cr3, calls, walk, heapEnd, level>>
<1>1. /\ fault' = TRUE /\ walk.level # 0
      /\ UNCHANGED <<stage, pml4, tables, cr3, calls, walk, heapEnd, level>>
  BY DEF PageFault
<1>2. fault' \in BOOLEAN /\ stage = "running"
  BY <1>1, WalkType
<1>3. Searches'
  <2>1. CASE UNCHANGED allocator
    BY <2>1 DEF Typing, Searches, allocator
  <2>2. CASE \E f \in Nat \cap ({0} \cup PFA!Candidates) : Request(f)
    BY <2>2, Requests DEF Typing
  <2>3. QED BY <2>1, <2>2 DEF PageFault
<1>4. Scalars' /\ TablesType' /\ WalkRecord' /\ CallsType' /\ LevelsType' /\ Boot' /\ Walks'
  BY <1>1, <1>2 DEF Typing, Scalars, TablesType, WalkRecord, CallsType, LevelsType, Boot, Walks, Call
<1>5. QED BY <1>1, <1>3, <1>4 DEF Typing

\* The callers in the running kernel.
LEMMA CallersTyping ==
  ASSUME Typing
  PROVE  /\ \A count \in 1 .. MaxHeap : ExpandHeap(count) => Typing'
         /\ \A device \in Devices : MapDevice(device) => Typing'
<1>1. ASSUME NEW count \in 1 .. MaxHeap, ExpandHeap(count) PROVE Typing'
  <2>1. /\ stage = "running" /\ walk.level = 0 /\ count \in Nat /\ heapEnd \in Nat
        /\ calls' = HeapCalls(heapEnd, count) /\ heapEnd' = heapEnd + count
        /\ UNCHANGED <<allocator, stage, pml4, tables, cr3, walk, fault, level>>
    BY <1>1, ParameterAssumption DEF ExpandHeap, Idle, Typing, Scalars
  <2>2. CallsType' /\ heapEnd' \in Nat
    BY <2>1, CallTypes, HeapCallsIn DEF CallsType
  <2>3. Scalars' /\ TablesType' /\ WalkRecord' /\ LevelsType' /\ Boot' /\ Walks' /\ Searches'
    BY <2>1, <2>2 DEF Typing, Scalars, TablesType, WalkRecord, LevelsType, Boot, Walks, Searches, allocator
  <2>4. QED BY <2>2, <2>3 DEF Typing
<1>2. ASSUME NEW device \in Devices, MapDevice(device) PROVE Typing'
  <2>1. /\ stage = "running" /\ walk.level = 0 /\ device \in Nat
        /\ calls' = <<MapCall(device, device)>>
        /\ UNCHANGED <<allocator, stage, pml4, tables, cr3, walk, heapEnd, fault, level>>
    BY <1>2, ParameterAssumption DEF MapDevice, Idle
  <2>2. MapCall(device, device) \in Request4
    BY <2>1, CallTypes
  <2>3. CallsType'
    BY <2>1, <2>2 DEF CallsType
  <2>4. Scalars' /\ TablesType' /\ WalkRecord' /\ LevelsType' /\ Boot' /\ Walks' /\ Searches'
    BY <2>1 DEF Typing, Scalars, TablesType, WalkRecord, LevelsType, Boot, Walks, Searches, allocator
  <2>5. QED BY <2>3, <2>4 DEF Typing
<1>3. QED BY <1>1, <1>2

\* A step in which nothing happens.
LEMMA StutterTyping == ASSUME Typing, UNCHANGED vars PROVE Typing'
  BY DEF Typing, Scalars, TablesType, WalkRecord, CallsType, LevelsType, Boot, Walks, Call, Searches,
         vars, allocator, paging

\* Every step keeps the types.
LEMMA TypingStep == Typing /\ [Next]_vars => Typing'
<1> SUFFICES ASSUME Typing, [Next]_vars PROVE Typing'
  OBVIOUS
<1>1. CASE Next
  BY <1>1, BootTyping, NewTablesTyping, LoadTyping, BeginTyping, DescendTyping, AddTableTyping,
     FinishTyping, PageFaultTyping, CallersTyping DEF Next
<1>2. CASE UNCHANGED vars
  BY <1>2, StutterTyping
<1>3. QED BY <1>1, <1>2

\* Only RequestPage adds to the pages it returned.
LEMMA GivingStep == Typing /\ Giving /\ [Next]_vars => Giving'
<1> SUFFICES ASSUME Typing, Giving, [Next]_vars PROVE Giving'
  OBVIOUS
<1>1. CASE ReadEfiMemoryMap \/ LockFramebuffer \/ LockKernel
  BY <1>1 DEF ReadEfiMemoryMap, LockFramebuffer, LockKernel, Giving
<1>2. CASE Load \/ Begin \/ Descend \/ Finish \/ (\E count \in 1 .. MaxHeap : ExpandHeap(count))
           \/ (\E device \in Devices : MapDevice(device)) \/ UNCHANGED vars
  <2>1. given' = given /\ stage' = stage
    BY <1>2 DEF Load, Begin, Descend, Finish, ExpandHeap, MapDevice, vars, paging, allocator
  <2>2. QED BY <2>1 DEF Giving
<1>3. CASE NewTables \/ BeginHeap \/ AddTable \/ PageFault
  <2>1. stage' = "running"
    <3>1. NewTables => stage' = "running"
      BY DEF NewTables
    <3>2. BeginHeap => stage' = stage /\ calls # <<>>
      BY DEF BeginHeap
    <3>3. ASSUME AddTable PROVE stage' = stage /\ walk.level # 0
      <4>1. stage' = stage /\ walk.level \in 1 .. 3
        BY <3>3, AddTableIs
      <4>2. QED BY <4>1
    <3>4. PageFault => stage' = stage /\ walk.level # 0
      BY DEF PageFault
    <3>5. calls # <<>> \/ walk.level # 0 => stage = "running"
      BY DEF Typing, Boot
    <3>6. QED BY <1>3, <3>1, <3>2, <3>3, <3>4, <3>5
  <2>2. \/ UNCHANGED allocator
        \/ \E f \in Nat \cap ({0} \cup PFA!Candidates) : Request(f)
    BY <1>3 DEF NewTables, BeginHeap, AddTable, PageFault
  <2>3. given' = given \/ \E f \in Nat : given' = given \cup ({f} \ {0})
    BY <2>2 DEF allocator, Request
  <2>4. QED BY <2>1, <2>3 DEF Giving
<1>4. QED BY <1>1, <1>2, <1>3 DEF Next

LEMMA TypingAlways == Spec => [](Typing /\ Giving)
<1>1. Init => Giving
  BY DEF Init, Giving
<1>2. QED BY <1>1, InitTyping, TypingStep, GivingStep, PTL DEF Spec

\* The page tables stay of their types: indices stay within a table, walks
\* within four levels, and the calls that InitializePaging, ExpandHeap and the
\* drivers make are calls of pages.
THEOREM TypeCorrect == Spec => []TypeOK
  BY TypingAlways, Parts, PTL

-----------------------------------------------------------------------------
(***************************************************************************)
(* The tables are a tree, until they collapse.                             *)
(***************************************************************************)
Standing == stage = "running" /\ ~Collapsed

\* An entry of a table that is not of the last level, and that is present.
Upper(t, i) == t \in DOMAIN tables /\ level[t] < 4 /\ Present(tables[t][i])

\* PML4 is the root, each upper entry leads to a table one level further down,
\* and no two lead to the same.
Shape ==
    /\ pml4 \in DOMAIN tables /\ level[pml4] = 1
    /\ \A t \in DOMAIN tables : \A i \in Index :
         Upper(t, i) => /\ tables[t][i].address \in DOMAIN tables
                        /\ level[tables[t][i].address] = level[t] + 1
    /\ \A t, u \in DOMAIN tables : \A i, j \in Index :
         Upper(t, i) /\ Upper(u, j) /\ tables[t][i].address = tables[u][j].address
           => t = u /\ i = j

\* Tables are pages that were handed out.
Taken == DOMAIN tables \subseteq pageBitmap

\* The walk is at the table of its level on the way to its page.
OnPath ==
    walk.level # 0 =>
        /\ walk.table \in DOMAIN tables
        /\ walk.level = 1 => walk.table = pml4
        /\ walk.level = 2 => walk.table = PDP(Call.page)
        /\ walk.level = 3 => walk.table = PD(Call.page)
        /\ walk.level = 4 => walk.table = PT(Call.page)

\* A page that is to become one of the heap's is not a table.
Apart == walk.level # 0 /\ Call.op = "heap" => walk.frame = 0 \/ walk.frame \in pageBitmap \ DOMAIN tables

Tree == Standing => Shape /\ Taken /\ OnPath /\ Apart

TInv == Typing /\ Tree

\* What a present upper entry leads to.
LEMMA BelowUpper ==
  ASSUME Typing, Shape, NEW t, NEW i \in Index, Below(t, i) # -1
  PROVE  /\ t \in DOMAIN tables /\ Below(t, i) = tables[t][i].address
         /\ Present(tables[t][i])
         /\ level[t] < 4 => /\ Upper(t, i) /\ Below(t, i) \in DOMAIN tables
                            /\ level[Below(t, i)] = level[t] + 1
<1>1. t \in DOMAIN tables /\ Present(Lookup(t, i))
  BY LookupType DEF Typing
<1>2. Below(t, i) = tables[t][i].address /\ Present(tables[t][i])
  BY <1>1 DEF Below, Lookup
<1>3. QED BY <1>1, <1>2 DEF Upper, Shape

\* The tables on the way to a page are of the levels two, three and four.
LEMMA PathLevels ==
  ASSUME Typing, Shape, NEW p \in Page
  PROVE  /\ PDP(p) # -1 => PDP(p) \in DOMAIN tables /\ level[PDP(p)] = 2
         /\ PD(p) # -1 => /\ PD(p) \in DOMAIN tables /\ level[PD(p)] = 3
                          /\ PDP(p) # -1
         /\ PT(p) # -1 => /\ PT(p) \in DOMAIN tables /\ level[PT(p)] = 4
                          /\ PD(p) # -1 /\ PDP(p) # -1
<1>1. p[1] \in Index /\ p[2] \in Index /\ p[3] \in Index
  BY PageIndices
<1>2. -1 \notin DOMAIN tables
  BY DEF Typing, TablesType
<1>3. PDP(p) # -1 => PDP(p) \in DOMAIN tables /\ level[PDP(p)] = 2
  BY <1>1, BelowUpper DEF PDP, Shape
<1>4. PD(p) # -1 => /\ PD(p) \in DOMAIN tables /\ level[PD(p)] = 3 /\ PDP(p) # -1
  BY <1>1, <1>2, <1>3, BelowUpper DEF PD
<1>5. PT(p) # -1 => /\ PT(p) \in DOMAIN tables /\ level[PT(p)] = 4 /\ PD(p) # -1
  BY <1>1, <1>2, <1>4, BelowUpper DEF PT
<1>6. QED BY <1>3, <1>4, <1>5

\* Two pages that have their entries in one place are one page.
LEMMA OnePage ==
  ASSUME Typing, Shape, NEW p \in Page, NEW q \in Page,
         PT(p) # -1, PT(p) = PT(q), p[4] = q[4]
  PROVE  p = q
<1>1. /\ p[1] \in Index /\ p[2] \in Index /\ p[3] \in Index
      /\ q[1] \in Index /\ q[2] \in Index /\ q[3] \in Index
  BY PageIndices
<1>2. /\ PDP(p) # -1 /\ PD(p) # -1 /\ PDP(q) # -1 /\ PD(q) # -1
      /\ level[PD(p)] = 3 /\ level[PD(q)] = 3 /\ level[PDP(p)] = 2 /\ level[PDP(q)] = 2
  BY PathLevels
<1>3. \A t, u : \A i, j \in Index :
        /\ t \in DOMAIN tables /\ u \in DOMAIN tables
        /\ level[t] < 4 /\ level[u] < 4 /\ Below(t, i) # -1 /\ Below(t, i) = Below(u, j)
        => t = u /\ i = j
  BY BelowUpper DEF Shape
<1>4. PD(p) = PD(q) /\ p[3] = q[3]
  BY <1>1, <1>2, <1>3, PathLevels DEF PT
<1>5. PDP(p) = PDP(q) /\ p[2] = q[2]
  BY <1>1, <1>2, <1>3, <1>4, PathLevels DEF PD
<1>6. p[1] = q[1]
  <2>1. pml4 \in DOMAIN tables /\ level[pml4] = 1
    BY DEF Shape
  <2>2. Below(pml4, p[1]) # -1 /\ Below(pml4, p[1]) = Below(pml4, q[1])
    BY <1>2, <1>5 DEF PDP
  <2>3. QED BY <1>1, <1>3, <2>1, <2>2
<1>7. p = <<p[1], p[2], p[3], p[4]>> /\ q = <<q[1], q[2], q[3], q[4]>>
  BY DEF Page
<1>8. QED BY <1>4, <1>5, <1>6, <1>7

\* The walk's table is of the walk's level.
LEMMA WalkLevel ==
  ASSUME Typing, Shape, OnPath, walk.level # 0
  PROVE  walk.table \in DOMAIN tables /\ level[walk.table] = walk.level
<1>1. walk.level \in 1 .. 4 /\ Call.page \in Page
  BY WalkType
<1>2. walk.table # -1 /\ walk.table \in DOMAIN tables
  BY DEF Typing, TablesType, OnPath
<1>3. CASE walk.level = 1
  BY <1>2, <1>3 DEF OnPath, Shape
<1>4. CASE walk.level = 2
  BY <1>1, <1>2, <1>4, PathLevels DEF OnPath
<1>5. CASE walk.level = 3
  BY <1>1, <1>2, <1>5, PathLevels DEF OnPath
<1>6. CASE walk.level = 4
  BY <1>1, <1>2, <1>6, PathLevels DEF OnPath
<1>7. QED BY <1>1, <1>2, <1>3, <1>4, <1>5, <1>6

\* The current entry, by what it leads to and what page it is for.
LEMMA CurrentIs ==
  ASSUME Typing, Shape, OnPath, walk.level # 0
  PROVE  /\ Slot = Call.page[walk.level]
         /\ Current = tables[walk.table][Slot]
         /\ Present(Current) <=> Below(walk.table, Slot) # -1
         /\ Present(Current) => Below(walk.table, Slot) = Current.address
         /\ walk.level = 1 => Below(walk.table, Slot) = PDP(Call.page)
         /\ walk.level = 2 => Below(walk.table, Slot) = PD(Call.page)
         /\ walk.level = 3 => Below(walk.table, Slot) = PT(Call.page)
         /\ walk.level = 4 => Current = Translate(Call.page)
<1>1. Slot \in Index /\ walk.table \in DOMAIN tables /\ walk.level \in 1 .. 4
  BY WalkType, WalkLevel
<1>2. Present(Current) <=> Below(walk.table, Slot) # -1
  BY <1>1, LookupType DEF Current, Typing
<1>3. Present(Current) => Below(walk.table, Slot) = Current.address
  BY DEF Below, Current
<1>4. Current = tables[walk.table][Slot] /\ Slot = Call.page[walk.level]
  BY <1>1 DEF Current, Lookup, Slot
<1>5. walk.level = 1 => Below(walk.table, Slot) = PDP(Call.page)
  BY <1>4 DEF OnPath, PDP
<1>6. walk.level = 2 => Below(walk.table, Slot) = PD(Call.page)
  BY <1>4 DEF OnPath, PD
<1>7. walk.level = 3 => Below(walk.table, Slot) = PT(Call.page)
  BY <1>4 DEF OnPath, PT
<1>8. walk.level = 4 => Current = Translate(Call.page)
  BY <1>4 DEF OnPath, Translate, Current
<1>9. QED BY <1>2, <1>3, <1>4, <1>5, <1>6, <1>7, <1>8

-----------------------------------------------------------------------------
\* An empty page that is hooked in as a table changes what it is hooked to,
\* and nothing is mapped through it yet.
LEMMA AddTableMap ==
  ASSUME Typing, Shape, Taken, OnPath, stage = "running", ~Collapsed, AddTable, ~Collapsed'
  PROVE  \E f \in Nat :
           /\ f \notin pageBitmap /\ f \notin DOMAIN tables /\ f # 0 /\ f \in PFA!Bits
           /\ pageBitmap' = pageBitmap \cup {f}
           /\ DOMAIN tables' = DOMAIN tables \cup {f}
           /\ DOMAIN level' = DOMAIN tables' /\ level'[f] = walk.level + 1
           /\ \A t \in DOMAIN tables : level'[t] = level[t]
           /\ \A i \in Index : tables'[f][i] = NoEntry
           /\ \A t \in DOMAIN tables : \A i \in Index :
                tables'[t][i] = IF t = walk.table /\ i = Slot THEN Mapped(Current, f) ELSE tables[t][i]
           /\ \A t : \A i \in Index :
                Below(t, i)' = IF t = walk.table /\ i = Slot THEN f ELSE Below(t, i)
           /\ walk.level \in 1 .. 3 /\ walk'.level = walk.level + 1
           /\ walk'.table = f /\ walk'.frame = walk.frame
           /\ Below(walk.table, Slot) = -1
           /\ UNCHANGED <<stage, pml4, cr3, calls, heapEnd, fault>>
<1>1. PICK f \in Nat :
           /\ f \in {0} \cup PFA!Candidates /\ Request(f)
           /\ DOMAIN tables' = DOMAIN tables \cup {f}
           /\ \A t \in DOMAIN tables' :
                /\ tables'[t] \in [Index -> Entry]
                /\ \A i \in Index :
                     tables'[t][i] = IF t = walk.table /\ i = Slot THEN Mapped(Current, f)
                                     ELSE IF t = f THEN NoEntry ELSE tables[t][i]
           /\ DOMAIN level' = DOMAIN tables \cup {f}
           /\ level'[f] = walk.level + 1
           /\ \A t \in DOMAIN tables \ {f} : level'[t] = level[t]
           /\ walk.level \in 1 .. 3 /\ walk'.level = walk.level + 1
           /\ walk'.table = f /\ walk'.frame = walk.frame
           /\ ~Present(Current)
           /\ UNCHANGED <<stage, pml4, cr3, calls, heapEnd, fault>>
  BY AddTableIs
<1>2. f # 0
  BY <1>1 DEF Collapsed
<1>3. f \notin pageBitmap /\ f \in PFA!Bits /\ pageBitmap' = pageBitmap \cup {f}
  BY <1>1, <1>2, Requests DEF Typing
<1>4. f \notin DOMAIN tables
  BY <1>3 DEF Taken
<1>5. /\ walk.table \in DOMAIN tables /\ Slot \in Index /\ Current \in Entry
      /\ Below(walk.table, Slot) = -1
  BY <1>1, WalkLevel, WalkType, CurrentIs
<1>6. /\ \A i \in Index : tables'[f][i] = NoEntry
      /\ \A t \in DOMAIN tables : \A i \in Index :
           tables'[t][i] = IF t = walk.table /\ i = Slot THEN Mapped(Current, f) ELSE tables[t][i]
      /\ \A t \in DOMAIN tables : level'[t] = level[t]
  BY <1>1, <1>4, <1>5
<1>7. ASSUME NEW t, NEW i \in Index
      PROVE  Below(t, i)' = IF t = walk.table /\ i = Slot THEN f ELSE Below(t, i)
  <2>1. CASE t = walk.table /\ i = Slot
    <3>1. tables'[t][i] = Mapped(Current, f) /\ t \in DOMAIN tables'
      BY <1>1, <1>5, <1>6, <2>1
    <3>2. Lookup(t, i)' = Mapped(Current, f)
      BY <3>1 DEF Lookup
    <3>3. Present(Mapped(Current, f)) /\ Mapped(Current, f).address = f
      BY <1>5, EntryTypes
    <3>4. QED BY <2>1, <3>2, <3>3 DEF Below, Present
  <2>2. CASE ~(t = walk.table /\ i = Slot) /\ t \in DOMAIN tables
    <3>1. tables'[t][i] = tables[t][i] /\ t \in DOMAIN tables'
      BY <1>1, <1>6, <2>2
    <3>2. Lookup(t, i)' = Lookup(t, i)
      BY <2>2, <3>1 DEF Lookup
    <3>3. QED BY <2>2, <3>2 DEF Below, Present
  <2>3. CASE ~(t = walk.table /\ i = Slot) /\ t \notin DOMAIN tables
    <3>1. Lookup(t, i)' = NoEntry /\ Lookup(t, i) = NoEntry
      BY <1>1, <1>6, <2>3 DEF Lookup
    <3>2. QED BY <2>3, <3>1 DEF Below, Present
  <2>4. QED BY <2>1, <2>2, <2>3
<1> WITNESS f \in Nat
<1>8. QED BY <1>1, <1>2, <1>3, <1>4, <1>5, <1>6, <1>7

\* What the tables translate a page to stays when a table is added.
LEMMA AddTableTranslates ==
  ASSUME Typing, Shape, Taken, OnPath, stage = "running", ~Collapsed, AddTable, ~Collapsed',
         NEW p \in Page
  PROVE  Translate(p)' = Translate(p)
<1>1. PICK f \in Nat :
           /\ f \notin DOMAIN tables
           /\ DOMAIN tables' = DOMAIN tables \cup {f}
           /\ \A i \in Index : tables'[f][i] = NoEntry
           /\ \A t \in DOMAIN tables : \A i \in Index :
                tables'[t][i] = IF t = walk.table /\ i = Slot THEN Mapped(Current, f) ELSE tables[t][i]
           /\ \A t : \A i \in Index :
                Below(t, i)' = IF t = walk.table /\ i = Slot THEN f ELSE Below(t, i)
           /\ walk.level \in 1 .. 3
           /\ Below(walk.table, Slot) = -1
           /\ pml4' = pml4
  BY AddTableMap
<1> DEFINE look(t, i) == IF t \in DOMAIN tables' THEN tables'[t][i] ELSE NoEntry
           b(t, i) == IF Present(look(t, i)) THEN look(t, i).address ELSE -1
<1>2. /\ PDP(p)' = b(pml4, p[1]) /\ PD(p)' = b(PDP(p)', p[2]) /\ PT(p)' = b(PD(p)', p[3])
  <2>1. PDP(p)' = b(pml4, p[1])
    BY <1>1 DEF PDP, Below, Lookup, Present
  <2>2. PD(p)' = b(PDP(p)', p[2])
    BY DEF PD, Below, Lookup, Present
  <2>3. PT(p)' = b(PD(p)', p[3])
    BY DEF PT, Below, Lookup, Present
  <2>4. QED BY <2>1, <2>2, <2>3
<1>3. \A t : \A i \in Index : b(t, i) = IF t = walk.table /\ i = Slot THEN f ELSE Below(t, i)
  <2>1. ASSUME NEW t, NEW i \in Index PROVE Below(t, i)' = b(t, i)
    BY DEF Below, Lookup, Present
  <2>2. QED BY <1>1, <2>1
<1> HIDE DEF b, look
<1>4. p[1] \in Index /\ p[2] \in Index /\ p[3] \in Index /\ p[4] \in Index
  BY PageIndices
<1>5. /\ PDP(p) = Below(pml4, p[1]) /\ PD(p) = Below(PDP(p), p[2]) /\ PT(p) = Below(PD(p), p[3])
  BY DEF PDP, PD, PT
<1>6. walk.table \in DOMAIN tables /\ level[walk.table] \in 1 .. 3 /\ f # walk.table
  BY <1>1, WalkLevel
<1>7. \A i \in Index : Below(f, i) = -1 /\ Below(-1, i) = -1
  BY <1>1, LookupType DEF Typing, TablesType
<1>8. -1 \notin DOMAIN tables /\ -1 # f
  BY <1>1 DEF Typing, TablesType
<1>9. PT(p)' = PT(p) \/ (PT(p) = -1 /\ PT(p)' = f)
  <2> DEFINE old(t, i) == Below(t, i)
             w == walk.table
             s == Slot
             d1 == PDP(p)
             d2 == PD(p)
             d3 == PT(p)
             e1 == PDP(p)'
             e2 == PD(p)'
             e3 == PT(p)'
  <2>1. /\ \A t : \A i \in Index : b(t, i) = IF t = w /\ i = s THEN f ELSE old(t, i)
        /\ old(w, s) = -1 /\ f # w /\ w # -1
        /\ \A i \in Index : old(f, i) = -1 /\ old(-1, i) = -1
    BY <1>1, <1>3, <1>6, <1>7, <1>8
  <2>2. /\ d1 = old(pml4, p[1]) /\ d2 = old(d1, p[2]) /\ d3 = old(d2, p[3])
        /\ e1 = b(pml4, p[1]) /\ e2 = b(e1, p[2]) /\ e3 = b(e2, p[3])
    BY <1>2, <1>5
  <2> HIDE DEF old, w, s, d1, d2, d3, e1, e2, e3
  <2>3. e1 = d1 \/ (d1 = -1 /\ e1 = f)
    BY <1>4, <2>1, <2>2
  <2>4. e2 = d2 \/ (d2 = -1 /\ e2 = f)
    BY <1>4, <2>1, <2>2, <2>3
  <2>5. e3 = d3 \/ (d3 = -1 /\ e3 = f)
    BY <1>4, <2>1, <2>2, <2>4
  <2>6. QED BY <2>5 DEF d3, e3
<1>10. CASE PT(p)' = f /\ PT(p) = -1
  <2>1. Translate(p) = NoEntry
    BY <1>8, <1>10 DEF Translate, Lookup
  <2>2. f \in DOMAIN tables' /\ tables'[f][p[4]] = NoEntry
    BY <1>1, <1>4
  <2>3. Translate(p)' = NoEntry
    BY <1>10, <2>2 DEF Translate, Lookup
  <2>4. QED BY <2>1, <2>3
<1>11. CASE PT(p)' = PT(p) /\ PT(p) = -1
  <2>1. -1 \notin DOMAIN tables'
    BY <1>1, <1>8
  <2>2. QED BY <1>8, <1>11, <2>1 DEF Translate, Lookup
<1>12. CASE PT(p)' = PT(p) /\ PT(p) # -1
  <2>1. PT(p) \in DOMAIN tables /\ PT(p) # walk.table
    BY <1>6, <1>12, PathLevels
  <2>2. PT(p) \in DOMAIN tables' /\ tables'[PT(p)][p[4]] = tables[PT(p)][p[4]]
    BY <1>1, <1>4, <2>1
  <2>3. QED BY <1>12, <2>1, <2>2 DEF Translate, Lookup
<1>13. QED BY <1>9, <1>10, <1>11, <1>12

\* What Finish leaves: the tree above the last level, and every entry of the
\* last level but one.
LEMMA FinishMap ==
  ASSUME Typing, Shape, OnPath, Apart, ~Collapsed, Finish
  PROVE  /\ DOMAIN tables' = DOMAIN tables /\ level' = level /\ pml4' = pml4
         /\ walk.level = 4 /\ level[walk.table] = 4 /\ walk.table \in DOMAIN tables
         /\ walk.table = PT(Call.page) /\ Slot = Call.page[4] /\ Slot \in Index
         /\ \A t \in DOMAIN tables : \A i \in Index :
              tables'[t][i] = IF t = walk.table /\ i = Slot THEN NewEntry ELSE tables[t][i]
         /\ \A t \in DOMAIN tables : level[t] < 4 => \A i \in Index : Below(t, i)' = Below(t, i)
         /\ \A p \in Page : PDP(p)' = PDP(p) /\ PD(p)' = PD(p) /\ PT(p)' = PT(p)
<1>1. /\ walk.level = 4 /\ DOMAIN tables' = DOMAIN tables /\ level' = level /\ pml4' = pml4
      /\ \A t \in DOMAIN tables :
           /\ tables'[t] \in [Index -> Entry]
           /\ \A i \in Index :
                tables'[t][i] =
                  IF Call.op = "heap" /\ walk.frame \in DOMAIN tables /\ t = walk.frame THEN NoEntry
                  ELSE IF t = walk.table /\ i = Slot THEN NewEntry ELSE tables[t][i]
  BY FinishIs
<1>2. ~(Call.op = "heap" /\ walk.frame \in DOMAIN tables)
  BY <1>1 DEF Apart, Collapsed
<1>3. \A t \in DOMAIN tables : \A i \in Index :
        tables'[t][i] = IF t = walk.table /\ i = Slot THEN NewEntry ELSE tables[t][i]
  BY <1>1, <1>2
<1>4. /\ walk.table \in DOMAIN tables /\ level[walk.table] = 4 /\ Slot \in Index
      /\ Slot = Call.page[4] /\ walk.table = PT(Call.page)
  BY <1>1, WalkLevel, WalkType DEF OnPath, Slot
<1>5. ASSUME NEW t, t \in DOMAIN tables => level[t] < 4, NEW i \in Index
      PROVE  Below(t, i)' = Below(t, i)
  <2>1. CASE t \in DOMAIN tables
    <3>1. tables'[t][i] = tables[t][i]
      BY <1>3, <1>4, <1>5, <2>1
    <3>2. Lookup(t, i)' = Lookup(t, i)
      BY <1>1, <2>1, <3>1 DEF Lookup
    <3>3. QED BY <3>2 DEF Below, Present
  <2>2. CASE t \notin DOMAIN tables
    BY <1>1, <2>2 DEF Below, Lookup, Present
  <2>3. QED BY <2>1, <2>2
<1>6. ASSUME NEW p \in Page PROVE PDP(p)' = PDP(p) /\ PD(p)' = PD(p) /\ PT(p)' = PT(p)
  <2>1. p[1] \in Index /\ p[2] \in Index /\ p[3] \in Index /\ -1 \notin DOMAIN tables
    BY PageIndices DEF Typing, TablesType
  <2>2. PDP(p)' = PDP(p)
    BY <1>1, <1>5, <2>1 DEF PDP, Shape
  <2>3. PDP(p) \in DOMAIN tables => level[PDP(p)] < 4
    BY <2>1, PathLevels
  <2>4. PD(p)' = PD(p)
    BY <1>5, <2>1, <2>2, <2>3 DEF PD
  <2>5. PD(p) \in DOMAIN tables => level[PD(p)] < 4
    BY <2>1, PathLevels
  <2>6. PT(p)' = PT(p)
    BY <1>5, <2>1, <2>4, <2>5 DEF PT
  <2>7. QED BY <2>2, <2>4, <2>6
<1>7. QED BY <1>1, <1>3, <1>4, <1>5, <1>6

-----------------------------------------------------------------------------
(***************************************************************************)
(* Every step leaves a tree.                                               *)
(***************************************************************************)
\* A step that leaves the tables alone and takes no page back.
LEMMA TreeKept ==
  ASSUME Tree, stage = "running", UNCHANGED <<stage, pml4, tables, level>>,
         pageBitmap \subseteq pageBitmap', Standing => OnPath' /\ Apart'
  PROVE  Tree'
<1>1. SUFFICES ASSUME Standing' PROVE Shape' /\ Taken' /\ OnPath' /\ Apart'
  BY DEF Tree
<1>2. Standing /\ Shape /\ Taken /\ OnPath' /\ Apart'
  BY <1>1 DEF Tree, Standing, Collapsed
<1>3. Taken'
  BY <1>2 DEF Taken
<1>4. Shape'
  BY <1>2 DEF Shape, Upper
<1>5. QED BY <1>2, <1>3, <1>4

\* Before PML4 there is no tree, and PML4 alone is one.
LEMMA NewTablesTree == ASSUME TInv, NewTables PROVE Tree'
<1>1. PICK f \in Nat \cap ({0} \cup PFA!Candidates) :
        Request(f) /\ pml4' = f /\ tables' = Cell(f, Cleared) /\ level' = [t \in {f} |-> 1]
  BY DEF NewTables
<1>2. DOMAIN tables = {} /\ walk.level = 0 /\ walk' = walk
  BY DEF NewTables, TInv, Typing, Boot
<1>3. DOMAIN tables' = {f} /\ tables'[f] = Cleared /\ DOMAIN level' = {f} /\ level'[f] = 1
  BY <1>1, <1>2, CellIs
<1>4. \A i \in Index : ~Present(tables'[f][i])
  BY <1>3, EntryTypes DEF Cleared
<1>5. Shape'
  BY <1>1, <1>3, <1>4 DEF Shape, Upper, Present
<1>6. f # 0 => Taken'
  BY <1>1, <1>3, Requests DEF Taken, TInv, Typing
<1>7. OnPath' /\ Apart'
  BY <1>2 DEF OnPath, Apart
<1>8. f = 0 => Collapsed'
  BY <1>3 DEF Collapsed
<1>9. QED BY <1>5, <1>6, <1>7, <1>8 DEF Tree, Standing

\* A walk begins at the root.
LEMMA BeginTree == ASSUME TInv, Begin \/ BeginHeap PROVE Tree'
<1>1. /\ UNCHANGED <<stage, pml4, tables, cr3, calls, heapEnd, fault, level>>
      /\ calls # <<>> /\ stage = "running"
  BY DEF Begin, BeginHeap, TInv, Typing, Boot
<1>2. walk'.level = 1 /\ walk'.table = pml4
  BY BeginTyping DEF TInv
<1>3. ASSUME Standing PROVE OnPath'
  BY <1>1, <1>2, <1>3 DEF OnPath, TInv, Tree, Shape
<1>4. CASE Begin
  <2>1. pageBitmap' = pageBitmap /\ Call' = Call /\ Call.op # "heap"
    BY <1>4 DEF Begin, allocator, Call
  <2>2. Apart'
    BY <2>1 DEF Apart
  <2>3. QED BY <1>1, <1>3, <2>1, <2>2, TreeKept DEF TInv
<1>5. CASE BeginHeap
  <2>1. PICK f \in Nat \cap ({0} \cup PFA!Candidates) :
          Request(f) /\ walk' = [level |-> 1, table |-> pml4, frame |-> f]
    BY <1>5 DEF BeginHeap
  <2>2. \/ f = 0 /\ pageBitmap' = pageBitmap
        \/ f \notin pageBitmap /\ pageBitmap' = pageBitmap \cup {f}
    BY <2>1, Requests DEF TInv, Typing
  <2>3. Standing => Apart'
    BY <1>1, <2>1, <2>2 DEF Apart, TInv, Tree, Taken
  <2>4. QED BY <1>1, <1>3, <2>2, <2>3, TreeKept DEF TInv
<1>6. QED BY <1>4, <1>5

\* A walk goes on along its page's path.
LEMMA DescendTree == ASSUME TInv, Descend PROVE Tree'
<1>1. /\ walk.level \in 1 .. 3 /\ walk' = [walk EXCEPT !.level = @ + 1, !.table = Current.address]
      /\ Present(Current)
      /\ UNCHANGED <<allocator, stage, pml4, tables, cr3, calls, heapEnd, fault, level>>
  BY DEF Descend, Walking
<1>2. Typing /\ stage = "running" /\ Current.address \in Nat /\ Slot \in Index
  BY <1>1, WalkType DEF TInv, Entry
<1>3. /\ walk'.level = walk.level + 1 /\ walk'.table = Current.address
      /\ walk'.frame = walk.frame /\ Call' = Call
  BY <1>1, <1>2, WalkDown DEF Typing, Call
<1>4. /\ PDP(Call.page)' = PDP(Call.page) /\ PD(Call.page)' = PD(Call.page)
      /\ PT(Call.page)' = PT(Call.page)
  BY <1>1, <1>3 DEF PDP, PD, PT, Below, Lookup, Present
<1>5. ASSUME Standing PROVE OnPath' /\ Apart'
  <2>1. Shape /\ OnPath /\ Apart
    BY <1>5 DEF TInv, Tree
  <2>2. /\ level[walk.table] < 4
        /\ Below(walk.table, Slot) # -1 /\ Below(walk.table, Slot) = Current.address
        /\ walk.level = 1 => Below(walk.table, Slot) = PDP(Call.page)
        /\ walk.level = 2 => Below(walk.table, Slot) = PD(Call.page)
        /\ walk.level = 3 => Below(walk.table, Slot) = PT(Call.page)
    BY <1>1, <1>2, <2>1, CurrentIs, WalkLevel
  <2>3. Current.address \in DOMAIN tables
    BY <1>2, <2>1, <2>2, BelowUpper
  <2>4. OnPath'
    BY <1>1, <1>3, <1>4, <2>2, <2>3 DEF OnPath
  <2>5. Apart'
    BY <1>1, <1>3, <2>1 DEF Apart, allocator
  <2>6. QED BY <2>4, <2>5
<1>6. pageBitmap' = pageBitmap
  BY <1>1 DEF allocator
<1>7. QED BY <1>1, <1>2, <1>5, <1>6, TreeKept DEF TInv

\* A page is hooked in as a table.
LEMMA AddTableTree == ASSUME TInv, AddTable PROVE Tree'
<1>1. SUFFICES ASSUME Standing' PROVE Shape' /\ Taken' /\ OnPath' /\ Apart'
  BY DEF Tree
<1>2. DOMAIN tables \subseteq DOMAIN tables' /\ stage' = stage
  BY AddTableIs DEF TInv
<1>3. Standing
  BY <1>1, <1>2 DEF Standing, Collapsed
<1>4. Typing /\ Shape /\ Taken /\ OnPath /\ Apart /\ stage = "running" /\ ~Collapsed /\ ~Collapsed'
  BY <1>1, <1>3 DEF TInv, Tree, Standing
<1>5. PICK f \in Nat :
           /\ f \notin pageBitmap /\ f \notin DOMAIN tables /\ f # 0
           /\ pageBitmap' = pageBitmap \cup {f}
           /\ DOMAIN tables' = DOMAIN tables \cup {f}
           /\ DOMAIN level' = DOMAIN tables' /\ level'[f] = walk.level + 1
           /\ \A t \in DOMAIN tables : level'[t] = level[t]
           /\ \A i \in Index : tables'[f][i] = NoEntry
           /\ \A t \in DOMAIN tables : \A i \in Index :
                tables'[t][i] = IF t = walk.table /\ i = Slot THEN Mapped(Current, f) ELSE tables[t][i]
           /\ \A t : \A i \in Index :
                Below(t, i)' = IF t = walk.table /\ i = Slot THEN f ELSE Below(t, i)
           /\ walk.level \in 1 .. 3 /\ walk'.level = walk.level + 1
           /\ walk'.table = f /\ walk'.frame = walk.frame
           /\ Below(walk.table, Slot) = -1
           /\ UNCHANGED <<stage, pml4, cr3, calls, heapEnd, fault>>
  BY <1>4, AddTableMap
<1>6. /\ walk.table \in DOMAIN tables /\ level[walk.table] = walk.level
      /\ Slot \in Index /\ Current \in Entry /\ Call.page \in Page
      /\ Slot = Call.page[walk.level]
  BY <1>4, <1>5, WalkLevel, WalkType, CurrentIs
<1>7. Present(Mapped(Current, f)) /\ Mapped(Current, f).address = f
  BY <1>6, EntryTypes
<1>8. Taken'
  BY <1>4, <1>5 DEF Taken
<1>9. Apart' /\ Call' = Call
  BY <1>4, <1>5 DEF Apart, Call
<1>10. ASSUME NEW t \in DOMAIN tables', NEW i \in Index, Upper(t, i)'
       PROVE  /\ t \in DOMAIN tables
              /\ \/ /\ t = walk.table /\ i = Slot /\ tables'[t][i].address = f
                 \/ /\ ~(t = walk.table /\ i = Slot) /\ Upper(t, i)
                    /\ tables'[t][i].address = tables[t][i].address
  <2>1. Present(tables'[t][i]) /\ level'[t] < 4
    BY <1>10 DEF Upper, Present
  <2>2. t \in DOMAIN tables
    BY <1>5, <2>1, EntryTypes
  <2>3. CASE t = walk.table /\ i = Slot
    BY <1>5, <1>7, <2>2, <2>3
  <2>4. CASE ~(t = walk.table /\ i = Slot)
    <3>1. tables'[t][i] = tables[t][i] /\ level[t] < 4
      BY <1>5, <2>1, <2>2, <2>4
    <3>2. QED BY <2>1, <2>2, <2>4, <3>1 DEF Upper
  <2>5. QED BY <2>3, <2>4
<1>11. ASSUME NEW t \in DOMAIN tables', NEW i \in Index, Upper(t, i)'
       PROVE  /\ tables'[t][i].address \in DOMAIN tables'
              /\ level'[tables'[t][i].address] = level'[t] + 1
  <2>1. CASE t = walk.table /\ i = Slot
    BY <1>5, <1>6, <1>10, <1>11, <2>1
  <2>2. CASE ~(t = walk.table /\ i = Slot)
    <3>1. t \in DOMAIN tables /\ Upper(t, i) /\ tables'[t][i].address = tables[t][i].address
      BY <1>10, <1>11, <2>2
    <3>2. tables[t][i].address \in DOMAIN tables /\ level[tables[t][i].address] = level[t] + 1
      BY <1>4, <3>1 DEF Shape
    <3>3. QED BY <1>5, <3>1, <3>2
  <2>3. QED BY <2>1, <2>2
<1>12. ASSUME NEW t \in DOMAIN tables', NEW u \in DOMAIN tables', NEW i \in Index, NEW j \in Index,
              Upper(t, i)', Upper(u, j)', tables'[t][i].address = tables'[u][j].address
       PROVE  t = u /\ i = j
  <2>1. \A v \in DOMAIN tables : \A k \in Index : Upper(v, k) => tables[v][k].address # f
    BY <1>4, <1>5 DEF Shape
  <2>2. t \in DOMAIN tables /\ u \in DOMAIN tables
    BY <1>10, <1>12
  <2>3. CASE t = walk.table /\ i = Slot
    BY <1>10, <1>12, <2>1, <2>2, <2>3
  <2>4. CASE ~(t = walk.table /\ i = Slot)
    <3>1. Upper(t, i) /\ tables'[t][i].address = tables[t][i].address
      BY <1>10, <1>12, <2>4
    <3>2. ~(u = walk.table /\ j = Slot)
      BY <1>10, <1>12, <2>1, <2>2, <3>1, ZenonT(60)
    <3>3. Upper(u, j) /\ tables'[u][j].address = tables[u][j].address
      BY <1>10, <1>12, <3>2
    <3>4. QED BY <1>4, <1>12, <2>2, <3>1, <3>3 DEF Shape
  <2>5. QED BY <2>3, <2>4
<1>13. Shape'
  <2>1. pml4' \in DOMAIN tables' /\ level'[pml4'] = 1
    BY <1>4, <1>5 DEF Shape
  <2>2. QED BY <1>11, <1>12, <2>1 DEF Shape
<1>14. OnPath'
  <2>1. PICK p \in Page : p = Call.page
    BY <1>6
  <2>2. p[1] \in Index /\ p[2] \in Index /\ p[3] \in Index /\ -1 \notin DOMAIN tables
    BY <1>4, <1>6, PageIndices DEF Typing, TablesType
  <2>3. walk.level = 1 => PDP(p)' = f
    <3>1. PDP(p)' = Below(pml4, p[1])'
      BY DEF PDP
    <3>2. walk.level = 1 => pml4 = walk.table /\ p[1] = Slot
      BY <1>4, <1>6, <2>1 DEF OnPath
    <3>3. QED BY <1>5, <2>2, <3>1, <3>2
  <2>4. walk.level # 1 => PDP(p)' = PDP(p)
    <3>1. PDP(p)' = Below(pml4, p[1])' /\ PDP(p) = Below(pml4, p[1])
      BY DEF PDP
    <3>2. walk.level # 1 => pml4 # walk.table
      BY <1>4, <1>6 DEF Shape
    <3>3. QED BY <1>5, <2>2, <3>1, <3>2
  <2>5. walk.level # 1 => PD(p)' = IF PDP(p) = walk.table /\ p[2] = Slot THEN f ELSE PD(p)
    BY <1>5, <2>2, <2>4 DEF PD
  <2>6. walk.level = 2 => PD(p)' = f
    BY <1>4, <1>6, <2>1, <2>5 DEF OnPath
  <2>7. walk.level = 3 => PD(p)' = PD(p)
    <3>1. walk.level = 3 => PDP(p) # walk.table
      BY <1>4, <1>6, <2>2, PathLevels
    <3>2. QED BY <2>5, <3>1
  <2>8. walk.level = 3 => PT(p)' = IF PD(p) = walk.table /\ p[3] = Slot THEN f ELSE PT(p)
    BY <1>5, <2>2, <2>7 DEF PT
  <2>9. walk.level = 3 => PT(p)' = f
    BY <1>4, <1>6, <2>1, <2>8 DEF OnPath
  <2>10. walk'.table \in DOMAIN tables' /\ walk'.level = walk.level + 1 /\ walk'.table = f /\ Call' = Call
    BY <1>5, <1>9
  <2>11. /\ PDP(Call.page)' = PDP(p)' /\ PD(Call.page)' = PD(p)' /\ PT(Call.page)' = PT(p)'
    BY <1>9, <2>1 DEF PDP, PD, PT
  <2>12. QED BY <1>5, <2>3, <2>6, <2>9, <2>10, <2>11 DEF OnPath
<1>15. QED BY <1>8, <1>9, <1>13, <1>14

\* The end of a call.
LEMMA FinishTree == ASSUME TInv, Finish PROVE Tree'
<1>1. SUFFICES ASSUME Standing' PROVE Shape' /\ Taken' /\ OnPath' /\ Apart'
  BY DEF Tree
<1>2. /\ DOMAIN tables' = DOMAIN tables /\ walk'.level = 0
      /\ UNCHANGED <<allocator, stage, pml4, level>>
  BY FinishIs DEF TInv
<1>3. Typing /\ Shape /\ Taken /\ OnPath /\ Apart /\ ~Collapsed
  BY <1>1, <1>2 DEF TInv, Tree, Standing, Collapsed
<1>4. Taken' /\ OnPath' /\ Apart'
  BY <1>2, <1>3 DEF Taken, OnPath, Apart, allocator
<1>5. /\ level[walk.table] = 4
      /\ \A t \in DOMAIN tables : \A i \in Index :
           tables'[t][i] = IF t = walk.table /\ i = Slot THEN NewEntry ELSE tables[t][i]
  BY <1>3, FinishMap
<1>6. \A t \in DOMAIN tables : \A i \in Index :
        level[t] < 4 => tables'[t][i] = tables[t][i]
  BY <1>5
<1>7. \A t \in DOMAIN tables : \A i \in Index :
        Upper(t, i)' => Upper(t, i) /\ tables'[t][i] = tables[t][i]
  BY <1>2, <1>6 DEF Upper, Present
<1>8. Shape'
  BY <1>2, <1>3, <1>7 DEF Shape
<1>9. QED BY <1>4, <1>8

\* The steps without a walk, and the page fault.
LEMMA OtherTree ==
  ASSUME TInv, \/ ReadEfiMemoryMap \/ LockFramebuffer \/ LockKernel \/ Load \/ PageFault
               \/ \E count \in 1 .. MaxHeap : ExpandHeap(count)
               \/ \E device \in Devices : MapDevice(device)
               \/ UNCHANGED vars
  PROVE  Tree'
<1>1. CASE ReadEfiMemoryMap \/ LockFramebuffer \/ LockKernel
  BY <1>1 DEF ReadEfiMemoryMap, LockFramebuffer, LockKernel, Tree, Standing
<1>2. CASE PageFault
  <2>1. UNCHANGED <<stage, pml4, tables, cr3, calls, walk, heapEnd, level>> /\ stage = "running"
    BY <1>2, PageFaultTyping, WalkType DEF TInv, PageFault
  <2>2. pageBitmap \subseteq pageBitmap'
    <3>1. CASE UNCHANGED allocator
      BY <3>1 DEF allocator
    <3>2. CASE \E f \in Nat \cap ({0} \cup PFA!Candidates) : Request(f)
      BY <3>2, Requests DEF TInv, Typing
    <3>3. QED BY <1>2, <3>1, <3>2 DEF PageFault
  <2>3. Standing => OnPath' /\ Apart'
    BY <2>1, <2>2 DEF TInv, Tree, OnPath, Apart, Call, PDP, PD, PT, Below, Lookup, Present
  <2>4. QED BY <2>1, <2>2, <2>3, TreeKept DEF TInv
<1>3. CASE Load \/ (\E count \in 1 .. MaxHeap : ExpandHeap(count))
           \/ (\E device \in Devices : MapDevice(device))
  <2>1. /\ UNCHANGED <<allocator, stage, pml4, tables, walk, level>> /\ walk.level = 0
        /\ stage = "running"
    BY <1>3 DEF Load, ExpandHeap, MapDevice, Idle, TInv, Typing, Boot
  <2>2. OnPath' /\ Apart' /\ pageBitmap' = pageBitmap
    BY <2>1 DEF OnPath, Apart, allocator
  <2>3. QED BY <2>1, <2>2, TreeKept DEF TInv
<1>4. CASE UNCHANGED vars
  <2>1. CASE stage = "running"
    <3>1. UNCHANGED <<stage, pml4, tables, calls, walk, level>> /\ pageBitmap' = pageBitmap
      BY <1>4 DEF vars, allocator, paging
    <3>2. Standing => OnPath' /\ Apart'
      BY <3>1 DEF TInv, Tree, OnPath, Apart, Call, PDP, PD, PT, Below, Lookup, Present
    <3>3. QED BY <2>1, <3>1, <3>2, TreeKept DEF TInv
  <2>2. CASE stage # "running"
    BY <1>4, <2>2 DEF vars, paging, Tree, Standing
  <2>3. QED BY <2>1, <2>2
<1>5. QED BY <1>1, <1>2, <1>3, <1>4

LEMMA TreeStep == TInv /\ [Next]_vars => TInv'
<1> SUFFICES ASSUME TInv, [Next]_vars PROVE TInv'
  OBVIOUS
<1>1. Typing'
  BY TypingStep DEF TInv
<1>2. Tree'
  BY NewTablesTree, BeginTree, DescendTree, AddTableTree, FinishTree, OtherTree DEF Next
<1>3. QED BY <1>1, <1>2 DEF TInv

LEMMA TreeAlways == Spec => []TInv
<1>1. Init => TInv
  BY InitTyping DEF Init, TInv, Tree, Standing
<1>2. QED BY <1>1, TreeStep, PTL DEF Spec

\* The end of a call writes the entry of its page and no other.
LEMMA FinishTranslates ==
  ASSUME TInv, Finish, Standing
  PROVE  /\ \A p \in Page : Translate(p)' = IF p = Call.page THEN NewEntry ELSE Translate(p)
         /\ Current = Translate(Call.page) /\ Current \in Entry /\ NewEntry \in Entry
         /\ Call.page \in Page /\ Call.flag \in Flag /\ walk.frame \in Nat /\ walk.level = 4
         /\ UNCHANGED <<allocator, stage, pml4, cr3, heapEnd, fault, level>>
         /\ DOMAIN tables' = DOMAIN tables /\ walk'.level = 0 /\ calls' = Tail(calls)
<1>1. /\ walk.level = 4 /\ DOMAIN tables' = DOMAIN tables /\ walk'.level = 0
      /\ NewEntry \in Entry /\ calls' = Tail(calls)
      /\ UNCHANGED <<allocator, stage, pml4, cr3, heapEnd, fault, level>>
  BY FinishIs DEF TInv
<1>2. Typing /\ Shape /\ OnPath /\ Apart /\ ~Collapsed
  BY DEF TInv, Tree, Standing
<1>3. /\ Current \in Entry /\ Call.page \in Page /\ Current = Translate(Call.page)
      /\ Call.flag \in Flag /\ walk.frame \in Nat
  BY <1>1, <1>2, WalkType, CurrentIs DEF Typing, WalkRecord
<1>4. ASSUME NEW p \in Page
      PROVE  Translate(p)' = IF p = Call.page THEN NewEntry ELSE Translate(p)
  <2>1. /\ p[4] \in Index /\ PT(p)' = PT(p)
        /\ \A t \in DOMAIN tables : \A i \in Index :
            tables'[t][i] = IF t = walk.table /\ i = Slot THEN NewEntry ELSE tables[t][i]
        /\ walk.table = PT(Call.page) /\ Slot = Call.page[4]
        /\ walk.table \in DOMAIN tables /\ walk.table # -1
    BY <1>2, FinishMap, PageIndices DEF Typing, TablesType
  <2>2. CASE p = Call.page
    <3>1. PT(p) \in DOMAIN tables' /\ tables'[PT(p)][p[4]] = NewEntry
      BY <1>1, <2>1, <2>2
    <3>2. Translate(p)' = NewEntry
      BY <2>1, <3>1 DEF Translate, Lookup
    <3>3. QED BY <2>2, <3>2
  <2>3. CASE p # Call.page
    <3>1. ~(PT(p) = walk.table /\ p[4] = Slot)
      BY <1>2, <1>3, <2>1, <2>3, OnePage
    <3>2. PT(p) \in DOMAIN tables => tables'[PT(p)][p[4]] = tables[PT(p)][p[4]]
      BY <2>1, <3>1
    <3>3. Translate(p)' = Translate(p)
      BY <1>1, <2>1, <3>2 DEF Translate, Lookup
    <3>4. QED BY <2>3, <3>3
  <2>4. QED BY <2>2, <2>3
<1>5. QED BY <1>1, <1>3, <1>4

-----------------------------------------------------------------------------
(***************************************************************************)
(* The tables implement a flat address space.                              *)
(***************************************************************************)
\* The state of AddressSpace that the tables stand for.
Asked == IF Collapsed \/ walk.level = 0 THEN {}
         ELSE {[op |-> IF Call.op = "flag" THEN "flag" ELSE "map",
                page |-> Call.page, address |-> walk.frame, flag |-> Call.flag]}
Space == [p \in Page |-> IF Collapsed THEN NoEntry ELSE Translate(p)]

\* The abstract machine's actions, in these terms.
LEMMA PromiseIs ==
  /\ Asked' = Asked /\ Space' = Space /\ Collapsed' = Collapsed => UNCHANGED Promise!vars
  /\ ~Collapsed /\ Asked = {} /\ ~Collapsed' /\ Space' = Space
        /\ (\E r \in Promise!Request : Asked' = {r})
        => Promise!Next
  /\ ~Collapsed /\ ~Collapsed' /\ Asked' = {}
        /\ (\E r \in Asked : Space' = [Space EXCEPT ![r.page] = Promise!Answer(@, r)])
        => Promise!Next
  /\ Collapsed' => Promise!Next
<1>1. Asked' = Asked /\ Space' = Space /\ Collapsed' = Collapsed => UNCHANGED Promise!vars
  BY DEF Promise!vars, Asked, Space
<1>2. ASSUME ~Collapsed, Asked = {}, ~Collapsed', Space' = Space,
             NEW r \in Promise!Request, Asked' = {r}
      PROVE  Promise!Next
  <2>1. \E x \in Asked' : x \in Promise!Request /\ Asked' = {x}
    BY <1>2
  <2>2. Collapsed' = Collapsed
    BY <1>2 DEF Collapsed
  <2>3. Promise!Ask
    BY <1>2, <2>1, <2>2 DEF Promise!Ask, Asked, Space
  <2>4. QED BY <2>3 DEF Promise!Next
<1>3. ASSUME ~Collapsed, ~Collapsed', Asked' = {},
             NEW r \in Asked, Space' = [Space EXCEPT ![r.page] = Promise!Answer(@, r)]
      PROVE  Promise!Next
  <2>1. \E x \in Asked : Space' = [Space EXCEPT ![x.page] = Promise!Answer(@, x)]
    BY <1>3
  <2>2. Collapsed' = Collapsed
    BY <1>3 DEF Collapsed
  <2>3. Promise!Change
    BY <1>3, <2>1, <2>2 DEF Promise!Change, Asked, Space
  <2>4. QED BY <2>3 DEF Promise!Next
<1>4. ASSUME Collapsed' PROVE Promise!Next
  <2>1. Asked' = {} /\ Space' = Promise!Nothing
    BY <1>4 DEF Asked, Space, Promise!Nothing, NoEntry
  <2>2. Promise!Collapse
    BY <1>4, <2>1 DEF Promise!Collapse, Asked, Space
  <2>3. QED BY <2>2 DEF Promise!Next
<1>5. QED BY <1>1, <1>2, <1>3, <1>4

\* While nothing is mapped the address space is empty.
LEMMA EmptySpace ==
  (\A t \in DOMAIN tables : \A i \in Index : tables[t][i] = NoEntry) => Space = Promise!Nothing
<1> SUFFICES ASSUME \A t \in DOMAIN tables : \A i \in Index : tables[t][i] = NoEntry
             PROVE  Space = Promise!Nothing
  OBVIOUS
<1>1. ASSUME NEW p \in Page PROVE Translate(p) = NoEntry
  <2>1. p[4] \in Index
    BY PageIndices
  <2>2. QED BY <2>1 DEF Translate, Lookup
<1>2. QED BY <1>1 DEF Space, Promise!Nothing, NoEntry

\* Steps that leave the tables alone, neither begin nor end a walk and do not
\* change what it is for are no steps of the address space.
LEMMA Stutters ==
  ASSUME UNCHANGED <<pml4, tables>>,
         \/ walk.level = 0 /\ walk'.level = 0
         \/ walk.level # 0 /\ walk'.level # 0 /\ calls' = calls /\ walk'.frame = walk.frame
  PROVE  UNCHANGED Promise!vars
<1>1. Collapsed' = Collapsed
  BY DEF Collapsed
<1>2. Asked' = Asked
  BY <1>1 DEF Asked, Call
<1>3. \A p \in Page : Translate(p)' = Translate(p)
  BY DEF Translate, PT, PD, PDP, Below, Lookup, Present
<1>4. Space' = Space
  BY <1>1, <1>3 DEF Space
<1>5. QED BY <1>1, <1>2, <1>4, PromiseIs

\* A request of the address space.
LEMMA AskedIs ==
  Typing /\ walk.level # 0 /\ ~Collapsed =>
    \E r \in Promise!Request :
      /\ Asked = {r} /\ r.page = Call.page
      /\ r.op = IF Call.op = "flag" THEN "flag" ELSE "map"
      /\ r.address = walk.frame /\ r.flag = Call.flag
<1> SUFFICES ASSUME Typing, walk.level # 0, ~Collapsed
             PROVE  \E r \in Promise!Request :
                      /\ Asked = {r} /\ r.page = Call.page
                      /\ r.op = IF Call.op = "flag" THEN "flag" ELSE "map"
                      /\ r.address = walk.frame /\ r.flag = Call.flag
  OBVIOUS
<1> DEFINE r == [op |-> IF Call.op = "flag" THEN "flag" ELSE "map",
                 page |-> Call.page, address |-> walk.frame, flag |-> Call.flag]
<1>1. Call.page \in Page /\ walk.frame \in Nat /\ Call.flag \in Flag
  BY WalkType DEF Typing, WalkRecord
<1>2. r \in Promise!Request
  BY <1>1 DEF Promise!Request
<1>3. QED BY <1>2 DEF Asked

\* PML4, empty, is not seen; or memory is exhausted already.
LEMMA NewTablesRefines == ASSUME TInv, NewTables PROVE [Promise!Next]_(Promise!vars)
<1>1. PICK f \in Nat \cap ({0} \cup PFA!Candidates) : tables' = Cell(f, Cleared)
  BY DEF NewTables
<1>2. DOMAIN tables = {} /\ walk.level = 0 /\ walk' = walk
  BY DEF NewTables, TInv, Typing, Boot
<1>3. DOMAIN tables' = {f} /\ tables'[f] = Cleared
  BY <1>1, <1>2, CellIs
<1>4. CASE f = 0
  BY <1>3, <1>4, PromiseIs DEF Collapsed
<1>5. CASE f # 0
  <2>1. ~Collapsed /\ ~Collapsed'
    BY <1>2, <1>3, <1>5 DEF Collapsed
  <2>2. Space = Promise!Nothing
    BY <1>2, EmptySpace
  <2>3. \A t \in DOMAIN tables' : \A i \in Index : tables'[t][i] = NoEntry
    BY <1>3 DEF Cleared
  <2>4. Space' = Promise!Nothing
    <3>1. ((\A t \in DOMAIN tables : \A i \in Index : tables[t][i] = NoEntry) => Space = Promise!Nothing)'
      BY EmptySpace, PTL
    <3>2. QED BY <2>3, <3>1 DEF Promise!Nothing, NoEntry
  <2>5. Asked = {} /\ Asked' = {} /\ Collapsed' = Collapsed
    BY <1>2, <2>1 DEF Asked, Collapsed
  <2>6. QED BY <2>2, <2>4, <2>5, PromiseIs
<1>6. QED BY <1>4, <1>5

\* The beginning of a call is a request.
LEMMA BeginRefines == ASSUME TInv, Begin \/ BeginHeap PROVE [Promise!Next]_(Promise!vars)
<1>1. /\ UNCHANGED <<stage, pml4, tables, calls>> /\ walk.level = 0
  BY DEF Begin, BeginHeap
<1>2. Typing' /\ walk'.level = 1
  BY BeginTyping DEF TInv
<1>3. CASE Collapsed
  BY <1>1, <1>3, PromiseIs DEF Collapsed
<1>4. CASE ~Collapsed
  <2>1. ~Collapsed' /\ Asked = {}
    BY <1>1, <1>4 DEF Collapsed, Asked
  <2>2. \A p \in Page : Translate(p)' = Translate(p)
    BY <1>1 DEF Translate, PT, PD, PDP, Below, Lookup, Present
  <2>3. Space' = Space
    BY <1>4, <2>1, <2>2 DEF Space
  <2>4. (Typing /\ walk.level # 0 /\ ~Collapsed =>
           \E r \in Promise!Request :
             /\ Asked = {r} /\ r.page = Call.page
             /\ r.op = IF Call.op = "flag" THEN "flag" ELSE "map"
             /\ r.address = walk.frame /\ r.flag = Call.flag)'
    BY AskedIs, PTL
  <2>5. \E r \in Promise!Request : Asked' = {r}
    BY <1>2, <2>1, <2>4 DEF Promise!Request
  <2>6. QED BY <1>4, <2>1, <2>3, <2>5, PromiseIs
<1>5. QED BY <1>3, <1>4

\* A table that is added is not seen.
LEMMA AddTableRefines == ASSUME TInv, AddTable PROVE [Promise!Next]_(Promise!vars)
<1>1. CASE Collapsed'
  BY <1>1, PromiseIs
<1>2. CASE ~Collapsed'
  <2>1. /\ walk.level # 0 /\ DOMAIN tables \subseteq DOMAIN tables' /\ calls' = calls
        /\ walk'.level # 0 /\ walk'.frame = walk.frame
    <3>1. /\ walk.level \in 1 .. 3 /\ walk'.level = walk.level + 1 /\ walk'.frame = walk.frame
          /\ DOMAIN tables \subseteq DOMAIN tables' /\ calls' = calls
      BY AddTableIs DEF TInv
    <3>2. QED BY <3>1
  <2>2. stage = "running" /\ ~Collapsed
    BY <1>2, <2>1, WalkType DEF TInv, Collapsed
  <2>3. Shape /\ Taken /\ OnPath
    BY <2>2 DEF TInv, Tree, Standing
  <2>4. \A p \in Page : Translate(p)' = Translate(p)
    BY <1>2, <2>2, <2>3, AddTableTranslates DEF TInv
  <2>5. Collapsed' = Collapsed
    BY <1>2, <2>2 DEF Collapsed
  <2>6. Asked' = Asked
    BY <2>1, <2>5 DEF Asked, Call
  <2>7. Space' = Space
    BY <2>4, <2>5 DEF Space
  <2>8. QED BY <2>5, <2>6, <2>7, PromiseIs
<1>3. QED BY <1>1, <1>2

\* The last entry that the call writes is the answer to the request.
LEMMA FinishRefines == ASSUME TInv, Finish PROVE [Promise!Next]_(Promise!vars)
<1>1. DOMAIN tables' = DOMAIN tables /\ walk'.level = 0 /\ walk.level = 4
  BY FinishIs DEF TInv
<1>2. CASE Collapsed
  BY <1>1, <1>2, PromiseIs DEF Collapsed
<1>3. CASE ~Collapsed
  <2>1. Typing /\ stage = "running" /\ Shape /\ OnPath /\ Apart
    BY <1>1, <1>3, WalkType DEF TInv, Tree, Standing
  <2>2. PICK r \in Promise!Request :
           /\ Asked = {r} /\ r.page = Call.page
           /\ r.op = IF Call.op = "flag" THEN "flag" ELSE "map"
           /\ r.address = walk.frame /\ r.flag = Call.flag
    BY <1>1, <1>3, <2>1, AskedIs
  <2>3. ~Collapsed' /\ Asked' = {}
    BY <1>1, <1>3 DEF Collapsed, Asked
  <2>4. /\ Current \in Entry /\ Call.page \in Page /\ Current = Translate(Call.page)
        /\ Call.flag \in Flag /\ walk.frame \in Nat
    BY <1>1, <2>1, WalkType, CurrentIs DEF Typing, WalkRecord
  <2>5. NewEntry = Promise!Answer(Current, r)
    <3>1. CASE Call.op = "flag"
      <4>1. NewEntry = SetFlag(Current, Call.flag)
        BY <3>1 DEF NewEntry
      <4>2. SetFlag(Current, Call.flag) = [address |-> Current.address, flags |-> Current.flags \cup {Call.flag}]
        BY <2>4 DEF SetFlag, Entry
      <4>3. QED BY <2>2, <3>1, <4>1, <4>2 DEF Promise!Answer
    <3>2. CASE Call.op # "flag"
      <4>1. NewEntry = Mapped(Current, walk.frame)
        BY <3>2 DEF NewEntry
      <4>2. Mapped(Current, walk.frame)
              = [address |-> walk.frame, flags |-> Current.flags \cup {"Present", "ReadWrite"}]
        BY <2>4, EntryTypes DEF Entry
      <4>3. QED BY <2>2, <3>2, <4>1, <4>2 DEF Promise!Answer
    <3>3. QED BY <3>1, <3>2
  <2>6. ASSUME NEW p \in Page
        PROVE  Translate(p)' = IF p = r.page THEN Promise!Answer(Translate(p), r) ELSE Translate(p)
    BY <1>3, <2>1, <2>2, <2>5, FinishTranslates DEF Standing
  <2>7. Space' = [Space EXCEPT ![r.page] = Promise!Answer(@, r)]
    <3>1. Space = [p \in Page |-> Translate(p)] /\ Space' = [p \in Page |-> Translate(p)']
      BY <1>3, <2>3 DEF Space
    <3>2. r.page \in Page
      BY <2>2, <2>4
    <3>3. [Space EXCEPT ![r.page] = Promise!Answer(@, r)]
            = [p \in Page |-> IF p = r.page THEN Promise!Answer(Translate(p), r) ELSE Translate(p)]
      BY <3>1, <3>2
    <3>4. QED BY <2>6, <3>1, <3>3
  <2>8. QED BY <1>3, <2>2, <2>3, <2>7, PromiseIs
<1>4. QED BY <1>2, <1>3

\* Every step is a step of the address space or changes nothing there.
LEMMA StepRefines == TInv /\ [Next]_vars => [Promise!Next]_(Promise!vars)
<1> SUFFICES ASSUME TInv, [Next]_vars PROVE [Promise!Next]_(Promise!vars)
  OBVIOUS
<1>1. CASE ReadEfiMemoryMap \/ LockFramebuffer \/ LockKernel \/ Load
           \/ (\E count \in 1 .. MaxHeap : ExpandHeap(count))
           \/ (\E device \in Devices : MapDevice(device))
  <2>1. UNCHANGED <<pml4, tables, walk>> /\ walk.level = 0
    BY <1>1 DEF ReadEfiMemoryMap, LockFramebuffer, LockKernel, Load, ExpandHeap, MapDevice, Idle,
         TInv, Typing, Boot
  <2>2. QED BY <2>1, Stutters
<1>2. CASE PageFault \/ UNCHANGED vars
  <2>1. UNCHANGED <<pml4, tables, walk, calls>>
    BY <1>2, PageFaultTyping DEF TInv, vars, paging
  <2>2. QED BY <2>1, Stutters
<1>3. CASE Descend
  <2>1. /\ walk.level \in 1 .. 3 /\ walk' = [walk EXCEPT !.level = @ + 1, !.table = Current.address]
        /\ UNCHANGED <<pml4, tables, calls>>
    BY <1>3 DEF Descend, Walking
  <2>2. Current.address \in Nat
    BY <2>1, WalkType DEF TInv, Entry
  <2>3. walk'.level = walk.level + 1 /\ walk'.frame = walk.frame
    BY <2>1, <2>2, WalkDown DEF TInv, Typing
  <2>4. walk'.level # 0 /\ walk.level # 0
    BY <2>1, <2>3
  <2>5. QED BY <2>1, <2>3, <2>4, Stutters
<1>4. QED
  BY <1>1, <1>2, <1>3, NewTablesRefines, BeginRefines, AddTableRefines, FinishRefines DEF Next

\* The four-level tables implement the flat address space: whatever tables
\* exist already and are shared, a call of MapMemory or SetVirtualFlag changes
\* the entry of its own page, as asked, and of no other, until memory is
\* exhausted before the tables are in force.
THEOREM ImplementsHolds == Spec => Implements
<1>1. Init => Promise!Init
  <2> SUFFICES ASSUME Init PROVE Promise!Init
    OBVIOUS
  <2>1. DOMAIN tables = {} /\ walk.level = 0
    BY DEF Init
  <2>2. Space = Promise!Nothing /\ Asked = {} /\ Collapsed = FALSE
    BY <2>1, EmptySpace DEF Asked, Collapsed
  <2>3. QED BY <2>2 DEF Promise!Init, Space, Asked
<1>2. QED BY <1>1, StepRefines, TreeAlways, PTL DEF Spec, Implements, Promise!Spec

-----------------------------------------------------------------------------
(***************************************************************************)
(* The calls, and the pages they are for.                                  *)
(***************************************************************************)
HeapSet == {PageOf(n) : n \in HeapNumbers}

\* The numbers of the pages that are mapped outside the heap.
Others(map) == SelfMapped(map) \cup {0, Impossible}

\* A call that may be queued: only the heap's calls map the heap's pages, and
\* a page of memory is mapped to itself and nowhere else.
Good(map) ==
    {c \in Request4 :
        /\ c.op \in {"map", "flag"} => c.page \notin HeapSet
        /\ c.op = "heap" => c.page \in HeapSet
        /\ \A n \in MemoryPages(map) : c.page = PageOf(n) =>
             c.op \in {"flag", "load"} \/ (c.op = "map" /\ c.frame = n)}

Queue ==
    /\ calls \in Seq(Good(efiMap))
    /\ heapEnd \in HeapStart .. HeapStart + HeapPages + MaxHeap
    /\ walk.level # 0 /\ Call.op = "map" => walk.frame = Call.frame

\* What the layout says of one number.
LEMMA Layout ==
  ASSUME NEW map \in EfiMaps
  PROVE  /\ FirstMapped <= LowPages
         /\ \A m, n \in Others(map) \cup HeapNumbers : PageOf(m) = PageOf(n) => m = n
         /\ HeapNumbers \cap Others(map) = {}
         /\ MemoryPages(map) \cap {0, Impossible} = {}
         /\ MemoryPages(map) \subseteq Others(map) /\ FramebufferPages \subseteq Others(map)
         /\ Devices \subseteq Others(map) /\ 0 \in Others(map) /\ Impossible \in Others(map)
         /\ Others(map) \subseteq Nat /\ HeapNumbers \subseteq Nat
<1>1. Others(map) \subseteq Nat
  <2>1. PFA!CalculateMemorySize(map) \in Nat
    BY MapAssumption
  <2>2. MemoryPages(map) \subseteq Nat
    BY <2>1, ParameterAssumption DEF MemoryPages
  <2>3. FramebufferPages \subseteq Nat
    BY FramebufferNumbers
  <2>4. Devices \subseteq Nat /\ Impossible \in Nat /\ 0 \in Nat
    BY ParameterAssumption
  <2>5. QED BY <2>2, <2>3, <2>4 DEF Others, SelfMapped
<1>2. HeapNumbers \subseteq Nat
  BY ParameterAssumption DEF HeapNumbers
<1>3. /\ FirstMapped <= LowPages
      /\ \A m, n \in Others(map) \cup HeapNumbers : PageOf(m) = PageOf(n) => m = n
      /\ HeapNumbers \cap Others(map) = {}
      /\ MemoryPages(map) \cap {0, Impossible} = {}
  BY LayoutAssumption DEF Others
<1>4. QED BY <1>1, <1>2, <1>3 DEF Others, SelfMapped

\* The calls that the loops make may be queued.
LEMMA GoodCalls ==
  ASSUME NEW map \in EfiMaps
  PROVE  /\ \A n \in SelfMapped(map) : MapCall(n, n) \in Good(map)
         /\ \A n \in Others(map) : \A flag \in Flag : FlagCall(n, flag) \in Good(map)
         /\ \A n \in {0, Impossible} : MapCall(n, Impossible) \in Good(map)
         /\ \A n \in HeapNumbers : HeapCall(n) \in Good(map)
         /\ LoadCr3 \in Good(map)
<1>1. /\ \A m, n \in Others(map) \cup HeapNumbers : PageOf(m) = PageOf(n) => m = n
      /\ HeapNumbers \cap Others(map) = {} /\ MemoryPages(map) \cap {0, Impossible} = {}
      /\ MemoryPages(map) \subseteq Others(map) /\ Others(map) \subseteq Nat
      /\ HeapNumbers \subseteq Nat
  BY Layout
<1>2. \A n \in Others(map) : PageOf(n) \notin HeapSet
  BY <1>1 DEF HeapSet
<1>3. ASSUME NEW n \in SelfMapped(map) PROVE MapCall(n, n) \in Good(map)
  <2>1. n \in Others(map) /\ n \in Nat
    BY <1>1 DEF Others
  <2>2. MapCall(n, n) \in Request4
    BY <2>1, CallTypes
  <2>3. MapCall(n, n).op = "map" /\ MapCall(n, n).page = PageOf(n) /\ MapCall(n, n).frame = n
    BY DEF MapCall
  <2>4. \A m \in MemoryPages(map) : PageOf(n) = PageOf(m) => n = m
    BY <1>1, <2>1
  <2>5. QED BY <1>2, <2>1, <2>2, <2>3, <2>4 DEF Good
<1>4. ASSUME NEW n \in Others(map), NEW flag \in Flag PROVE FlagCall(n, flag) \in Good(map)
  <2>1. FlagCall(n, flag) \in Request4
    BY <1>1, CallTypes
  <2>2. FlagCall(n, flag).op = "flag" /\ FlagCall(n, flag).page = PageOf(n)
    BY DEF FlagCall
  <2>3. QED BY <1>2, <2>1, <2>2 DEF Good
<1>5. ASSUME NEW n \in {0, Impossible} PROVE MapCall(n, Impossible) \in Good(map)
  <2>1. n \in Others(map) /\ n \in Nat /\ Impossible \in Nat /\ n \notin MemoryPages(map)
    BY <1>1, ParameterAssumption DEF Others
  <2>2. MapCall(n, Impossible) \in Request4
    BY <2>1, CallTypes
  <2>3. MapCall(n, Impossible).op = "map" /\ MapCall(n, Impossible).page = PageOf(n)
    BY DEF MapCall
  <2>4. \A m \in MemoryPages(map) : PageOf(n) # PageOf(m)
    BY <1>1, <2>1
  <2>5. QED BY <1>2, <2>1, <2>2, <2>3, <2>4 DEF Good
<1>6. ASSUME NEW n \in HeapNumbers PROVE HeapCall(n) \in Good(map)
  <2>1. HeapCall(n) \in Request4
    BY <1>1, CallTypes
  <2>2. HeapCall(n).op = "heap" /\ HeapCall(n).page = PageOf(n) /\ PageOf(n) \in HeapSet
    BY DEF HeapCall, HeapSet
  <2>3. \A m \in MemoryPages(map) : PageOf(n) # PageOf(m)
    BY <1>1
  <2>4. QED BY <2>1, <2>2, <2>3 DEF Good
<1>7. LoadCr3 \in Good(map)
  BY CallTypes DEF Good, LoadCr3
<1>8. QED BY <1>3, <1>4, <1>5, <1>6, <1>7


\* So the calls of InitializePaging, those of the memory first, may be queued.
LEMMA GoodBoot ==
  ASSUME NEW map \in EfiMaps, NEW m, m = PFA!CalculateMemorySize(map)
  PROVE  /\ m \in Nat /\ MappedToItself(m) \in Seq(Good(map))
         /\ \E rest \in Seq(Good(map)) :
              MappedToItself(m) \o FramebufferCalls \o Guarded(0) \o Guarded(Impossible)
                \o <<LoadCr3>> \o HeapCalls(HeapStart, HeapPages) = MappedToItself(m) \o rest
<1> DEFINE S == Good(map)
<1>1. m \in Nat /\ HeapStart \in Nat /\ HeapPages \in Nat /\ MaxHeap \in Nat
  BY MapAssumption, ParameterAssumption
<1>2. /\ FirstMapped .. m - 1 \subseteq SelfMapped(map) /\ FramebufferPages \subseteq SelfMapped(map)
      /\ FramebufferPages \cup {0, Impossible} \subseteq Others(map)
      /\ HeapStart .. HeapStart + HeapPages - 1 \subseteq HeapNumbers
  BY <1>1 DEF SelfMapped, Others, MemoryPages, HeapNumbers
<1>3. /\ \A n \in FirstMapped .. m - 1 : MapCall(n, n) \in S
      /\ \A n \in FramebufferPages : MapCall(n, n) \in S
      /\ \A n \in FramebufferPages \cup {0, Impossible} : \A flag \in Flag : FlagCall(n, flag) \in S
      /\ \A n \in {0, Impossible} : MapCall(n, Impossible) \in S
      /\ \A n \in HeapStart .. HeapStart + HeapPages - 1 : HeapCall(n) \in S
      /\ LoadCr3 \in S
  <2>1. /\ \A n \in SelfMapped(map) : MapCall(n, n) \in S
        /\ \A n \in Others(map) : \A flag \in Flag : FlagCall(n, flag) \in S
        /\ \A n \in {0, Impossible} : MapCall(n, Impossible) \in S
        /\ \A n \in HeapNumbers : HeapCall(n) \in S
        /\ LoadCr3 \in S
    BY GoodCalls
  <2> HIDE DEF S
  <2>2. QED BY <1>2, <2>1
<1> HIDE DEF S
<1>4. MappedToItself(m) \in Seq(S)
  BY <1>1, <1>3, MappedToItselfIn
<1>5. \E rest \in Seq(S) :
        MappedToItself(m) \o FramebufferCalls \o Guarded(0) \o Guarded(Impossible)
          \o <<LoadCr3>> \o HeapCalls(HeapStart, HeapPages) = MappedToItself(m) \o rest
  BY <1>1, <1>3, BootCallsIn
<1>6. QED BY <1>1, <1>4, <1>5 DEF S

\* The head of a queue of such calls, and what is behind it.
LEMMA QueueHead ==
  ASSUME Queue, calls # <<>>
  PROVE  Call \in Good(efiMap) /\ Tail(calls) \in Seq(Good(efiMap))
  BY HeadTailProperties DEF Queue, Call

\* The memory map is what it was, from the first step to the last.
LEMMA MapKept == ASSUME TInv, [Next]_vars PROVE efiMap' = efiMap
<1>1. \A f \in Nat \cap ({0} \cup PFA!Candidates) : Request(f) => efiMap' = efiMap
  BY Requests DEF TInv, Typing
<1>2. CASE UNCHANGED allocator
  BY <1>2 DEF allocator
<1>3. CASE ReadEfiMemoryMap \/ LockFramebuffer \/ LockKernel
  BY <1>3 DEF ReadEfiMemoryMap, LockFramebuffer, LockKernel, PFA!ReadEfiMemoryMap, PFA!LockPages
<1>4. CASE NewTables \/ BeginHeap \/ AddTable \/ PageFault
  BY <1>1, <1>2, <1>4 DEF NewTables, BeginHeap, AddTable, PageFault
<1>5. CASE Load \/ Begin \/ Descend \/ Finish \/ (\E count \in 1 .. MaxHeap : ExpandHeap(count))
           \/ (\E device \in Devices : MapDevice(device)) \/ UNCHANGED vars
  BY <1>2, <1>5 DEF Load, Begin, Descend, Finish, ExpandHeap, MapDevice, vars
<1>6. QED BY <1>3, <1>4, <1>5 DEF Next

\* Nobody queues any other call.
LEMMA QueueStep == ASSUME TInv, Queue, [Next]_vars PROVE Queue'
<1>1. /\ efiMap' = efiMap /\ efiMap \in EfiMaps /\ Typing
      /\ HeapStart \in Nat /\ HeapPages \in Nat /\ MaxHeap \in Nat
  BY MapKept, ParameterAssumption DEF TInv, Typing, Searches
<1>2. ASSUME calls' = calls, heapEnd' = heapEnd, walk'.level # 0 => walk.level # 0 /\ walk'.frame = walk.frame
      PROVE  Queue'
  BY <1>1, <1>2 DEF Queue, Call
<1>3. ASSUME calls # <<>>, calls' = Tail(calls), heapEnd' = heapEnd, walk'.level = 0
      PROVE  Queue'
  BY <1>1, <1>3, QueueHead DEF Queue
<1>4. CASE ReadEfiMemoryMap \/ LockFramebuffer \/ LockKernel \/ PageFault \/ UNCHANGED vars
  <2>1. calls' = calls /\ heapEnd' = heapEnd /\ walk' = walk
    BY <1>4 DEF ReadEfiMemoryMap, LockFramebuffer, LockKernel, PageFault, vars, paging
  <2>2. QED BY <1>2, <2>1
<1>5. CASE NewTables
  <2>1. /\ calls' = MappedToItself(PFA!CalculateMemorySize(efiMap)) \o FramebufferCalls
                    \o Guarded(0) \o Guarded(Impossible) \o <<LoadCr3>>
                    \o HeapCalls(HeapStart, HeapPages)
        /\ heapEnd' = HeapStart + HeapPages /\ walk' = walk /\ walk.level = 0
    BY <1>5 DEF NewTables, TInv, Typing, Boot
  <2>2. calls' \in Seq(Good(efiMap))
    BY <1>1, <2>1, GoodBoot, ConcatProperties
  <2>3. heapEnd' \in HeapStart .. HeapStart + HeapPages + MaxHeap
    BY <1>1, <2>1
  <2>4. QED BY <1>1, <2>1, <2>2, <2>3 DEF Queue
<1>6. CASE Load
  BY <1>3, <1>6 DEF Load
<1>7. CASE Begin \/ BeginHeap
  <2>1. calls' = calls /\ heapEnd' = heapEnd
    BY <1>7 DEF Begin, BeginHeap
  <2>2. Call.op = "map" => walk'.frame = Call.frame
    BY <1>7 DEF Begin, BeginHeap
  <2>3. QED BY <1>1, <2>1, <2>2 DEF Queue, Call
<1>8. CASE Descend
  <2>1. walk.level \in 1 .. 3 /\ walk' = [walk EXCEPT !.level = @ + 1, !.table = Current.address]
        /\ calls' = calls /\ heapEnd' = heapEnd
    BY <1>8 DEF Descend, Walking
  <2>2. Current.address \in Nat
    BY <1>1, <2>1, WalkType DEF Entry
  <2>3. walk'.frame = walk.frame
    BY <1>1, <2>1, <2>2, WalkDown DEF Typing
  <2>4. walk.level # 0
    BY <2>1
  <2>5. QED BY <1>2, <2>1, <2>3, <2>4
<1>9. CASE AddTable
  <2>1. walk.level \in 1 .. 3 /\ calls' = calls /\ heapEnd' = heapEnd /\ walk'.frame = walk.frame
    BY <1>1, <1>9, AddTableIs
  <2>2. QED BY <1>2, <2>1
<1>10. CASE Finish
  <2>1. walk.level = 4 /\ walk'.level = 0 /\ calls' = Tail(calls) /\ heapEnd' = heapEnd
    BY <1>1, <1>10, FinishIs
  <2>2. QED BY <1>1, <1>3, <2>1, WalkType
<1>11. ASSUME NEW count \in 1 .. MaxHeap, ExpandHeap(count) PROVE Queue'
  <2>1. /\ calls' = HeapCalls(heapEnd, count) /\ heapEnd' = heapEnd + count
        /\ heapEnd + count <= HeapStart + HeapPages + MaxHeap
        /\ walk' = walk /\ walk.level = 0 /\ count \in Nat
        /\ heapEnd \in HeapStart .. HeapStart + HeapPages + MaxHeap
    BY <1>1, <1>11 DEF ExpandHeap, Idle, Queue
  <2>2. heapEnd .. heapEnd + count - 1 \subseteq HeapNumbers
    BY <1>1, <2>1 DEF HeapNumbers
  <2>3. \A n \in heapEnd .. heapEnd + count - 1 : HeapCall(n) \in Good(efiMap)
    BY <1>1, <2>2, GoodCalls
  <2>4. heapEnd \in Nat /\ heapEnd' \in HeapStart .. HeapStart + HeapPages + MaxHeap
    BY <1>1, <2>1
  <2>5. calls' \in Seq(Good(efiMap))
    BY <2>1, <2>3, <2>4, HeapCallsIn
  <2>6. QED BY <1>1, <2>1, <2>4, <2>5 DEF Queue
<1>12. ASSUME NEW device \in Devices, MapDevice(device) PROVE Queue'
  <2>1. calls' = <<MapCall(device, device)>> /\ walk' = walk /\ walk.level = 0 /\ heapEnd' = heapEnd
    BY <1>12 DEF MapDevice, Idle
  <2>2. MapCall(device, device) \in Good(efiMap)
    BY <1>1, GoodCalls DEF SelfMapped
  <2>3. calls' \in Seq(Good(efiMap))
    BY <2>1, <2>2
  <2>4. QED BY <1>1, <2>1, <2>3 DEF Queue
<1>13. QED BY <1>4, <1>5, <1>6, <1>7, <1>8, <1>9, <1>10, <1>11, <1>12 DEF Next

-----------------------------------------------------------------------------
(***************************************************************************)
(* What every step does to the tables and to the pages handed out.         *)
(***************************************************************************)
\* The steps that do not write a page's entry: a table may be added, a page
\* may be taken, and nothing is translated otherwise than before.
LEMMA Plain ==
  ASSUME TInv, [Next]_vars, Standing, Standing', ~Finish
  PROVE  /\ \A p \in Page : Translate(p)' = Translate(p)
         /\ PFA!Bits' = PFA!Bits /\ pageBitmap \subseteq pageBitmap'
         /\ DOMAIN tables \subseteq DOMAIN tables'
         /\ \A t \in DOMAIN tables' \ DOMAIN tables : t \notin pageBitmap /\ t \in PFA!Bits
<1>1. Typing /\ Shape /\ Taken /\ OnPath /\ Apart /\ stage = "running" /\ ~Collapsed /\ ~Collapsed'
  BY DEF TInv, Tree, Standing
<1>2. ASSUME UNCHANGED <<pml4, tables>> PROVE \A p \in Page : Translate(p)' = Translate(p)
  BY <1>2 DEF Translate, PT, PD, PDP, Below, Lookup, Present
<1>3. ASSUME UNCHANGED allocator PROVE PFA!Bits' = PFA!Bits /\ pageBitmap \subseteq pageBitmap'
  BY <1>3 DEF allocator, PFA!Bits, PFA!SizeBits
<1>4. ASSUME NEW f \in Nat \cap ({0} \cup PFA!Candidates), Request(f)
      PROVE  PFA!Bits' = PFA!Bits /\ pageBitmap \subseteq pageBitmap'
  BY <1>1, <1>4, Requests DEF Typing
<1>5. CASE ReadEfiMemoryMap \/ LockFramebuffer \/ LockKernel \/ NewTables
  BY <1>1, <1>5 DEF ReadEfiMemoryMap, LockFramebuffer, LockKernel, NewTables
<1>6. CASE Load \/ Begin \/ Descend \/ (\E count \in 1 .. MaxHeap : ExpandHeap(count))
           \/ (\E device \in Devices : MapDevice(device)) \/ UNCHANGED vars
  <2>1. UNCHANGED allocator /\ UNCHANGED <<pml4, tables>>
    BY <1>6 DEF Load, Begin, Descend, ExpandHeap, MapDevice, vars, paging
  <2>2. QED BY <1>2, <1>3, <2>1
<1>7. CASE BeginHeap \/ PageFault
  <2>1. /\ UNCHANGED <<pml4, tables>>
        /\ UNCHANGED allocator \/ \E f \in Nat \cap ({0} \cup PFA!Candidates) : Request(f)
    BY <1>7 DEF BeginHeap, PageFault
  <2>2. QED BY <1>2, <1>3, <1>4, <2>1
<1>8. CASE AddTable
  <2>1. \A p \in Page : Translate(p)' = Translate(p)
    BY <1>1, <1>8, AddTableTranslates
  <2>2. PICK f \in Nat :
          /\ f \notin pageBitmap /\ f \in PFA!Bits /\ pageBitmap' = pageBitmap \cup {f}
          /\ DOMAIN tables' = DOMAIN tables \cup {f}
    BY <1>1, <1>8, AddTableMap
  <2>3. PFA!Bits' = PFA!Bits
    BY <1>4, <1>8 DEF AddTable
  <2>4. QED BY <2>1, <2>2, <2>3
<1>9. QED BY <1>5, <1>6, <1>7, <1>8 DEF Next

\* PML4 alone translates nothing.
LEMMA NewTablesTranslate ==
  ASSUME TInv, NewTables, NEW p \in Page
  PROVE  ~Present(Translate(p)')
<1>1. PICK f \in Nat \cap ({0} \cup PFA!Candidates) : tables' = Cell(f, Cleared)
  BY DEF NewTables
<1>2. DOMAIN tables = {} /\ p[4] \in Index
  BY PageIndices DEF NewTables, TInv, Typing, Boot
<1>3. DOMAIN tables' = {f} /\ tables'[f] = Cleared
  BY <1>1, <1>2, CellIs
<1>4. \A t \in DOMAIN tables' : tables'[t][p[4]] = NoEntry
  BY <1>2, <1>3 DEF Cleared
<1>5. Translate(p)' = NoEntry
  BY <1>4 DEF Translate, Lookup
<1>6. QED BY <1>5, EntryTypes

\* What an entry that is written says.
LEMMA NewEntryIs ==
  ASSUME TInv, Finish, Standing
  PROVE  /\ Call.op # "flag" => Present(NewEntry) /\ NewEntry.address = walk.frame
         /\ Call.op = "flag" => /\ NewEntry.address = Current.address
                                /\ Present(Current) => Present(NewEntry)
<1>1. Current \in Entry /\ Call.flag \in Flag /\ walk.frame \in Nat
  BY FinishTranslates
<1>2. CASE Call.op # "flag"
  BY <1>1, <1>2, EntryTypes DEF NewEntry
<1>3. CASE Call.op = "flag"
  <2>1. NewEntry = SetFlag(Current, Call.flag)
    BY <1>3 DEF NewEntry
  <2>2. SetFlag(Current, Call.flag).address = Current.address
        /\ SetFlag(Current, Call.flag).flags = Current.flags \cup {Call.flag}
    BY <1>1 DEF SetFlag, Entry
  <2>3. QED BY <1>3, <2>1, <2>2 DEF Present
<1>4. QED BY <1>2, <1>3

\* The tables stand only because they stood before, or are new.
LEMMA RunningBefore ==
  ASSUME TInv, [Next]_vars, Standing', ~NewTables
  PROVE  Standing
<1>1. ReadEfiMemoryMap \/ LockFramebuffer \/ LockKernel => stage' # "running"
  BY DEF ReadEfiMemoryMap, LockFramebuffer, LockKernel
<1>2. stage' = "running"
  BY DEF Standing
<1>3. Load \/ Begin \/ Descend \/ BeginHeap \/ (\E count \in 1 .. MaxHeap : ExpandHeap(count))
        \/ (\E device \in Devices : MapDevice(device)) \/ PageFault \/ UNCHANGED vars
      => stage' = stage /\ tables' = tables
  BY DEF Load, Begin, Descend, BeginHeap, ExpandHeap, MapDevice, PageFault, vars, paging
<1>4. AddTable \/ Finish => stage' = stage /\ DOMAIN tables \subseteq DOMAIN tables'
  BY AddTableIs, FinishIs DEF TInv
<1>5. stage' = stage /\ DOMAIN tables \subseteq DOMAIN tables'
  BY <1>1, <1>2, <1>3, <1>4 DEF Next
<1>6. QED BY <1>5 DEF Standing, Collapsed

\* A walk under way stays that of its call.
LEMMA WalkOn ==
  ASSUME TInv, [Next]_vars, walk.level # 0, ~Finish
  PROVE  calls' = calls /\ walk'.frame = walk.frame /\ cr3' = cr3
<1>1. CASE Descend
  <2>1. walk.level \in 1 .. 3 /\ walk' = [walk EXCEPT !.level = @ + 1, !.table = Current.address]
        /\ calls' = calls /\ cr3' = cr3
    BY <1>1 DEF Descend, Walking
  <2>2. Current.address \in Nat
    BY <2>1, WalkType DEF Entry, TInv
  <2>3. walk'.frame = walk.frame
    BY <2>1, <2>2, WalkDown DEF TInv, Typing
  <2>4. QED BY <2>1, <2>3
<1>2. CASE AddTable
  BY <1>2, AddTableIs DEF TInv
<1>3. CASE PageFault \/ UNCHANGED vars
  BY <1>3 DEF PageFault, vars, paging
<1>4. stage = "running"
  BY DEF TInv, Typing, Boot
<1>5. ~(ReadEfiMemoryMap \/ LockFramebuffer \/ LockKernel \/ NewTables \/ Load \/ Begin \/ BeginHeap
        \/ (\E count \in 1 .. MaxHeap : ExpandHeap(count))
        \/ (\E device \in Devices : MapDevice(device)))
  BY <1>4 DEF ReadEfiMemoryMap, LockFramebuffer, LockKernel, NewTables, Load, Begin, BeginHeap,
       ExpandHeap, MapDevice, Idle
<1>6. QED BY <1>1, <1>2, <1>3, <1>5 DEF Next

\* A walk begins with Begin or, for the heap, with BeginHeap.
LEMMA WalkBegins ==
  ASSUME TInv, [Next]_vars, walk.level = 0, walk'.level # 0, Call'.op = "heap"
  PROVE  BeginHeap
<1>1. ~(ReadEfiMemoryMap \/ LockFramebuffer \/ LockKernel \/ NewTables \/ Load
        \/ (\E count \in 1 .. MaxHeap : ExpandHeap(count))
        \/ (\E device \in Devices : MapDevice(device)) \/ PageFault \/ UNCHANGED vars)
  BY DEF ReadEfiMemoryMap, LockFramebuffer, LockKernel, NewTables, Load, ExpandHeap, MapDevice,
     PageFault, vars, paging
<1>2. ~(Descend \/ AddTable \/ Finish)
  BY DEF Descend, AddTable, Finish, Walking
<1>3. ~Begin
  BY DEF Begin, Call
<1>4. QED BY <1>1, <1>2, <1>3 DEF Next

\* Pages are only taken, and the bitmap keeps its size, once there are tables.
LEMMA BitsKept ==
  ASSUME TInv, [Next]_vars, stage = "running"
  PROVE  PFA!Bits' = PFA!Bits /\ pageBitmap \subseteq pageBitmap'
<1>1. ASSUME UNCHANGED allocator PROVE PFA!Bits' = PFA!Bits /\ pageBitmap \subseteq pageBitmap'
  BY <1>1 DEF allocator, PFA!Bits, PFA!SizeBits
<1>2. ASSUME NEW f \in Nat \cap ({0} \cup PFA!Candidates), Request(f)
      PROVE  PFA!Bits' = PFA!Bits /\ pageBitmap \subseteq pageBitmap'
  BY <1>2, Requests DEF TInv, Typing
<1>3. ~(ReadEfiMemoryMap \/ LockFramebuffer \/ LockKernel \/ NewTables)
  BY DEF ReadEfiMemoryMap, LockFramebuffer, LockKernel, NewTables
<1>4. \/ UNCHANGED allocator
      \/ \E f \in Nat \cap ({0} \cup PFA!Candidates) : Request(f)
  BY <1>3 DEF Next, Load, Begin, BeginHeap, Descend, AddTable, Finish, PageFault, ExpandHeap, MapDevice, vars
<1>5. QED BY <1>1, <1>2, <1>4

\* Before there are tables only InitializePaging takes steps.
LEMMA BootOnly ==
  ASSUME TInv, [Next]_vars, stage # "running",
         ~(ReadEfiMemoryMap \/ LockFramebuffer \/ LockKernel \/ NewTables)
  PROVE  UNCHANGED vars
<1>1. walk.level = 0 /\ calls = <<>>
  BY DEF TInv, Typing, Boot
<1>2. ~(Load \/ Begin \/ BeginHeap \/ (\E count \in 1 .. MaxHeap : ExpandHeap(count))
        \/ (\E device \in Devices : MapDevice(device)))
  BY <1>1 DEF Load, Begin, BeginHeap, ExpandHeap, MapDevice, Idle
<1>3. ~(Descend \/ AddTable \/ Finish \/ PageFault)
  BY <1>1 DEF Descend, AddTable, Finish, PageFault, Walking
<1>4. QED BY <1>2, <1>3 DEF Next

\* What can happen to the queue in a step that ends no call.
LEMMA QueueSteps ==
  ASSUME TInv, [Next]_vars, stage = "running", ~Finish
  PROVE  (calls' = calls /\ cr3' = cr3) \/ calls = <<>> \/ Load
<1>1. CASE walk.level # 0
  BY <1>1, WalkOn
<1>2. CASE walk.level = 0
  <2>1. ~(ReadEfiMemoryMap \/ LockFramebuffer \/ LockKernel \/ NewTables)
    BY DEF ReadEfiMemoryMap, LockFramebuffer, LockKernel, NewTables
  <2>2. ~(Descend \/ AddTable \/ PageFault)
    BY <1>2 DEF Descend, AddTable, PageFault, Walking
  <2>3. Begin \/ BeginHeap \/ UNCHANGED vars => calls' = calls /\ cr3' = cr3
    BY DEF Begin, BeginHeap, vars, paging
  <2>4. (\E count \in 1 .. MaxHeap : ExpandHeap(count)) \/ (\E device \in Devices : MapDevice(device))
          => calls = <<>>
    BY DEF ExpandHeap, MapDevice, Idle
  <2>5. QED BY <2>1, <2>2, <2>3, <2>4 DEF Next
<1>3. QED BY <1>1, <1>2

-----------------------------------------------------------------------------
(***************************************************************************)
(* The pages of the heap.                                                  *)
(***************************************************************************)
\* The page frame that a page is mapped to.
Frame(q) == IF Present(Translate(q)) THEN Translate(q).address ELSE -1

\* What is mapped into the heap was handed out, is no table and is mapped
\* there once; what is about to be mapped is not mapped yet.
Frames ==
    Standing =>
        /\ \A q \in HeapSet : Frame(q) \in {-1, 0} \cup (pageBitmap \ DOMAIN tables)
        /\ \A q, r \in HeapSet : Frame(q) = Frame(r) /\ Frame(q) \notin {-1, 0} => q = r
        /\ walk.level # 0 /\ Call.op = "heap" /\ walk.frame # 0 =>
             \A q \in HeapSet : Frame(q) # walk.frame

\* The heap's pages are pages.
LEMMA HeapPagesType == HeapSet \subseteq Page
<1>1. HeapNumbers \subseteq Nat
  BY ParameterAssumption DEF HeapNumbers
<1>2. QED BY <1>1, PageOfType DEF HeapSet

LEMMA FramesStep == ASSUME TInv, Queue, Frames, [Next]_vars PROVE Frames'
<1>1. SUFFICES ASSUME Standing'
               PROVE  /\ \A q \in HeapSet : Frame(q)' \in {-1, 0} \cup (pageBitmap' \ DOMAIN tables')
                      /\ \A q, r \in HeapSet : Frame(q)' = Frame(r)' /\ Frame(q)' \notin {-1, 0} => q = r
                      /\ walk'.level # 0 /\ Call'.op = "heap" /\ walk'.frame # 0 =>
                           \A q \in HeapSet : Frame(q)' # walk'.frame
  BY DEF Frames
<1>2. CASE NewTables
  <2>1. \A q \in HeapSet : Frame(q)' = -1
    BY <1>2, HeapPagesType, NewTablesTranslate DEF Frame, Present
  <2>2. walk' = walk /\ walk.level = 0
    BY <1>2 DEF NewTables, TInv, Typing, Boot
  <2>3. QED BY <2>1, <2>2
<1>3. CASE ~NewTables
  <2>1. Standing
    BY <1>1, <1>3, RunningBefore
  <2>2. /\ \A q \in HeapSet : Frame(q) \in {-1, 0} \cup (pageBitmap \ DOMAIN tables)
        /\ \A q, r \in HeapSet : Frame(q) = Frame(r) /\ Frame(q) \notin {-1, 0} => q = r
        /\ walk.level # 0 /\ Call.op = "heap" /\ walk.frame # 0 =>
             \A q \in HeapSet : Frame(q) # walk.frame
    BY <2>1 DEF Frames
  <2>3. CASE ~Finish
    <3>1. /\ \A p \in Page : Translate(p)' = Translate(p)
          /\ pageBitmap \subseteq pageBitmap'
          /\ \A t \in DOMAIN tables' \ DOMAIN tables : t \notin pageBitmap
      BY <1>1, <2>1, <2>3, Plain
    <3>2. \A q \in HeapSet : Frame(q)' = Frame(q)
      BY <3>1, HeapPagesType DEF Frame, Present
    <3>3. \A q \in HeapSet : Frame(q) \in {-1, 0} \cup (pageBitmap' \ DOMAIN tables')
      BY <2>2, <3>1
    <3>4. ASSUME walk'.level # 0, Call'.op = "heap", walk'.frame # 0, NEW q \in HeapSet
          PROVE  Frame(q) # walk'.frame
      <4>1. CASE walk.level # 0
        <5>1. calls' = calls /\ walk'.frame = walk.frame
          BY <2>3, <3>4, <4>1, WalkOn
        <5>2. QED BY <2>2, <3>4, <4>1, <5>1 DEF Call
      <4>2. CASE walk.level = 0
        <5>1. BeginHeap
          BY <3>4, <4>2, <2>3, WalkBegins
        <5>2. PICK f \in Nat \cap ({0} \cup PFA!Candidates) :
                Request(f) /\ walk' = [level |-> 1, table |-> pml4, frame |-> f]
          BY <5>1 DEF BeginHeap
        <5>3. f # 0 /\ f \notin pageBitmap /\ f # -1 /\ walk'.frame = f
          BY <3>4, <5>2, Requests DEF TInv, Typing
        <5>4. QED BY <2>2, <5>3
      <4>3. QED BY <4>1, <4>2
    <3>5. QED BY <2>2, <3>2, <3>3, <3>4
  <2>4. CASE Finish
    <3>1. /\ \A p \in Page : Translate(p)' = IF p = Call.page THEN NewEntry ELSE Translate(p)
          /\ pageBitmap' = pageBitmap /\ DOMAIN tables' = DOMAIN tables /\ walk'.level = 0
          /\ walk.level # 0 /\ walk.frame \in Nat
      BY <2>1, <2>4, FinishTranslates DEF allocator
    <3>2. Call \in Good(efiMap) /\ Call.op # "load"
      BY <3>1, WalkType, QueueHead DEF TInv
    <3>3. Call.op \in {"map", "flag", "heap"}
      BY <3>2 DEF Good, Request4
    <3>4. Call.op \in {"map", "flag"} => Call.page \notin HeapSet
      BY <3>2 DEF Good
    <3>5. ASSUME NEW q \in HeapSet
          PROVE  /\ q # Call.page => Frame(q)' = Frame(q)
                 /\ q = Call.page => Call.op = "heap" /\ Frame(q)' = walk.frame
      <4>1. q # Call.page => Frame(q)' = Frame(q)
        BY <3>1, HeapPagesType DEF Frame, Present
      <4>2. q = Call.page => Call.op = "heap"
        BY <3>3, <3>4
      <4>3. Call.op = "heap" => Present(NewEntry) /\ NewEntry.address = walk.frame
        BY <2>1, <2>4, NewEntryIs
      <4>4. q = Call.page => Translate(q)' = NewEntry
        BY <3>1, HeapPagesType
      <4>5. QED BY <4>1, <4>2, <4>3, <4>4 DEF Frame, Present
    <3>6. Call.op = "heap" => walk.frame \in {0} \cup (pageBitmap \ DOMAIN tables)
      BY <2>1, <3>1 DEF TInv, Tree, Apart
    <3>7. \A q \in HeapSet : Frame(q)' \in {-1, 0} \cup (pageBitmap' \ DOMAIN tables')
      BY <2>2, <3>1, <3>5, <3>6
    <3>8. ASSUME NEW q \in HeapSet, NEW r \in HeapSet, Frame(q)' = Frame(r)', Frame(q)' \notin {-1, 0}
          PROVE  q = r
      <4>1. CASE q = Call.page
        BY <2>2, <3>1, <3>5, <3>8, <4>1
      <4>2. CASE r = Call.page
        BY <2>2, <3>1, <3>5, <3>8, <4>2
      <4>3. CASE q # Call.page /\ r # Call.page
        BY <2>2, <3>5, <3>8, <4>3
      <4>4. QED BY <4>1, <4>2, <4>3
    <3>9. QED BY <3>1, <3>7, <3>8
  <2>5. QED BY <2>3, <2>4
<1>4. QED BY <1>2, <1>3

-----------------------------------------------------------------------------
(***************************************************************************)
(* The pages that are mapped to themselves.                                *)
(***************************************************************************)
\* The low pages are kept from use, so no table is one of them.
Low ==
    /\ stage # "memory map" => \A x \in 0 .. LowPages - 1 : x \in PFA!Bits => x \in pageBitmap
    /\ Standing => \A t \in DOMAIN tables : t >= LowPages

\* A page that is mapped to itself, and one that is going to be before cr3.
Self(n) == Present(Translate(PageOf(n))) /\ Translate(PageOf(n)).address = n

Ahead(n) ==
    \E k \in 1 .. Len(calls) : /\ calls[k].op = "map" /\ calls[k].page = PageOf(n)
                               /\ \A j \in 1 .. k : calls[j].op # "load"

Identity == Standing => \A n \in MemoryPages(efiMap) : Self(n) \/ (~cr3 /\ Ahead(n))

\* Reading the memory map locks the low pages; what is requested later is
\* therefore none of them.
LEMMA LowStep == ASSUME TInv, Low, [Next]_vars PROVE Low'
<1>1. Typing /\ LowPages \in Nat
  BY ParameterAssumption DEF TInv
<1>2. CASE ReadEfiMemoryMap
  <2>1. stage' # "running" /\ PFA!ReadEfiMemoryMap
    BY <1>2 DEF ReadEfiMemoryMap
  <2> DEFINE m == PFA!CalculateMemorySize(efiMap)
             size == (m \div 8) + 1
             indices == 0 .. size * 8
             bitmapPages == PFA!Pages(PFA!LargestRegion(efiMap), (size \div PageSize) + 1)
  <2>2. PICK stray \in SUBSET {size * 8} :
          LET reserved == stray \cup PFA!Pages(0, m)
              released == reserved \cap PFA!UsablePages(efiMap)
              low == (PFA!Pages(0, LowPages) \cap indices) \ (reserved \ released)
              own == (bitmapPages \cap indices) \ ((reserved \ released) \cup low)
          IN  sizeBytes' = size /\ pageBitmap' = (reserved \ released) \cup low \cup own
    BY <2>1 DEF PFA!ReadEfiMemoryMap
  <2> DEFINE reserved == stray \cup PFA!Pages(0, m)
             released == reserved \cap PFA!UsablePages(efiMap)
             low == (PFA!Pages(0, LowPages) \cap indices) \ (reserved \ released)
             own == (bitmapPages \cap indices) \ ((reserved \ released) \cup low)
  <2>3. sizeBytes' = size /\ pageBitmap' = (reserved \ released) \cup low \cup own
    BY <2>2
  <2> HIDE DEF reserved, released, own, bitmapPages, size
  <2>4. PFA!Bits' = indices
    BY <2>3 DEF PFA!Bits, PFA!SizeBits
  <2>5. PFA!Pages(0, LowPages) = 0 .. LowPages - 1
    BY <1>1 DEF PFA!Pages
  <2> HIDE DEF indices
  <2>6. \A x \in 0 .. LowPages - 1 : x \in PFA!Bits' => x \in pageBitmap'
    BY <2>3, <2>4, <2>5
  <2>7. QED BY <2>1, <2>6 DEF Low, Standing
<1>3. CASE LockFramebuffer \/ LockKernel
  <2>1. stage' # "running" /\ stage # "memory map" /\ PFA!Bits' = PFA!Bits
        /\ pageBitmap \subseteq pageBitmap'
    BY <1>3 DEF LockFramebuffer, LockKernel, PFA!LockPages, PFA!Lock, PFA!Bits, PFA!SizeBits
  <2>2. QED BY <2>1 DEF Low, Standing
<1>4. CASE NewTables
  <2>1. PICK f \in Nat \cap ({0} \cup PFA!Candidates) :
          Request(f) /\ tables' = Cell(f, Cleared)
    BY <1>4 DEF NewTables
  <2>2. DOMAIN tables = {} /\ stage = "tables" /\ stage' = "running"
    BY <1>1, <1>4 DEF NewTables, Typing, Boot
  <2>3. DOMAIN tables' = {f}
    BY <2>1, <2>2, CellIs
  <2>4. /\ PFA!Bits' = PFA!Bits
        /\ \/ f = 0 /\ pageBitmap' = pageBitmap
           \/ f \notin pageBitmap /\ f \in PFA!Bits /\ pageBitmap' = pageBitmap \cup {f}
    BY <1>1, <2>1, Requests DEF Typing
  <2>5. \A x \in 0 .. LowPages - 1 : x \in PFA!Bits => x \in pageBitmap
    BY <2>2 DEF Low
  <2>6. f # 0 => f >= LowPages
    BY <1>1, <2>4, <2>5
  <2>7. Standing' => f # 0
    BY <2>3 DEF Standing, Collapsed
  <2>8. QED BY <2>3, <2>4, <2>5, <2>6, <2>7 DEF Low
<1>5. CASE ~(ReadEfiMemoryMap \/ LockFramebuffer \/ LockKernel \/ NewTables) /\ stage = "running"
  <2>1. PFA!Bits' = PFA!Bits /\ pageBitmap \subseteq pageBitmap'
    BY <1>5, BitsKept
  <2>2. \A x \in 0 .. LowPages - 1 : x \in PFA!Bits => x \in pageBitmap
    BY <1>5 DEF Low
  <2>3. ASSUME Standing' PROVE \A t \in DOMAIN tables' : t >= LowPages
    <3>1. Standing
      BY <1>5, <2>3, RunningBefore
    <3>2. CASE Finish
      BY <3>1, <3>2, FinishTranslates DEF Low
    <3>3. CASE ~Finish
      <4>1. \A t \in DOMAIN tables' \ DOMAIN tables : t \notin pageBitmap /\ t \in PFA!Bits
        BY <2>3, <3>1, <3>3, Plain
      <4>2. DOMAIN tables' \subseteq Nat
        BY TypingStep, <1>1 DEF Typing, TablesType
      <4>3. \A t \in DOMAIN tables' \ DOMAIN tables : t >= LowPages
        BY <1>1, <2>2, <4>1, <4>2
      <4>4. QED BY <3>1, <4>3 DEF Low
    <3>4. QED BY <3>2, <3>3
  <2>4. QED BY <2>1, <2>2, <2>3 DEF Low
<1>6. CASE stage # "running" /\ ~(ReadEfiMemoryMap \/ LockFramebuffer \/ LockKernel \/ NewTables)
  <2>1. UNCHANGED vars
    BY <1>1, <1>6, BootOnly DEF TInv
  <2>2. QED BY <2>1 DEF vars, allocator, paging, Low, Standing, Collapsed, PFA!Bits, PFA!SizeBits
<1>7. QED BY <1>2, <1>3, <1>4, <1>5, <1>6

\* A page of memory is mapped to itself before cr3 is loaded and stays so.
LEMMA IdentityStep == ASSUME TInv, Queue, Identity, [Next]_vars PROVE Identity'
<1>1. Typing /\ efiMap \in EfiMaps /\ efiMap' = efiMap /\ MemoryPages(efiMap) \subseteq Nat
  BY MapKept, Layout DEF TInv, Typing, Searches
<1>2. \A n \in MemoryPages(efiMap) : PageOf(n) \in Page
  BY <1>1, PageOfType
<1>3. SUFFICES ASSUME Standing', NEW n \in MemoryPages(efiMap)
               PROVE  Self(n)' \/ (~cr3' /\ Ahead(n)')
  BY <1>1 DEF Identity, MemoryPages
<1> DEFINE p == PageOf(n)
<1>4. n \in Nat /\ p \in Page /\ Self(n)' = (Present(Translate(p)') /\ Translate(p)'.address = n)
  BY <1>1, <1>2 DEF Self, Present
<1>5. CASE NewTables
  <2> DEFINE m == PFA!CalculateMemorySize(efiMap)
             k == n - FirstMapped + 1
  <2>1. calls' = MappedToItself(m) \o FramebufferCalls \o Guarded(0) \o Guarded(Impossible)
                 \o <<LoadCr3>> \o HeapCalls(HeapStart, HeapPages)
    BY <1>5 DEF NewTables
  <2>2. /\ m \in Nat /\ FirstMapped \in Nat
        /\ MappedToItself(m) \in Seq(Good(efiMap))
        /\ \E rest \in Seq(Good(efiMap)) : calls' = MappedToItself(m) \o rest
    BY <1>1, <2>1, GoodBoot, ParameterAssumption
  <2>3. PICK rest \in Seq(Good(efiMap)) : calls' = MappedToItself(m) \o rest
    BY <2>2
  <2>4. /\ k \in 1 .. m - FirstMapped /\ FirstMapped + k - 1 = n
    BY <1>4, <2>2 DEF MemoryPages
  <2> DEFINE s == MappedToItself(m)
  <2>5. /\ DOMAIN s = 1 .. m - FirstMapped
        /\ \A j \in DOMAIN s : s[j].op = "map"
        /\ s[k].page = p
    BY <2>2, <2>4 DEF MappedToItself, MapCall
  <2>6. 1 .. k \subseteq DOMAIN s /\ k \in DOMAIN s
    BY <2>2, <2>4, <2>5
  <2> HIDE DEF s, k
  <2>7. /\ Len(calls') = Len(s) + Len(rest) /\ DOMAIN s = 1 .. Len(s)
        /\ Len(s) \in Nat /\ Len(rest) \in Nat
        /\ \A j \in 1 .. Len(s) : calls'[j] = s[j]
    BY <2>2, <2>3, ConcatProperties, LenProperties DEF s
  <2>8. k \in 1 .. Len(calls') /\ calls'[k] = s[k] /\ \A j \in 1 .. k : calls'[j] = s[j]
    BY <2>6, <2>7
  <2>9. calls'[k].op = "map" /\ calls'[k].page = p /\ \A j \in 1 .. k : calls'[j].op # "load"
    BY <2>5, <2>6, <2>8
  <2>10. Ahead(n)'
    BY <2>8, <2>9 DEF Ahead
  <2>11. cr3' = FALSE
    BY <1>5 DEF NewTables, TInv, Typing, Boot
  <2>12. QED BY <2>10, <2>11
<1>6. CASE ~NewTables
  <2>1. Standing
    BY <1>3, <1>6, RunningBefore
  <2>2. Self(n) \/ (~cr3 /\ Ahead(n))
    BY <2>1 DEF Identity
  <2>3. CASE ~Finish
    <3>1. Translate(p)' = Translate(p)
      BY <1>3, <1>4, <2>1, <2>3, Plain
    <3>2. Self(n) => Self(n)'
      BY <1>4, <3>1 DEF Self, Present
    <3>3. (calls' = calls /\ cr3' = cr3) \/ calls = <<>> \/ Load
      BY <2>1, <2>3, QueueSteps DEF Standing
    <3>4. Ahead(n) => calls # <<>> /\ Head(calls).op # "load"
      <4>1. ASSUME Ahead(n) PROVE calls # <<>> /\ Head(calls).op # "load"
        <5>1. PICK k \in 1 .. Len(calls) : \A j \in 1 .. k : calls[j].op # "load"
          BY <4>1 DEF Ahead
        <5>2. Len(calls) \in Nat /\ calls \in Seq(Request4)
          BY <1>1, LenProperties DEF Typing, CallsType
        <5>3. 1 \in 1 .. k /\ calls # <<>>
          BY <5>1, <5>2
        <5>4. Head(calls) = calls[1]
          BY <5>2, <5>3
        <5>5. QED BY <5>1, <5>3, <5>4
      <4>2. QED BY <4>1
    <3>5. CASE Self(n)
      BY <3>2, <3>5
    <3>6. CASE ~cr3 /\ Ahead(n)
      <4>1. calls' = calls /\ cr3' = cr3
        BY <3>3, <3>4, <3>6 DEF Load
      <4>2. Ahead(n)'
        BY <3>6, <4>1 DEF Ahead
      <4>3. QED BY <3>6, <4>1, <4>2
    <3>7. QED BY <2>2, <3>5, <3>6
  <2>4. CASE Finish
    <3>1. /\ Translate(p)' = IF p = Call.page THEN NewEntry ELSE Translate(p)
          /\ Current = Translate(Call.page) /\ Current \in Entry
          /\ walk.level = 4 /\ cr3' = cr3 /\ calls' = Tail(calls)
      BY <1>4, <2>1, <2>4, FinishTranslates
    <3>2. /\ calls \in Seq(Request4) /\ calls # <<>> /\ Call \in Good(efiMap) /\ Call.op # "load"
      BY <1>1, <3>1, WalkType, QueueHead
    <3>3. Call.op = "map" => walk.frame = Call.frame
      BY <3>1 DEF Queue
    <3>4. p = Call.page => Call.op = "flag" \/ (Call.op = "map" /\ walk.frame = n)
      BY <3>2, <3>3 DEF Good
    <3>5. Self(n) => Self(n)'
      BY <1>4, <2>1, <2>4, <3>1, <3>4, NewEntryIs DEF Self
    <3>6. p = Call.page /\ Call.op = "map" => Self(n)'
      BY <1>4, <2>1, <2>4, <3>1, <3>4, NewEntryIs
    <3>7. CASE Ahead(n) /\ ~cr3 /\ ~(p = Call.page /\ Call.op = "map")
      <4>1. PICK k \in 1 .. Len(calls) : /\ calls[k].op = "map" /\ calls[k].page = p
                                         /\ \A j \in 1 .. k : calls[j].op # "load"
        BY <3>7 DEF Ahead
      <4>2. Call = calls[1] /\ Len(calls) \in Nat
        BY <3>2, LenProperties DEF Call
      <4>3. k # 1
        BY <3>7, <4>1, <4>2
      <4> DEFINE i == k - 1
      <4>4. /\ Len(calls') = Len(calls) - 1
            /\ \A j \in 1 .. Len(calls) - 1 : calls'[j] = calls[j + 1]
        BY <3>1, <3>2, HeadTailProperties
      <4>5. i \in 1 .. Len(calls') /\ calls'[i] = calls[k]
        BY <4>1, <4>2, <4>3, <4>4
      <4>6. \A j \in 1 .. i : calls'[j].op # "load"
        BY <4>1, <4>2, <4>3, <4>4
      <4> HIDE DEF i
      <4>7. Ahead(n)'
        BY <4>1, <4>5, <4>6 DEF Ahead
      <4>8. QED BY <3>1, <3>7, <4>7
    <3>8. QED BY <2>2, <3>5, <3>6, <3>7
  <2>5. QED BY <2>3, <2>4
<1>7. QED BY <1>5, <1>6

-----------------------------------------------------------------------------
(***************************************************************************)
(* The heap's calls that are still to be made, and the pages they are for. *)
(***************************************************************************)
\* The number of the page that call k is for, if it is one of the heap's: the
\* heap's calls are the last in the queue, and the last is for the last page.
Number(k) == heapEnd - 1 - (Len(calls) - k)
Due(n) == \E k \in 1 .. Len(calls) : calls[k].op = "heap" /\ n = Number(k)

\* No page of the heap is mapped before its call is made, nor called twice.
HeapLine ==
    Standing =>
        /\ \A k \in 1 .. Len(calls) : calls[k].op = "heap" =>
             Number(k) \in HeapNumbers /\ calls[k].page = PageOf(Number(k))
        /\ \A n \in HeapNumbers : n >= heapEnd \/ Due(n) => ~Present(Translate(PageOf(n)))

\* The heap's calls, by their place in what ExpandHeap and InitializeHeap queue.
LEMMA HeapCallIs ==
  ASSUME NEW first \in Nat, NEW count \in Nat
  PROVE  /\ HeapCalls(first, count) \in Seq(Request4)
         /\ Len(HeapCalls(first, count)) = count
         /\ \A k \in 1 .. count : HeapCalls(first, count)[k] = HeapCall(first + k - 1)
<1>1. \A n \in first .. first + count - 1 : HeapCall(n) \in Request4
  BY CallTypes
<1>2. HeapCalls(first, count) \in Seq(Request4)
  BY <1>1, HeapCallsIn
<1>3. DOMAIN HeapCalls(first, count) = 1 .. count
  BY DEF HeapCalls
<1>4. Len(HeapCalls(first, count)) = count
  BY <1>2, <1>3, LenProperties
<1>5. QED BY <1>2, <1>4 DEF HeapCalls

\* InitializePaging queues none of the heap's calls before those of
\* InitializeHeap.
LEMMA BootFront ==
  ASSUME NEW m \in Nat
  PROVE  MappedToItself(m) \o FramebufferCalls \o Guarded(0) \o Guarded(Impossible) \o <<LoadCr3>>
           \in Seq({c \in Request4 : c.op # "heap"})
<1> DEFINE S == {c \in Request4 : c.op # "heap"}
<1>1. FramebufferPages \subseteq Nat /\ Impossible \in Nat /\ FirstMapped .. m - 1 \subseteq Nat
  BY FramebufferNumbers, ParameterAssumption
<1>2. /\ \A n, frame \in Nat : MapCall(n, frame) \in S
      /\ \A n \in Nat : \A flag \in Flag : FlagCall(n, flag) \in S
      /\ LoadCr3 \in S
  BY CallTypes DEF MapCall, FlagCall, LoadCr3
<1> HIDE DEF S
<1>3. MappedToItself(m) \in Seq(S)
  BY <1>1, <1>2, MappedToItselfIn
<1>4. FramebufferCalls \in Seq(S)
  BY <1>1, <1>2, FramebufferCallsIn
<1>5. Guarded(0) \in Seq(S) /\ Guarded(Impossible) \in Seq(S)
  BY <1>1, <1>2, GuardedIn
<1>6. <<LoadCr3>> \in Seq(S)
  BY <1>2
<1>7. QED BY <1>3, <1>4, <1>5, <1>6, ConcatProperties DEF S

\* The queue that NewTables leaves.
BootQueue(m) ==
    MappedToItself(m) \o FramebufferCalls \o Guarded(0) \o Guarded(Impossible) \o <<LoadCr3>>
      \o HeapCalls(HeapStart, HeapPages)

LEMMA BootLine ==
  ASSUME NEW m \in Nat, NEW queue, queue = BootQueue(m)
  PROVE  \A k \in 1 .. Len(queue) : queue[k].op = "heap" =>
           /\ k - Len(queue) + HeapPages \in 1 .. HeapPages
           /\ queue[k] = HeapCall(HeapStart + k - Len(queue) + HeapPages - 1)
<1> DEFINE S == {c \in Request4 : c.op # "heap"}
           front == MappedToItself(m) \o FramebufferCalls \o Guarded(0) \o Guarded(Impossible) \o <<LoadCr3>>
           back == HeapCalls(HeapStart, HeapPages)
<1>1. HeapStart \in Nat /\ HeapPages \in Nat
  BY ParameterAssumption
<1>2. front \in Seq(S)
  BY BootFront
<1>3. /\ back \in Seq(Request4) /\ Len(back) = HeapPages
      /\ \A k \in 1 .. HeapPages : back[k] = HeapCall(HeapStart + k - 1)
  BY <1>1, HeapCallIs
<1>4. queue = front \o back
  BY DEF BootQueue
<1> HIDE DEF front, back
<1>5. front \in Seq(Request4)
  BY <1>2, SeqMonotonic
<1>6. /\ Len(queue) = Len(front) + HeapPages /\ Len(front) \in Nat
      /\ \A k \in 1 .. Len(queue) : queue[k] = IF k <= Len(front) THEN front[k] ELSE back[k - Len(front)]
  <2>1. \A s, t \in Seq(Request4) :
          /\ Len(s) \in Nat /\ Len(s \o t) = Len(s) + Len(t)
          /\ \A k \in 1 .. Len(s) + Len(t) : (s \o t)[k] = IF k <= Len(s) THEN s[k] ELSE t[k - Len(s)]
    BY ConcatProperties, LenProperties
  <2>2. /\ Len(front) \in Nat /\ Len(front \o back) = Len(front) + Len(back)
        /\ \A k \in 1 .. Len(front) + Len(back) :
             (front \o back)[k] = IF k <= Len(front) THEN front[k] ELSE back[k - Len(front)]
    BY <1>3, <1>5, <2>1
  <2>3. QED BY <1>3, <1>4, <2>2
<1>7. \A k \in 1 .. Len(front) : front[k].op # "heap"
  BY <1>2, ElementOfSeq
<1>8. ASSUME NEW k \in 1 .. Len(queue), queue[k].op = "heap"
      PROVE  /\ k - Len(queue) + HeapPages \in 1 .. HeapPages
             /\ queue[k] = HeapCall(HeapStart + k - Len(queue) + HeapPages - 1)
  <2>1. ~(k <= Len(front))
    BY <1>1, <1>6, <1>7, <1>8
  <2>2. k - Len(front) \in 1 .. HeapPages /\ k - Len(queue) + HeapPages = k - Len(front)
    BY <1>1, <1>6, <2>1
  <2>3. queue[k] = HeapCall(HeapStart + (k - Len(front)) - 1)
    BY <1>3, <1>6, <2>1, <2>2
  <2>4. HeapStart + (k - Len(front)) - 1 = HeapStart + k - Len(queue) + HeapPages - 1
    BY <1>1, <1>6
  <2>5. QED BY <2>2, <2>3, <2>4
<1>9. QED BY <1>8

\* The first call is made: the others move up, each still for its page.
LEMMA MoveUp ==
  ASSUME Typing, calls # <<>>, calls' = Tail(calls), heapEnd' = heapEnd, NEW j \in 1 .. Len(calls')
  PROVE  /\ j + 1 \in 1 .. Len(calls) /\ calls'[j] = calls[j + 1]
         /\ Number(j)' = Number(j + 1)
<1>1. calls \in Seq(Request4) /\ heapEnd \in Nat
  BY DEF Typing, CallsType, Scalars, Request4
<1>2. /\ Len(calls') = Len(calls) - 1 /\ Len(calls) \in Nat
      /\ \A k \in 1 .. Len(calls) - 1 : calls'[k] = calls[k + 1]
  BY <1>1, HeadTailProperties, LenProperties
<1>3. Number(j)' = heapEnd - 1 - (Len(calls) - 1 - j)
  BY <1>2 DEF Number
<1>4. QED BY <1>1, <1>2, <1>3 DEF Number

\* Who makes, queues or leaves the calls.
LEMMA CallSteps ==
  ASSUME TInv, [Next]_vars, Standing, ~Finish, ~Load,
         ~\E count \in 1 .. MaxHeap : ExpandHeap(count), ~\E device \in Devices : MapDevice(device)
  PROVE  calls' = calls /\ heapEnd' = heapEnd
<1>1. ~(ReadEfiMemoryMap \/ LockFramebuffer \/ LockKernel \/ NewTables)
  BY DEF ReadEfiMemoryMap, LockFramebuffer, LockKernel, NewTables, Standing
<1>2. CASE Begin \/ BeginHeap \/ Descend \/ AddTable \/ PageFault
  BY <1>2 DEF Begin, BeginHeap, Descend, AddTable, PageFault
<1>3. CASE UNCHANGED vars
  BY <1>3 DEF vars, paging
<1>4. QED BY <1>1, <1>2, <1>3 DEF Next

\* What has to be seen of a step that ends no call: the calls stay those of
\* their pages, and no page is called that could not have been before.
LEMMA HeapLineKept ==
  ASSUME TInv, HeapLine, [Next]_vars, Standing, Standing', ~Finish,
         \A k \in 1 .. Len(calls') : calls'[k].op = "heap" =>
           /\ Number(k)' \in HeapNumbers /\ calls'[k].page = PageOf(Number(k)')
           /\ Number(k)' >= heapEnd \/ Due(Number(k)'),
         heapEnd' >= heapEnd
  PROVE  HeapLine'
<1>1. /\ heapEnd \in Nat /\ heapEnd' \in Nat /\ HeapNumbers \subseteq Nat
  <2>1. Typing /\ Typing'
    BY TypingStep DEF TInv
  <2>2. HeapNumbers \subseteq Nat
    BY ParameterAssumption DEF HeapNumbers
  <2>3. QED BY <2>1, <2>2 DEF Typing, Scalars
<1>2. \A n \in HeapNumbers : n >= heapEnd \/ Due(n) => ~Present(Translate(PageOf(n)))
  BY DEF HeapLine
<1>3. ASSUME NEW n \in HeapNumbers, n >= heapEnd' \/ Due(n)'
      PROVE  ~Present(Translate(PageOf(n)))'
  <2>1. n >= heapEnd \/ Due(n)
    <3>1. CASE n >= heapEnd'
      BY <1>1, <3>1
    <3>2. CASE Due(n)'
      <4>1. \E k \in 1 .. Len(calls') : calls'[k].op = "heap" /\ n = Number(k)'
        BY <3>2 DEF Due
      <4>2. QED BY <4>1
    <3>3. QED BY <1>3, <3>1, <3>2
  <2>2. Translate(PageOf(n))' = Translate(PageOf(n))
    BY <1>1, PageOfType, Plain
  <2>3. QED BY <1>2, <2>1, <2>2 DEF Present
<1>4. QED BY <1>3 DEF HeapLine

LEMMA HeapLineStep == ASSUME TInv, Queue, HeapLine, [Next]_vars PROVE HeapLine'
<1>1. SUFFICES ASSUME Standing' PROVE HeapLine'
  BY DEF HeapLine
<1>2. /\ Typing /\ efiMap \in EfiMaps /\ calls \in Seq(Request4) /\ Len(calls) \in Nat
      /\ heapEnd \in Nat /\ heapEnd \in HeapStart .. HeapStart + HeapPages + MaxHeap
  BY LenProperties DEF TInv, Typing, Searches, CallsType, Scalars, Queue
<1>3. HeapStart \in Nat /\ HeapPages \in Nat /\ MaxHeap \in Nat
  BY ParameterAssumption
<1>4. /\ HeapNumbers \subseteq Nat /\ \A n \in HeapNumbers : PageOf(n) \in HeapSet /\ PageOf(n) \in Page
      /\ \A m, n \in HeapNumbers : PageOf(m) = PageOf(n) => m = n
  BY <1>2, Layout, PageOfType DEF HeapSet
<1>5. CASE NewTables
  <2> DEFINE m == PFA!CalculateMemorySize(efiMap)
  <2>1. /\ calls' = MappedToItself(m) \o FramebufferCalls \o Guarded(0) \o Guarded(Impossible)
                      \o <<LoadCr3>> \o HeapCalls(HeapStart, HeapPages)
        /\ heapEnd' = HeapStart + HeapPages /\ m \in Nat
    BY <1>2, <1>5, MapAssumption DEF NewTables
  <2> HIDE DEF m
  <2>2. Len(calls') \in Nat
    BY <2>1, BootCallsType, LenProperties
  <2>3. \A n \in HeapNumbers : ~Present(Translate(PageOf(n)))'
    BY <1>4, <1>5, NewTablesTranslate DEF Present
  <2>4. ASSUME NEW k \in 1 .. Len(calls'), calls'[k].op = "heap"
        PROVE  Number(k)' \in HeapNumbers /\ calls'[k].page = PageOf(Number(k)')
    <3>1. /\ k - Len(calls') + HeapPages \in 1 .. HeapPages
          /\ calls'[k] = HeapCall(HeapStart + k - Len(calls') + HeapPages - 1)
      BY <2>1, <2>4, BootLine DEF BootQueue
    <3>2. Number(k)' = HeapStart + k - Len(calls') + HeapPages - 1
      BY <1>3, <2>1, <2>2 DEF Number
    <3>3. Number(k)' \in HeapNumbers
      BY <1>3, <2>2, <3>1, <3>2 DEF HeapNumbers
    <3>4. calls'[k].page = PageOf(Number(k)')
      BY <3>1, <3>2 DEF HeapCall
    <3>5. QED BY <3>3, <3>4
  <2>5. QED BY <2>3, <2>4 DEF HeapLine
<1>6. CASE ~NewTables
  <2>1. Standing
    BY <1>1, <1>6, RunningBefore
  <2>2. /\ \A n \in HeapNumbers : n >= heapEnd \/ Due(n) => ~Present(Translate(PageOf(n)))
        /\ \A k \in 1 .. Len(calls) : calls[k].op = "heap" =>
             Number(k) \in HeapNumbers /\ calls[k].page = PageOf(Number(k))
    BY <2>1 DEF HeapLine
  <2>3. ASSUME calls # <<>>, calls' = Tail(calls), heapEnd' = heapEnd,
               NEW k \in 1 .. Len(calls'), calls'[k].op = "heap"
        PROVE  /\ k + 1 \in 1 .. Len(calls) /\ Number(k)' = Number(k + 1)
               /\ Number(k)' \in HeapNumbers /\ calls'[k].page = PageOf(Number(k)')
               /\ Due(Number(k)')
    <3>1. k + 1 \in 1 .. Len(calls) /\ calls'[k] = calls[k + 1] /\ Number(k)' = Number(k + 1)
      BY <1>2, <2>3, MoveUp
    <3>2. Due(Number(k + 1))
      BY <2>3, <3>1 DEF Due
    <3>3. QED BY <2>2, <2>3, <3>1, <3>2
  <2>4. CASE Finish
    <3>1. /\ \A p \in Page : Translate(p)' = IF p = Call.page THEN NewEntry ELSE Translate(p)
          /\ calls' = Tail(calls) /\ heapEnd' = heapEnd /\ walk.level # 0
      BY <2>1, <2>4, FinishTranslates
    <3>2. /\ calls # <<>> /\ Call \in Good(efiMap) /\ Call.op # "load"
          /\ Call = calls[1] /\ 1 \in 1 .. Len(calls)
      BY <1>2, <3>1, WalkType, QueueHead DEF Call
    <3>3. \A k \in 1 .. Len(calls) : Number(k) < heapEnd
      BY <1>2 DEF Number
    <3>4. ASSUME NEW n \in HeapNumbers, n >= heapEnd' \/ Due(n)'
          PROVE  (n >= heapEnd \/ Due(n)) /\ n # Number(1)
      <4>1. CASE n >= heapEnd'
        BY <1>2, <1>4, <3>1, <3>2, <3>3, <4>1 DEF Number
      <4>2. CASE Due(n)'
        <5>1. PICK k \in 1 .. Len(calls') : calls'[k].op = "heap" /\ n = Number(k)'
          BY <4>2 DEF Due
        <5>2. k + 1 \in 1 .. Len(calls) /\ n = Number(k + 1) /\ Due(n)
          BY <2>3, <3>1, <3>2, <5>1
        <5>3. Number(k + 1) # Number(1)
          BY <1>2, <5>2 DEF Number
        <5>4. QED BY <5>2, <5>3
      <4>3. QED BY <3>4, <4>1, <4>2
    <3>5. ASSUME NEW n \in HeapNumbers, PageOf(n) = Call.page
          PROVE  n = Number(1)
      <4>1. Call.op = "heap"
        BY <1>4, <3>2, <3>5 DEF Good, Request4
      <4>2. Number(1) \in HeapNumbers /\ Call.page = PageOf(Number(1))
        BY <2>2, <3>2, <4>1
      <4>3. QED BY <1>4, <3>5, <4>2
    <3>6. ASSUME NEW n \in HeapNumbers, n >= heapEnd' \/ Due(n)'
          PROVE  ~Present(Translate(PageOf(n)))'
      <4>1. (n >= heapEnd \/ Due(n)) /\ PageOf(n) # Call.page
        BY <3>4, <3>5, <3>6
      <4>2. Translate(PageOf(n))' = Translate(PageOf(n))
        BY <1>4, <3>1, <4>1
      <4>3. QED BY <2>2, <4>1, <4>2 DEF Present
    <3>7. \A k \in 1 .. Len(calls') : calls'[k].op = "heap" =>
            Number(k)' \in HeapNumbers /\ calls'[k].page = PageOf(Number(k)')
      BY <2>3, <3>1, <3>2
    <3>8. QED BY <3>6, <3>7 DEF HeapLine
  <2>5. CASE ~Finish /\ Load
    <3>1. calls # <<>> /\ calls' = Tail(calls) /\ heapEnd' = heapEnd
      BY <2>5 DEF Load
    <3>2. QED BY <1>1, <1>2, <2>1, <2>3, <2>5, <3>1, HeapLineKept
  <2>6. CASE ~Finish /\ \E count \in 1 .. MaxHeap : ExpandHeap(count)
    <3>1. PICK count \in 1 .. MaxHeap :
            /\ calls' = HeapCalls(heapEnd, count) /\ heapEnd' = heapEnd + count
            /\ heapEnd + count <= HeapStart + HeapPages + MaxHeap
      BY <2>6 DEF ExpandHeap
    <3>2. count \in Nat
      BY <1>3
    <3>3. /\ Len(calls') = count /\ \A k \in 1 .. count : calls'[k] = HeapCall(heapEnd + k - 1)
      BY <1>2, <3>1, <3>2, HeapCallIs
    <3>4. ASSUME NEW k \in 1 .. count
          PROVE  /\ Number(k)' \in HeapNumbers /\ Number(k)' >= heapEnd
                 /\ calls'[k].page = PageOf(Number(k)')
      <4>1. Number(k)' = heapEnd + k - 1
        BY <1>2, <3>1, <3>2, <3>3 DEF Number
      <4>2. QED BY <1>2, <1>3, <3>1, <3>3, <4>1 DEF HeapNumbers, HeapCall
    <3>5. heapEnd' >= heapEnd
      BY <1>2, <3>1, <3>2
    <3>6. QED BY <1>1, <2>1, <2>6, <3>3, <3>4, <3>5, HeapLineKept
  <2>7. CASE ~Finish /\ \E device \in Devices : MapDevice(device)
    <3>1. PICK device \in Devices : calls' = <<MapCall(device, device)>> /\ heapEnd' = heapEnd
      BY <2>7 DEF MapDevice
    <3>2. \A k \in 1 .. Len(calls') : calls'[k].op # "heap"
      BY <3>1 DEF MapCall
    <3>3. QED BY <1>1, <1>2, <2>1, <2>7, <3>1, <3>2, HeapLineKept
  <2>8. CASE /\ ~Finish /\ ~Load /\ ~\E count \in 1 .. MaxHeap : ExpandHeap(count)
             /\ ~\E device \in Devices : MapDevice(device)
    <3>1. calls' = calls /\ heapEnd' = heapEnd
      BY <2>1, <2>8, CallSteps
    <3>2. \A k : Number(k)' = Number(k)
      BY <3>1 DEF Number
    <3>3. \A k \in 1 .. Len(calls) : calls[k].op = "heap" => Due(Number(k))
      BY DEF Due
    <3>4. QED BY <1>1, <1>2, <2>1, <2>2, <2>8, <3>1, <3>2, <3>3, HeapLineKept
  <2>9. QED BY <2>4, <2>5, <2>6, <2>7, <2>8
<1>7. QED BY <1>5, <1>6

-----------------------------------------------------------------------------
(***************************************************************************)
(* The pages that RequestPage returned.                                    *)
(***************************************************************************)
\* What page f is of use for.
Used(f) ==
    \/ f = pml4
    \/ \E t \in DOMAIN tables : \E i \in Index : Upper(t, i) /\ tables[t][i].address = f
    \/ \E q \in HeapSet : Frame(q) = f
    \/ walk.level # 0 /\ Call.op = "heap" /\ walk.frame = f

\* Nothing else is of use, and each of them is.
Kept ==
    Standing /\ ~fault =>
        /\ DOMAIN tables \subseteq given
        /\ \A q \in HeapSet : Frame(q) \in {-1, 0} \cup given
        /\ walk.level # 0 /\ Call.op = "heap" => walk.frame \in {0} \cup given
        /\ \A f \in given : Used(f)

\* The machine halts with a page fault only.
LEMMA FaultStep == ASSUME [Next]_vars, ~fault' PROVE ~fault /\ ~PageFault
<1>1. ~PageFault
  BY DEF PageFault
<1>2. UNCHANGED vars => fault' = fault
  BY DEF vars, paging
<1>3. ReadEfiMemoryMap \/ LockFramebuffer \/ LockKernel \/ NewTables \/ Load \/ Begin \/ BeginHeap
        => fault' = fault
  BY DEF ReadEfiMemoryMap, LockFramebuffer, LockKernel, NewTables, Load, Begin, BeginHeap
<1>4. Descend \/ AddTable \/ Finish \/ (\E count \in 1 .. MaxHeap : ExpandHeap(count))
        \/ (\E device \in Devices : MapDevice(device)) => fault' = fault
  BY DEF Descend, AddTable, Finish, ExpandHeap, MapDevice
<1>5. QED BY <1>1, <1>2, <1>3, <1>4 DEF Next

\* What a step that requests no page leaves.
LEMMA NoneGiven ==
  ASSUME TInv, Kept, [Next]_vars, Standing, Standing', ~fault, ~fault',
         ~(BeginHeap \/ AddTable \/ Finish)
  PROVE  Kept'
<1>1. /\ DOMAIN tables \subseteq given
      /\ \A q \in HeapSet : Frame(q) \in {-1, 0} \cup given
      /\ walk.level # 0 /\ Call.op = "heap" => walk.frame \in {0} \cup given
      /\ \A f \in given : Used(f)
  BY DEF Kept
<1>2. UNCHANGED <<given, pml4, tables, level>> /\ (walk.level # 0 => walk'.level # 0)
  <2>1. ~(ReadEfiMemoryMap \/ LockFramebuffer \/ LockKernel \/ NewTables \/ PageFault)
    BY FaultStep DEF ReadEfiMemoryMap, LockFramebuffer, LockKernel, NewTables, Standing
  <2>2. CASE Load \/ Begin \/ (\E count \in 1 .. MaxHeap : ExpandHeap(count))
             \/ (\E device \in Devices : MapDevice(device)) \/ UNCHANGED vars
    BY <2>2 DEF Load, Begin, ExpandHeap, MapDevice, Idle, vars, paging, allocator
  <2>3. CASE Descend
    <3>1. walk.level \in 1 .. 3 /\ walk' = [walk EXCEPT !.level = @ + 1, !.table = Current.address]
      BY <2>3 DEF Descend, Walking
    <3>2. Current.address \in Nat
      BY <3>1, WalkType DEF Entry, TInv
    <3>3. walk'.level = walk.level + 1
      BY <3>1, <3>2, WalkDown DEF TInv, Typing
    <3>4. walk'.level # 0
      BY <3>1, <3>3
    <3>5. QED BY <2>3, <3>4 DEF Descend, allocator
  <2>4. QED BY <2>1, <2>2, <2>3 DEF Next
<1>3. \A q \in HeapSet : Frame(q)' = Frame(q)
  BY Plain, HeapPagesType DEF Frame, Present
<1>4. walk.level # 0 => calls' = calls /\ walk'.frame = walk.frame
  BY WalkOn
<1>5. walk'.level # 0 /\ Call'.op = "heap" => walk.level # 0
  BY WalkBegins
<1>6. walk'.level # 0 /\ Call'.op = "heap" => walk'.frame \in {0} \cup given'
  BY <1>1, <1>2, <1>4, <1>5 DEF Call
<1>7. ASSUME NEW f \in given PROVE Used(f)'
  <2>1. Used(f)
    BY <1>1
  <2>2. CASE f = pml4
    BY <1>2, <2>2 DEF Used
  <2>3. CASE \E t \in DOMAIN tables : \E i \in Index : Upper(t, i) /\ tables[t][i].address = f
    BY <1>2, <2>3 DEF Used, Upper
  <2>4. CASE \E q \in HeapSet : Frame(q) = f
    BY <1>3, <2>4 DEF Used
  <2>5. CASE walk.level # 0 /\ Call.op = "heap" /\ walk.frame = f
    BY <1>2, <1>4, <2>5 DEF Used, Call
  <2>6. QED BY <2>1, <2>2, <2>3, <2>4, <2>5 DEF Used
<1>8. QED BY <1>1, <1>2, <1>3, <1>6, <1>7 DEF Kept

\* A page is requested for the heap.
LEMMA BeginHeapKept ==
  ASSUME TInv, Kept, Standing, Standing', ~fault, BeginHeap
  PROVE  Kept'
<1>1. /\ DOMAIN tables \subseteq given
      /\ \A q \in HeapSet : Frame(q) \in {-1, 0} \cup given
      /\ \A f \in given : Used(f)
  BY DEF Kept
<1>2. PICK g \in Nat \cap ({0} \cup PFA!Candidates) :
        Request(g) /\ walk' = [level |-> 1, table |-> pml4, frame |-> g]
  BY DEF BeginHeap
<1>3. /\ UNCHANGED <<pml4, tables, calls, level>> /\ walk.level = 0 /\ Call.op = "heap" /\ Call' = Call
      /\ given' = given \cup ({g} \ {0}) /\ walk'.level = 1 /\ walk'.frame = g
  BY <1>2 DEF BeginHeap, Request, Call
<1>4. \A q \in HeapSet : Frame(q)' = Frame(q)
  <2>1. \A q : Translate(q)' = Translate(q)
    BY <1>3 DEF Translate, PT, PD, PDP, Below, Lookup, Present
  <2>2. QED BY <2>1 DEF Frame, Present
<1>5. ASSUME NEW f \in given' PROVE Used(f)'
  <2>1. CASE f = g
    BY <1>3, <2>1 DEF Used
  <2>2. CASE f \in given
    <3>1. \/ f = pml4
          \/ \E t \in DOMAIN tables : \E i \in Index : Upper(t, i) /\ tables[t][i].address = f
          \/ \E q \in HeapSet : Frame(q) = f
      BY <1>1, <1>3, <2>2 DEF Used
    <3>2. QED BY <1>3, <1>4, <3>1 DEF Used, Upper
  <2>3. QED BY <1>3, <1>5, <2>1, <2>2
<1>6. QED BY <1>1, <1>3, <1>4, <1>5 DEF Kept

\* A page is requested for a table.
LEMMA AddTableKept ==
  ASSUME TInv, Kept, [Next]_vars, Standing, Standing', ~fault, AddTable
  PROVE  Kept'
<1>1. /\ DOMAIN tables \subseteq given
      /\ \A q \in HeapSet : Frame(q) \in {-1, 0} \cup given
      /\ walk.level # 0 /\ Call.op = "heap" => walk.frame \in {0} \cup given
      /\ \A f \in given : Used(f)
  BY DEF Kept
<1>2. Typing /\ Shape /\ Taken /\ OnPath /\ stage = "running" /\ ~Collapsed /\ ~Collapsed'
  BY DEF TInv, Tree, Standing
<1>3. PICK g \in Nat :
        /\ g # 0 /\ walk'.table = g
        /\ DOMAIN tables' = DOMAIN tables \cup {g} /\ \A t \in DOMAIN tables : level'[t] = level[t]
        /\ \A t \in DOMAIN tables : \A i \in Index :
             tables'[t][i] = IF t = walk.table /\ i = Slot THEN Mapped(Current, g) ELSE tables[t][i]
        /\ walk.level \in 1 .. 3 /\ walk'.level = walk.level + 1 /\ walk'.frame = walk.frame
        /\ UNCHANGED <<pml4, calls>>
  BY <1>2, AddTableMap
<1>4. given' = given \cup {g}
  <2>1. \E f \in Nat : Request(f) /\ walk'.table = f
    BY <1>2, AddTableIs
  <2>2. QED BY <1>3, <2>1 DEF Request
<1>5. /\ walk.table \in DOMAIN tables /\ level[walk.table] < 4 /\ Slot \in Index /\ Current \in Entry
      /\ ~Present(tables[walk.table][Slot])
  <2>1. ~Present(Current) /\ walk.level # 0 /\ walk.level < 4
    BY <1>3 DEF AddTable
  <2>2. QED BY <1>2, <2>1, WalkLevel, WalkType, CurrentIs
<1>6. \A q \in HeapSet : Frame(q)' = Frame(q)
  <2>1. ~Finish
    BY <1>3 DEF Finish
  <2>2. QED BY <2>1, Plain, HeapPagesType DEF Frame, Present
<1>7. walk'.level # 0 /\ Call' = Call
  BY <1>3 DEF Call
<1>8. ASSUME NEW f \in given PROVE Used(f)'
  <2>1. Used(f)
    BY <1>1
  <2>2. CASE f = pml4
    BY <1>3, <2>2 DEF Used
  <2>3. CASE \E t \in DOMAIN tables : \E i \in Index : Upper(t, i) /\ tables[t][i].address = f
    <3>1. PICK t \in DOMAIN tables, i \in Index : Upper(t, i) /\ tables[t][i].address = f
      BY <2>3
    <3>2. ~(t = walk.table /\ i = Slot)
      BY <1>5, <3>1 DEF Upper
    <3>3. t \in DOMAIN tables' /\ tables'[t][i] = tables[t][i] /\ level'[t] = level[t]
      BY <1>3, <3>2
    <3>4. Upper(t, i)' /\ tables'[t][i].address = f
      BY <3>1, <3>3 DEF Upper, Present
    <3>5. QED BY <3>3, <3>4 DEF Used
  <2>4. CASE \E q \in HeapSet : Frame(q) = f
    BY <1>6, <2>4 DEF Used
  <2>5. CASE walk.level # 0 /\ Call.op = "heap" /\ walk.frame = f
    BY <1>3, <1>7, <2>5 DEF Used
  <2>6. QED BY <2>1, <2>2, <2>3, <2>4, <2>5 DEF Used
<1>9. Used(g)'
  <2>1. PICK t \in DOMAIN tables, i \in Index : t = walk.table /\ i = Slot
    BY <1>5
  <2>2. tables'[t][i] = Mapped(Current, g) /\ t \in DOMAIN tables' /\ level'[t] < 4
    BY <1>3, <1>5, <2>1
  <2>3. Present(Mapped(Current, g)) /\ Mapped(Current, g).address = g
    BY <1>5, EntryTypes
  <2>4. Upper(t, i)' /\ tables'[t][i].address = g
    BY <2>2, <2>3 DEF Upper, Present
  <2>5. QED BY <2>2, <2>4 DEF Used
<1>10. walk'.level # 0 /\ Call'.op = "heap" => walk'.frame \in {0} \cup given'
  BY <1>1, <1>3, <1>4, <1>7
<1>11. QED BY <1>1, <1>3, <1>4, <1>6, <1>8, <1>9, <1>10 DEF Kept

\* The end of a call: the page that waited is entered, and the entry it is
\* entered in was not in use.
LEMMA FinishKept ==
  ASSUME TInv, Queue, HeapLine, Giving, Kept, Standing, Standing', ~fault, Finish
  PROVE  Kept'
<1>1. /\ DOMAIN tables \subseteq given
      /\ \A q \in HeapSet : Frame(q) \in {-1, 0} \cup given
      /\ walk.level # 0 /\ Call.op = "heap" => walk.frame \in {0} \cup given
      /\ \A f \in given : Used(f)
  BY DEF Kept
<1>2. Typing /\ Shape /\ OnPath /\ Apart /\ ~Collapsed /\ calls \in Seq(Request4)
  BY DEF TInv, Tree, Standing, Typing, CallsType
<1>3. /\ DOMAIN tables' = DOMAIN tables /\ level' = level /\ pml4' = pml4
      /\ level[walk.table] = 4 /\ walk.table \in DOMAIN tables
      /\ \A t \in DOMAIN tables : \A i \in Index :
           tables'[t][i] = IF t = walk.table /\ i = Slot THEN NewEntry ELSE tables[t][i]
  BY <1>2, FinishMap
<1>4. /\ \A p \in Page : Translate(p)' = IF p = Call.page THEN NewEntry ELSE Translate(p)
      /\ walk.level = 4 /\ walk'.level = 0 /\ given' = given /\ walk.frame \in Nat
  BY FinishTranslates DEF allocator
<1>5. /\ calls # <<>> /\ Call \in Good(efiMap) /\ Call.op \in {"map", "flag", "heap"}
      /\ Call = calls[1] /\ 1 \in 1 .. Len(calls)
  BY <1>2, <1>4, WalkType, QueueHead, LenProperties DEF Call, Good, Request4
<1>6. Call.op = "heap" => Call.page \in HeapSet /\ Frame(Call.page) = -1
  <2>1. ASSUME Call.op = "heap" PROVE Call.page \in HeapSet /\ Frame(Call.page) = -1
    <3>1. Number(1) \in HeapNumbers /\ Call.page = PageOf(Number(1)) /\ Due(Number(1))
      BY <1>5, <2>1 DEF HeapLine, Due
    <3>2. ~Present(Translate(Call.page))
      BY <3>1 DEF HeapLine
    <3>3. QED BY <3>1, <3>2 DEF HeapSet, Frame
  <2>2. QED BY <2>1
<1>7. Call.op # "heap" => Call.page \notin HeapSet
  BY <1>5 DEF Good
<1>8. \A q \in HeapSet : q # Call.page => Frame(q)' = Frame(q)
  BY <1>4, HeapPagesType DEF Frame, Present
<1>9. ASSUME NEW q \in HeapSet, q = Call.page, Call.op = "heap" PROVE Frame(q)' = walk.frame
  <2>1. Present(NewEntry) /\ NewEntry.address = walk.frame
    BY <1>9, NewEntryIs
  <2>2. Translate(q)' = NewEntry
    BY <1>4, <1>9, HeapPagesType
  <2>3. QED BY <2>1, <2>2 DEF Frame, Present
<1>10. ASSUME NEW f \in given PROVE Used(f)'
  <2>1. Used(f)
    BY <1>1
  <2>2. CASE f = pml4
    BY <1>3, <2>2 DEF Used
  <2>3. CASE \E t \in DOMAIN tables : \E i \in Index : Upper(t, i) /\ tables[t][i].address = f
    <3>1. PICK t \in DOMAIN tables, i \in Index : Upper(t, i) /\ tables[t][i].address = f
      BY <2>3
    <3>2. t # walk.table
      BY <1>3, <3>1 DEF Upper
    <3>3. tables'[t][i] = tables[t][i] /\ t \in DOMAIN tables'
      BY <1>3, <3>2
    <3>4. Upper(t, i)' /\ tables'[t][i].address = f
      BY <1>3, <3>1, <3>3 DEF Upper, Present
    <3>5. QED BY <3>3, <3>4 DEF Used
  <2>4. CASE \E q \in HeapSet : Frame(q) = f
    <3>1. PICK q \in HeapSet : Frame(q) = f
      BY <2>4
    <3>2. f # -1
      BY DEF Giving
    <3>3. q # Call.page
      BY <1>6, <1>7, <3>1, <3>2
    <3>4. QED BY <1>8, <3>1, <3>3 DEF Used
  <2>5. CASE walk.level # 0 /\ Call.op = "heap" /\ walk.frame = f
    <3>1. PICK q \in HeapSet : q = Call.page
      BY <1>6, <2>5
    <3>2. Frame(q)' = f
      BY <1>9, <2>5, <3>1
    <3>3. QED BY <3>2 DEF Used
  <2>6. QED BY <2>1, <2>2, <2>3, <2>4, <2>5 DEF Used
<1>11. QED BY <1>1, <1>3, <1>4, <1>6, <1>7, <1>8, <1>9, <1>10 DEF Kept

LEMMA KeptStep == ASSUME TInv, Giving, Queue, HeapLine, Kept, [Next]_vars PROVE Kept'
<1>1. SUFFICES ASSUME Standing', ~fault' PROVE Kept'
  BY DEF Kept
<1>2. ~fault
  BY <1>1, FaultStep
<1>3. CASE NewTables
  <2>1. PICK g \in Nat \cap ({0} \cup PFA!Candidates) :
          Request(g) /\ pml4' = g /\ tables' = Cell(g, Cleared)
    BY <1>3 DEF NewTables
  <2>2. DOMAIN tables = {} /\ walk' = walk /\ walk.level = 0 /\ given = {}
    BY <1>3 DEF NewTables, TInv, Typing, Boot, Giving
  <2>3. DOMAIN tables' = {g}
    BY <2>1, <2>2, CellIs
  <2>4. g # 0
    BY <1>1, <2>3 DEF Standing, Collapsed
  <2>5. given' = {g}
    BY <2>1, <2>2, <2>4 DEF Request
  <2>6. \A q \in HeapSet : Frame(q)' = -1
    BY <1>3, HeapPagesType, NewTablesTranslate DEF Frame, Present
  <2>7. Used(g)'
    BY <2>1 DEF Used
  <2>8. QED BY <2>2, <2>3, <2>5, <2>6, <2>7 DEF Kept
<1>4. CASE ~NewTables
  <2>1. Standing
    BY <1>1, <1>4, RunningBefore
  <2>2. QED BY <1>1, <1>2, <2>1, NoneGiven, BeginHeapKept, AddTableKept, FinishKept
<1>5. QED BY <1>3, <1>4

-----------------------------------------------------------------------------
(***************************************************************************)
(* Who uses which page, and which tables can be reached.                   *)
(***************************************************************************)
PagesInv == TInv /\ Giving /\ Queue /\ Frames /\ HeapLine /\ Kept /\ Low /\ Identity

LEMMA PagesAlways == Spec => []PagesInv
<1>1. Init => PagesInv
  <2> SUFFICES ASSUME Init PROVE PagesInv
    OBVIOUS
  <2>1. /\ TInv /\ stage = "memory map" /\ calls = <<>> /\ walk.level = 0 /\ heapEnd = HeapStart
    BY InitTyping DEF Init, TInv, Tree, Standing
  <2>2. HeapStart \in Nat /\ HeapPages \in Nat /\ MaxHeap \in Nat
    BY ParameterAssumption
  <2>3. Queue
    <3>1. heapEnd \in HeapStart .. HeapStart + HeapPages + MaxHeap
      <4>1. \A a, b, c \in Nat : a \in a .. a + b + c
        OBVIOUS
      <4>2. HeapStart \in HeapStart .. HeapStart + HeapPages + MaxHeap
        BY <2>2, <4>1
      <4>3. heapEnd = HeapStart
        BY <2>1
      <4>4. QED BY <4>2, <4>3
    <3>2. calls \in Seq(Good(efiMap))
      BY <2>1, EmptySeq
    <3>3. QED BY <2>1, <3>1, <3>2 DEF Queue
  <2>4. Giving
    BY DEF Init, Giving
  <2>5. QED BY <2>1, <2>3, <2>4 DEF PagesInv, Frames, HeapLine, Kept, Low, Identity, Standing
<1>2. PagesInv /\ [Next]_vars => PagesInv'
  <2>1. PagesInv /\ [Next]_vars => TInv' /\ Giving' /\ Queue' /\ Frames'
    BY TreeStep, GivingStep, QueueStep, FramesStep DEF PagesInv, TInv
  <2>2. PagesInv /\ [Next]_vars => HeapLine' /\ Kept'
    BY HeapLineStep, KeptStep DEF PagesInv
  <2>3. PagesInv /\ [Next]_vars => Low' /\ Identity'
    BY LowStep, IdentityStep DEF PagesInv
  <2>4. QED BY <2>1, <2>2, <2>3 DEF PagesInv
<1>3. QED BY <1>1, <1>2, PTL DEF Spec

\* The kinds of users that a page has, told apart by the tables: what one of
\* each kind says of the page.
LEMMA UsersAre ==
  ASSUME PagesInv, Standing, NEW f \in Nat \ {0}, NEW x \in Users(f)
  PROVE  \/ x = <<"pml4", 0, 0>> /\ f = pml4
         \/ \E t \in DOMAIN tables : \E i \in Index :
              x = <<"entry", t, i>> /\ Upper(t, i) /\ tables[t][i].address = f
         \/ \E n \in HeapNumbers : x = <<"heap", n, 0>> /\ Frame(PageOf(n)) = f
         \/ x = <<"walk", 0, 0>> /\ walk.level # 0 /\ Call.op = "heap" /\ walk.frame = f
<1>1. Typing /\ Shape /\ -1 # f
  BY DEF PagesInv, TInv, Tree
<1>2. ASSUME NEW t \in DOMAIN tables, NEW i \in Index, level[t] < 4, Below(t, i) = f
      PROVE  Upper(t, i) /\ tables[t][i].address = f
  BY <1>1, <1>2, BelowUpper
<1>3. ASSUME NEW n \in HeapStart .. heapEnd - 1, Below(PT(PageOf(n)), PageOf(n)[4]) = f
      PROVE  n \in HeapNumbers /\ Frame(PageOf(n)) = f
  <2>1. heapEnd \in HeapStart .. HeapStart + HeapPages + MaxHeap
        /\ HeapStart \in Nat /\ HeapPages \in Nat /\ MaxHeap \in Nat
    BY ParameterAssumption DEF PagesInv, Queue
  <2>2. n \in HeapNumbers
    BY <2>1 DEF HeapNumbers
  <2>3. QED BY <1>1, <1>3, <2>2 DEF Frame, Translate, Below
<1>4. \/ x \in {<<"pml4", 0, 0>> : y \in {pml4} \cap {f}}
      \/ x \in {<<"entry", e[1], e[2]>> : e \in
                 {e \in (DOMAIN tables) \X Index : level[e[1]] < 4 /\ Below(e[1], e[2]) = f}}
      \/ x \in {<<"heap", n, 0>> : n \in
                 {n \in HeapStart .. heapEnd - 1 : Below(PT(PageOf(n)), PageOf(n)[4]) = f}}
      \/ x \in {<<"walk", 0, 0>> : y \in
                 {y \in {0} : walk.level # 0 /\ Call.op = "heap" /\ walk.frame = f}}
  BY DEF Users
<1>5. CASE x \in {<<"entry", e[1], e[2]>> : e \in
                   {e \in (DOMAIN tables) \X Index : level[e[1]] < 4 /\ Below(e[1], e[2]) = f}}
  <2>1. PICK e \in (DOMAIN tables) \X Index :
          level[e[1]] < 4 /\ Below(e[1], e[2]) = f /\ x = <<"entry", e[1], e[2]>>
    BY <1>5
  <2>2. e[1] \in DOMAIN tables /\ e[2] \in Index
    OBVIOUS
  <2>3. QED BY <1>2, <2>1, <2>2
<1>6. CASE x \in {<<"heap", n, 0>> : n \in
                   {n \in HeapStart .. heapEnd - 1 : Below(PT(PageOf(n)), PageOf(n)[4]) = f}}
  BY <1>3, <1>6
<1>7. QED BY <1>4, <1>5, <1>6

\* A page that RequestPage did not return has no user.
LEMMA NobodyUses ==
  ASSUME PagesInv, Standing, ~fault, NEW f \in Nat \ {0}, f \notin given
  PROVE  Users(f) = {}
<1>1. /\ Shape /\ f # -1 /\ DOMAIN tables \subseteq given
      /\ \A q \in HeapSet : Frame(q) \in {-1, 0} \cup given
      /\ walk.level # 0 /\ Call.op = "heap" => walk.frame \in {0} \cup given
  BY DEF PagesInv, TInv, Tree, Kept
<1>2. ASSUME NEW x \in Users(f) PROVE FALSE
  <2>1. f # pml4
    BY <1>1 DEF Shape
  <2>2. \A t \in DOMAIN tables : \A i \in Index : Upper(t, i) => tables[t][i].address # f
    BY <1>1 DEF Shape
  <2>3. \A n \in HeapNumbers : Frame(PageOf(n)) # f
    BY <1>1 DEF HeapSet
  <2>4. ~(walk.level # 0 /\ Call.op = "heap" /\ walk.frame = f)
    BY <1>1
  <2>5. QED BY <2>1, <2>2, <2>3, <2>4, UsersAre
<1>3. QED BY <1>2

\* A page that it returned has one.
LEMMA SomebodyUses ==
  ASSUME PagesInv, Standing, ~fault, NEW f \in given
  PROVE  Users(f) # {}
<1>1. Used(f) /\ Typing /\ Shape /\ f \in Nat \ {0} /\ f # -1
  BY DEF PagesInv, TInv, Tree, Kept, Giving
<1>2. CASE f = pml4
  <2>1. <<"pml4", 0, 0>> \in Users(f)
    BY <1>2 DEF Users
  <2>2. QED BY <2>1
<1>3. CASE \E t \in DOMAIN tables : \E i \in Index : Upper(t, i) /\ tables[t][i].address = f
  <2>1. PICK t \in DOMAIN tables, i \in Index : Upper(t, i) /\ tables[t][i].address = f
    BY <1>3
  <2> DEFINE e == <<t, i>>
  <2>2. Below(t, i) = f /\ level[t] < 4
    BY <2>1 DEF Upper, Below, Lookup
  <2>3. e \in (DOMAIN tables) \X Index /\ level[e[1]] < 4 /\ Below(e[1], e[2]) = f
    BY <2>2
  <2>4. <<"entry", e[1], e[2]>> \in Users(f)
    BY <2>3 DEF Users
  <2>5. QED BY <2>4
<1>4. CASE \E q \in HeapSet : Frame(q) = f
  <2>1. PICK n \in HeapNumbers : Frame(PageOf(n)) = f
    BY <1>4 DEF HeapSet
  <2>2. Present(Translate(PageOf(n))) /\ Below(PT(PageOf(n)), PageOf(n)[4]) = f
    BY <1>1, <2>1 DEF Frame, Translate, Below
  <2>3. ~(n >= heapEnd)
    BY <2>2 DEF PagesInv, HeapLine
  <2>4. n \in HeapStart .. heapEnd - 1
    <3>1. HeapStart \in Nat /\ HeapPages \in Nat /\ MaxHeap \in Nat /\ heapEnd \in Nat
      BY <1>1, ParameterAssumption DEF Typing, Scalars
    <3>2. QED BY <2>3, <3>1 DEF HeapNumbers
  <2>5. <<"heap", n, 0>> \in Users(f)
    BY <2>2, <2>4 DEF Users
  <2>6. QED BY <2>5
<1>5. CASE walk.level # 0 /\ Call.op = "heap" /\ walk.frame = f
  <2>1. <<"walk", 0, 0>> \in Users(f)
    BY <1>5 DEF Users
  <2>2. QED BY <2>1
<1>6. QED BY <1>1, <1>2, <1>3, <1>4, <1>5 DEF Used

\* A page has one user at most.
LEMMA OneUser ==
  ASSUME PagesInv, Standing, NEW f \in Nat \ {0}, NEW x \in Users(f), NEW y \in Users(f)
  PROVE  x = y
<1>1. /\ Typing /\ Shape /\ Taken /\ Apart /\ f # -1
      /\ \A q \in HeapSet : Frame(q) \in {-1, 0} \cup (pageBitmap \ DOMAIN tables)
      /\ \A q, r \in HeapSet : Frame(q) = Frame(r) /\ Frame(q) \notin {-1, 0} => q = r
      /\ walk.level # 0 /\ Call.op = "heap" /\ walk.frame # 0 =>
           \A q \in HeapSet : Frame(q) # walk.frame
  BY DEF PagesInv, TInv, Tree, Frames
<1> DEFINE Entered(t, i) == t \in DOMAIN tables /\ i \in Index /\ Upper(t, i) /\ tables[t][i].address = f
           InHeap(n) == n \in HeapNumbers /\ Frame(PageOf(n)) = f
           Waiting == walk.level # 0 /\ Call.op = "heap" /\ walk.frame = f
           User(u) == \/ u = <<"pml4", 0, 0>> /\ f = pml4
                      \/ \E t, i : u = <<"entry", t, i>> /\ Entered(t, i)
                      \/ \E n : u = <<"heap", n, 0>> /\ InHeap(n)
                      \/ u = <<"walk", 0, 0>> /\ Waiting
<1>2. User(x) /\ User(y)
  BY UsersAre
<1>3. \A t, i : Entered(t, i) => f \in DOMAIN tables /\ f # pml4
  <2>1. \A t \in DOMAIN tables : level[t] \in 1 .. 4
    BY <1>1 DEF Typing, LevelsType
  <2>2. QED BY <1>1, <2>1 DEF Shape
<1>4. \A t, i, u, j : Entered(t, i) /\ Entered(u, j) => t = u /\ i = j
  BY <1>1 DEF Shape
<1>5. \A n : InHeap(n) => f \notin DOMAIN tables /\ ~Waiting
  BY <1>1 DEF HeapSet
<1>6. \A m, n : InHeap(m) /\ InHeap(n) => m = n
  <2>1. \A m, n \in HeapNumbers : PageOf(m) = PageOf(n) => m = n
    BY <1>1, Layout DEF Typing, Searches
  <2>2. \A m, n : InHeap(m) /\ InHeap(n) => PageOf(m) = PageOf(n)
    BY <1>1 DEF HeapSet
  <2>3. QED BY <2>1, <2>2
<1>7. Waiting => f \notin DOMAIN tables
  BY <1>1 DEF Apart
<1>8. pml4 \in DOMAIN tables
  BY <1>1 DEF Shape
<1> HIDE DEF Entered, InHeap, Waiting
<1>9. QED BY <1>2, <1>3, <1>4, <1>5, <1>6, <1>7, <1>8

\* Every page that RequestPage returned is one table or one page of the heap
\* and is entered in exactly one place, and no other page is entered: calls of
\* MapMemory lose no page, overwrite none and hand none to two users.
THEOREM OwnedOnceHolds == Spec => []OwnedOnce
<1>1. ASSUME PagesInv PROVE OwnedOnce
  <2>1. SUFFICES ASSUME Standing, ~fault, NEW f \in PFA!Bits \ {0}
                 PROVE  Cardinality(Users(f)) = IF f \in given THEN 1 ELSE 0
    BY DEF OwnedOnce, Standing
  <2>2. f \in Nat \ {0}
    BY DEF PFA!Bits, PFA!SizeBits
  <2>3. CASE f \notin given
    <3>1. Users(f) = {}
      BY <1>1, <2>1, <2>2, <2>3, NobodyUses
    <3>2. QED BY <2>3, <3>1, FS_EmptySet
  <2>4. CASE f \in given
    <3>1. PICK x : x \in Users(f)
      BY <1>1, <2>1, <2>4, SomebodyUses
    <3>2. Users(f) = {x}
      BY <1>1, <2>1, <2>2, <3>1, OneUser
    <3>3. Cardinality({x}) = 1
      BY FS_Singleton
    <3>4. QED BY <2>4, <3>2, <3>3
  <2>5. QED BY <2>3, <2>4
<1>2. QED BY <1>1, PagesAlways, PTL

\* Once cr3 is loaded every table in the memory that InitializePaging counted
\* is mapped to itself, so MapMemory can write it.
THEOREM ReachableHolds == Spec => []Reachable
<1>1. ASSUME PagesInv PROVE Reachable
  <2>1. SUFFICES ASSUME cr3, ~Collapsed, NEW t \in DOMAIN tables, t < PFA!CalculateMemorySize(efiMap)
                 PROVE  Accessible(t)
    BY DEF Reachable
  <2>2. Standing /\ efiMap \in EfiMaps /\ t \in Nat
    BY <1>1, <2>1 DEF PagesInv, TInv, Typing, Boot, Searches, TablesType, Standing
  <2>3. t >= LowPages /\ LowPages >= FirstMapped /\ LowPages \in Nat /\ FirstMapped \in Nat
    BY <1>1, <2>2, Layout, ParameterAssumption DEF PagesInv, Low
  <2>4. PFA!CalculateMemorySize(efiMap) \in Nat
    BY <2>2, MapAssumption
  <2>5. t \in MemoryPages(efiMap)
    BY <2>1, <2>2, <2>3, <2>4 DEF MemoryPages
  <2>6. Self(t)
    BY <1>1, <2>1, <2>2, <2>5 DEF PagesInv, Identity
  <2>7. QED BY <2>6 DEF Self, Accessible
<1>2. QED BY <1>1, PagesAlways, PTL
=============================================================================
