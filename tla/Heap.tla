--------------------------------- MODULE Heap ---------------------------------
(***************************************************************************)
(* The kernel heap, Memory/Memory.cpp: a doubly linked list of segments,   *)
(* each a 32-byte header followed by its payload, that tile the heap from  *)
(* heapBase to heapEnd.  malloc takes the first free segment that is large *)
(* enough, splits it, and grows the heap by whole pages when none is;      *)
(* free merges the segment with its free neighbours.                       *)
(*                                                                         *)
(* Addresses are offsets from heapBase in units of 16 bytes, the           *)
(* granularity of malloc, so a header is 2 units.  A header that was       *)
(* merged into its neighbour is plain payload and no segment any more.     *)
(*                                                                         *)
(* Every access to the list is made under memoryLock, so what is done      *)
(* between Aquire and Free is one step.  malloc releases the lock between  *)
(* growing the heap and trying again: those are two steps, and another     *)
(* thread may take the new memory in between.                              *)
(***************************************************************************)
EXTENDS Integers, FiniteSets

CONSTANTS
    Threads,
    Sizes,         \* sizes in bytes that malloc is called with
    PageUnits,     \* PAGE_SIZE in units of 16 bytes, 256 in the code
    InitialPages,  \* pages of InitializeHeap
    MaxRequests,   \* bound: calls of malloc in a behaviour
    MaxEarly,      \* bound: early allocations in a behaviour, in units
    MaxPages       \* bound: pages of the heap

HeaderUnits == 2   \* sizeof(SegmentHeader)
nullptr == -1

ASSUME HeapAssumption ==
    /\ Sizes \subseteq Nat
    /\ PageUnits \in Nat /\ PageUnits > HeaderUnits
    /\ InitialPages \in Nat \ {0}
    /\ MaxRequests \in Nat /\ MaxEarly \in Nat /\ MaxPages \in Nat

VARIABLES
    heapInitialized,
    earlyOffset,   \* baseOffset of earlyMalloc, in units
    heap,          \* the segments, LastSegment and heapEnd, see below
    pending,       \* for each thread the size malloc is looking for, 0 when none
    live,          \* history: the blocks in use, a function from address to size
    requests,      \* history: calls of malloc made
    expansions     \* history: see Expand

vars == <<heapInitialized, earlyOffset, heap, pending, live, requests, expansions>>

(***************************************************************************)
(* A heap is a record: for each segment its Length, Next and Previous, the *)
(* set of the segments whose Free is true, LastSegment and heapEnd.  The   *)
(* operations of SegmentHeader are functions from heap to heap.            *)
(***************************************************************************)
Segments(h) == DOMAIN h.len
End(h, s) == s + HeaderUnits + h.len[s]

\* The heap without n, whose memory becomes part of s.
Swallow(h, s, n) ==
    [len  |-> [x \in Segments(h) \ {n} |->
                  IF x = s THEN h.len[s] + h.len[n] + HeaderUnits ELSE h.len[x]],
     next |-> [x \in Segments(h) \ {n} |-> IF x = s THEN h.next[n] ELSE h.next[x]],
     prev |-> [x \in Segments(h) \ {n} |-> IF x = h.next[n] THEN s ELSE h.prev[x]],
     free |-> h.free \ {n},
     last |-> IF n = h.last THEN s ELSE h.last,
     end  |-> h.end]

\* Mutants of CombineForward: without the test of Next->Free; with the
\* segment after the swallowed one still pointing back to it.
CombineForwardAny(h, s) ==
    IF h.next[s] = nullptr THEN h ELSE Swallow(h, s, h.next[s])

CombineForwardOneWay(h, s) ==
    IF h.next[s] \in h.free
    THEN [Swallow(h, s, h.next[s]) EXCEPT
             !.prev = [x \in Segments(h) \ {h.next[s]} |-> h.prev[x]]]
    ELSE h

\* s swallows the segment after it when there is one and it is free.
CombineForward(h, s) ==
    IF h.next[s] \in h.free THEN Swallow(h, s, h.next[s]) ELSE h

NoCombine(h, s) == h      \* mutant of CombineBackward

CombineBackward(h, s) ==
    IF h.prev[s] \in h.free THEN CombineForward(h, h.prev[s]) ELSE h

\* The heap with a segment at new, between s and the one after it, that takes
\* over the end of s from there on.
Insert(h, s, new, rest) ==
    [len  |-> [x \in Segments(h) \cup {new} |->
                  IF x = new THEN rest
                  ELSE IF x = s THEN new - s - HeaderUnits ELSE h.len[x]],
     next |-> [x \in Segments(h) \cup {new} |->
                  IF x = new THEN h.next[s] ELSE IF x = s THEN new ELSE h.next[x]],
     prev |-> [x \in Segments(h) \cup {new} |->
                  IF x = new THEN s ELSE IF x = h.next[s] THEN new ELSE h.prev[x]],
     free |-> IF s \in h.free THEN h.free \cup {new} ELSE h.free,
     last |-> IF s = h.last THEN new ELSE h.last,
     end  |-> h.end]

SplitAlways(h, s, size) ==      \* mutant of Split: without the early return
    Insert(h, s, s + HeaderUnits + size, h.len[s] - size - HeaderUnits)

\* s keeps size units; what is left becomes a segment of its own unless it
\* is too small for a header and one unit.
Split(h, s, size) ==
    LET rest == h.len[s] - size - HeaderUnits
    IN  IF rest < 1 THEN h ELSE Insert(h, s, s + HeaderUnits + size, rest)

(***************************************************************************)
(* malloc's search and what it does with the segment it finds.  The list   *)
(* runs in address order (Linked below), so the first fit is the lowest.   *)
(***************************************************************************)
Fits(h, size) == {s \in h.free : h.len[s] >= size}

LeaveFree(h, s, size) == Split(h, s, size)    \* mutant of Take: Free stays true

Take(h, s, size) == LET k == Split(h, s, size) IN [k EXCEPT !.free = k.free \ {s}]

\* ExpandHeap: whole pages at heapEnd, linked as the last segment and merged
\* with the one before when that is free.
RoundToPages(size) ==
    IF size % PageUnits = 0 THEN size ELSE size - (size % PageUnits) + PageUnits

Append(h, length) ==
    [len  |-> [x \in Segments(h) \cup {h.end} |->
                  IF x = h.end THEN length - HeaderUnits ELSE h.len[x]],
     next |-> [x \in Segments(h) \cup {h.end} |->
                  IF x = h.end THEN nullptr
                  ELSE IF x = h.last THEN h.end ELSE h.next[x]],
     prev |-> [x \in Segments(h) \cup {h.end} |->
                  IF x = h.end THEN h.last ELSE h.prev[x]],
     free |-> h.free \cup {h.end},
     last |-> h.end,
     end  |-> h.end + length]

ExpandAlone(h, size) ==         \* mutant of ExpandHeap: without the merge
    Append(h, RoundToPages(size))

ExpandHeap(h, size) == CombineBackward(Append(h, RoundToPages(size)), h.end)

MarkFree(h, s) == [h EXCEPT !.free = h.free \cup {s}]

Release(h, s) == CombineBackward(CombineForward(MarkFree(h, s), s), s)

-----------------------------------------------------------------------------
NoHeap ==
    [len |-> [s \in {} |-> 0], next |-> [s \in {} |-> 0], prev |-> [s \in {} |-> 0],
     free |-> {}, last |-> nullptr, end |-> 0]

Init ==
    /\ heapInitialized = FALSE
    /\ earlyOffset = 0
    /\ heap = NoHeap
    /\ pending = [t \in Threads |-> 0]
    /\ live = [b \in {} |-> 0]
    /\ requests = 0
    /\ expansions = [t \in Threads |-> 0]

\* malloc rounds a size in bytes up to whole units.
RoundUp(bytes) == (bytes + 15) \div 16

(***************************************************************************)
(* Before InitializeHeap memory comes from a static array and is never     *)
(* given back: free returns at once, before and after InitializeHeap.      *)
(***************************************************************************)
EarlyMalloc(bytes) ==
    /\ ~heapInitialized
    /\ RoundUp(bytes) > 0
    /\ earlyOffset + RoundUp(bytes) <= MaxEarly
    /\ earlyOffset' = earlyOffset + RoundUp(bytes)
    /\ UNCHANGED <<heapInitialized, heap, pending, live, requests, expansions>>

OneSegment(length) ==
    [len |-> [s \in {0} |-> length - HeaderUnits], next |-> [s \in {0} |-> nullptr],
     prev |-> [s \in {0} |-> nullptr], free |-> {0}, last |-> 0, end |-> length]

\* One free segment, of which the first allocation is taken and never freed.
InitializeHeap ==
    /\ ~heapInitialized
    /\ heapInitialized' = TRUE
    /\ heap' = Take(OneSegment(InitialPages * PageUnits), 0, RoundUp(16))
    /\ UNCHANGED <<earlyOffset, pending, live, requests, expansions>>

\* A thread enters malloc or calloc.
Malloc(t, bytes) ==
    /\ heapInitialized
    /\ pending[t] = 0
    /\ RoundUp(bytes) > 0
    /\ requests < MaxRequests
    /\ requests' = requests + 1
    /\ pending' = [pending EXCEPT ![t] = RoundUp(bytes)]
    /\ UNCHANGED <<heapInitialized, earlyOffset, heap, live, expansions>>

\* Under the lock: a segment fits.
Allocate(t) ==
    LET size == pending[t]
        fits == Fits(heap, size)
    IN  /\ size > 0
        /\ \E s \in fits :
             /\ \A x \in fits : s <= x
             /\ heap' = Take(heap, s, size)
             /\ live' = [b \in DOMAIN live \cup {s + HeaderUnits} |->
                            IF b = s + HeaderUnits THEN size ELSE live[b]]
        /\ pending' = [pending EXCEPT ![t] = 0]
        /\ expansions' = [u \in Threads |-> 0]
        /\ UNCHANGED <<heapInitialized, earlyOffset, requests>>

(***************************************************************************)
(* Under the lock: nothing fits, the heap grows and malloc starts over.    *)
(* expansions[t] counts how often t had to do this since somebody last     *)
(* took memory.                                                            *)
(***************************************************************************)
Expand(t) ==
    LET size == pending[t]
    IN  /\ size > 0
        /\ Fits(heap, size) = {}
        /\ heap.end + RoundToPages(size) <= MaxPages * PageUnits
        /\ heap' = ExpandHeap(heap, size)
        /\ expansions' = [expansions EXCEPT ![t] = @ + 1]
        /\ UNCHANGED <<heapInitialized, earlyOffset, pending, live, requests>>

\* free of a block in use.
Free(address) ==
    /\ heap' = Release(heap, address - HeaderUnits)
    /\ live' = [b \in DOMAIN live \ {address} |-> live[b]]
    /\ UNCHANGED <<heapInitialized, earlyOffset, pending, requests, expansions>>

Next ==
    \/ InitializeHeap
    \/ \E bytes \in Sizes : EarlyMalloc(bytes)
    \/ \E t \in Threads, bytes \in Sizes : Malloc(t, bytes)
    \/ \E t \in Threads : Allocate(t)
    \/ \E t \in Threads : Expand(t)
    \/ \E address \in DOMAIN live : Free(address)

\* A thread inside malloc keeps running: the scheduler is round robin, and
\* the lock is free between any two steps of this module.
Fairness == \A t \in Threads : WF_vars(Allocate(t) \/ Expand(t))

Spec == Init /\ [][Next]_vars /\ Fairness

-----------------------------------------------------------------------------
HeapOK(h) ==
    /\ Segments(h) \subseteq Nat
    /\ h = [len |-> h.len, next |-> h.next, prev |-> h.prev,
            free |-> h.free, last |-> h.last, end |-> h.end]
    /\ h.len \in [Segments(h) -> Nat]
    /\ h.next \in [Segments(h) -> Int]
    /\ h.prev \in [Segments(h) -> Int]
    /\ h.free \subseteq Segments(h)
    /\ h.last \in Int /\ h.end \in Nat

TypeOK ==
    /\ heapInitialized \in BOOLEAN
    /\ earlyOffset \in Nat
    /\ HeapOK(heap)
    /\ pending \in [Threads -> Nat]
    /\ DOMAIN live \subseteq Nat
    /\ live \in [DOMAIN live -> Nat]
    /\ requests \in Nat
    /\ expansions \in [Threads -> Nat]

\* Next and Previous are inverse to each other and agree with the addresses,
\* LastSegment is the last segment, and the segments tile the heap without
\* gap or overlap: no sequence of splits, merges and expansions loses or
\* duplicates a byte of the heap.
Tiled(h) ==
    /\ 0 \in Segments(h) /\ h.last \in Segments(h)
    /\ \A s \in Segments(h) :
         /\ h.len[s] >= 1
         /\ End(h, s) <= h.end
         /\ IF s = h.last
            THEN h.next[s] = nullptr /\ End(h, s) = h.end
            ELSE h.next[s] = End(h, s) /\ End(h, s) \in Segments(h)
         /\ IF s = 0
            THEN h.prev[s] = nullptr
            ELSE h.prev[s] \in Segments(h) /\ End(h, h.prev[s]) = s
    /\ \A s, x \in Segments(h) : s < x => End(h, s) <= x

Linked == heapInitialized => Tiled(heap)

\* Free memory never stays cut in pieces: no two free segments are neighbours.
Apart(h, s) == s \in h.free => h.next[s] \notin h.free

Joined(h) == \A s \in Segments(h) : Apart(h, s)

Coalesced == heapInitialized => Joined(heap)

\* Exactly the blocks in use, and the first allocation that InitializeHeap
\* leaks on purpose, are marked used, each in a segment that holds its size:
\* no block is swallowed by a merge and no memory is lost to everybody.
BlocksIntact ==
    /\ heapInitialized =>
         \A s \in Segments(heap) :
             s \notin heap.free <=> (s = 0 \/ s + HeaderUnits \in DOMAIN live)
    /\ \A b \in DOMAIN live :
         /\ b - HeaderUnits \in Segments(heap) \ {0}
         /\ live[b] <= heap.len[b - HeaderUnits]

\* ExpandHeap(size) may leave the new segment smaller than size, by the
\* header (Memory.cpp:149), but a malloc that nobody takes memory from never
\* expands the heap more than twice.
AtMostTwoExpansions == \A t \in Threads : expansions[t] <= 2

\* Every malloc returns.
MallocReturns == \A t \in Threads : pending[t] > 0 ~> pending[t] = 0

\* The blocks malloc hands out never overlap, move or shrink.
Promise == INSTANCE HeapSpec
Implements == Promise!Spec
=============================================================================
