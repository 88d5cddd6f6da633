------------------------------ MODULE HeapProofs ------------------------------
(***************************************************************************)
(* The heap's list stays well formed, blocks are never lost or overlapped, *)
(* malloc grows the heap at most twice, and the heap implements HeapSpec:  *)
(* for every set of threads, sizes and page size.                          *)
(*                                                                         *)
(* The first part proves what each operation of SegmentHeader does to a    *)
(* well-formed heap h; the second applies it to the steps of Heap.         *)
(***************************************************************************)
EXTENDS Heap, TLAPS

Good(h) == HeapOK(h) /\ Tiled(h)

\* The numbers of a segment are what they should be.
LEMMA SegmentFacts ==
  ASSUME NEW h, Good(h), NEW s \in Segments(h)
  PROVE  /\ s \in Nat /\ h.len[s] \in Nat /\ h.len[s] >= 1
         /\ End(h, s) \in Nat /\ End(h, s) > s + HeaderUnits
         /\ h.end \in Nat /\ End(h, s) <= h.end
  BY DEF Good, HeapOK, Tiled, End, HeaderUnits

\* Two segments never end at the same address.
LEMMA EndInjective ==
  ASSUME NEW h, Good(h), NEW x \in Segments(h), NEW y \in Segments(h),
         End(h, x) = End(h, y)
  PROVE  x = y
<1>1. (x < y => End(h, x) <= y) /\ (y < x => End(h, y) <= x)
  BY DEF Good, Tiled
<1>2. QED BY <1>1, SegmentFacts DEF HeaderUnits

\* The segment after s, when s is not the last one, starts where s ends and
\* points back to s; the last one has none.
LEMMA NextFacts ==
  ASSUME NEW h, Good(h), NEW s \in Segments(h)
  PROVE  /\ s = h.last => h.next[s] = nullptr /\ End(h, s) = h.end
         /\ s # h.last => /\ h.next[s] \in Segments(h) /\ h.next[s] = End(h, s)
                          /\ h.next[s] > s /\ h.next[s] # 0
                          /\ h.prev[h.next[s]] = s
         /\ \A x \in Segments(h) : End(h, s) = x => s # h.last
<1>1. \A x \in Segments(h) : End(h, s) = x => s # h.last
  BY SegmentFacts DEF Good, Tiled, HeaderUnits
<1>2. CASE s # h.last
  <2> DEFINE n == h.next[s]
  <2>1. n \in Segments(h) /\ n = End(h, s)
    BY <1>2 DEF Good, Tiled
  <2>2. n > s /\ n # 0
    BY <2>1, SegmentFacts DEF HeaderUnits
  <2>3. h.prev[n] \in Segments(h) /\ End(h, h.prev[n]) = n
    BY <2>1, <2>2 DEF Good, Tiled
  <2>4. h.prev[n] = s
    BY <2>1, <2>3, EndInjective
  <2>5. QED BY <1>1, <1>2, <2>1, <2>2, <2>4
<1>3. CASE s = h.last
  BY <1>1, <1>3 DEF Good, Tiled
<1>4. QED BY <1>2, <1>3

\* The segment before s ends where s starts and points to s.
LEMMA PrevFacts ==
  ASSUME NEW h, Good(h), NEW s \in Segments(h), s # 0
  PROVE  /\ h.prev[s] \in Segments(h) /\ End(h, h.prev[s]) = s
         /\ h.prev[s] # h.last /\ h.next[h.prev[s]] = s
         /\ h.prev[s] < s
<1>1. h.prev[s] \in Segments(h) /\ End(h, h.prev[s]) = s
  BY DEF Good, Tiled
<1>2. QED BY <1>1, NextFacts

-----------------------------------------------------------------------------
\* Inserting a segment at new, inside s.
LEMMA InsertGood ==
  ASSUME NEW h, Good(h), NEW s \in Segments(h), NEW new \in Nat, NEW rest \in Nat,
         rest >= 1, new > s + HeaderUnits, new + HeaderUnits + rest = End(h, s)
  PROVE  LET k == Insert(h, s, new, rest)
         IN  /\ Good(k) /\ new \notin Segments(h) /\ Segments(k) = Segments(h) \cup {new}
             /\ k.free = IF s \in h.free THEN h.free \cup {new} ELSE h.free
             /\ k.len[s] = new - s - HeaderUnits
             /\ \A x \in Segments(h) \ {s} : k.len[x] = h.len[x]
             /\ k.end = h.end
             /\ \A x \in Segments(h) \ {s} : k.next[x] = h.next[x]
             /\ k.next[new] = h.next[s] /\ k.next[s] = new
<1> DEFINE k == Insert(h, s, new, rest)
<1>1. new \notin Segments(h)
  BY SegmentFacts DEF Good, Tiled, HeaderUnits
<1>2. /\ Segments(k) = Segments(h) \cup {new}
      /\ k.len[new] = rest /\ k.next[new] = h.next[s] /\ k.prev[new] = s
      /\ k.len[s] = new - s - HeaderUnits /\ k.next[s] = new
      /\ \A x \in Segments(h) \ {s} : k.len[x] = h.len[x] /\ k.next[x] = h.next[x]
      /\ \A x \in Segments(h) : k.prev[x] = IF x = h.next[s] THEN new ELSE h.prev[x]
      /\ k.free = IF s \in h.free THEN h.free \cup {new} ELSE h.free
      /\ k.last = IF s = h.last THEN new ELSE h.last
      /\ k.end = h.end
  BY <1>1 DEF Insert, Segments
<1>3. /\ k.len = [x \in Segments(k) |-> k.len[x]]
      /\ k.next = [x \in Segments(k) |-> k.next[x]]
      /\ k.prev = [x \in Segments(k) |-> k.prev[x]]
      /\ k = [len |-> k.len, next |-> k.next, prev |-> k.prev,
              free |-> k.free, last |-> k.last, end |-> k.end]
  BY DEF Insert, Segments
<1> HIDE DEF k
<1>4. s \in Nat /\ h.end \in Nat /\ s # new /\ new > s /\ new # 0 /\ End(h, s) > new
  BY SegmentFacts, <1>1 DEF HeaderUnits
<1>5. HeapOK(k)
  <2>1. h.last \in Int /\ h.free \subseteq Segments(h) /\ h.end \in Nat
    BY DEF Good, HeapOK
  <2>2. /\ \A x \in Segments(h) : h.len[x] \in Nat /\ h.next[x] \in Int /\ h.prev[x] \in Int
        /\ Segments(h) \subseteq Nat
    BY DEF Good, HeapOK
  <2>3. \A x \in Segments(k) : k.len[x] \in Nat /\ k.next[x] \in Int /\ k.prev[x] \in Int
    BY <1>2, <1>4, <2>2 DEF HeaderUnits
  <2>4. /\ k.len \in [Segments(k) -> Nat] /\ k.next \in [Segments(k) -> Int]
        /\ k.prev \in [Segments(k) -> Int]
    BY <1>3, <2>3
  <2>5. k.free \subseteq Segments(k) /\ k.last \in Int /\ k.end \in Nat
        /\ Segments(k) \subseteq Nat
    BY <1>2, <2>1, <2>2
  <2>6. QED BY <1>3, <2>4, <2>5 DEF HeapOK
<1>6. /\ End(k, s) = new /\ End(k, new) = End(h, s)
      /\ \A x \in Segments(h) \ {s} : End(k, x) = End(h, x)
  BY <1>2, <1>4 DEF End, HeaderUnits
<1>7. \A x, y \in Segments(h) : x < y => End(h, x) <= y
  BY DEF Good, Tiled
<1>8. \A x \in Segments(h) : /\ x < s => x < new /\ End(h, x) <= new
                             /\ x > s => x > new /\ End(h, s) <= x
  BY <1>4, <1>7, SegmentFacts
<1>9. \A x, y \in Segments(k) : x < y => End(k, x) <= y
  <2> TAKE x, y \in Segments(k)
  <2> SUFFICES ASSUME x < y PROVE End(k, x) <= y
    OBVIOUS
  <2>0. x \in Nat /\ y \in Nat /\ s \in Nat
    BY <1>4, <1>5 DEF HeapOK
  <2>1. CASE x = new
    <3>1. y \in Segments(h) /\ y \in Nat
      BY <1>2, <2>0, <2>1
    <3>2. y > s
      BY <1>4, <2>0, <2>1
    <3>3. End(h, s) \in Nat /\ End(h, s) <= y
      BY <1>8, <3>1, <3>2, SegmentFacts
    <3>4. End(k, x) = End(h, s)
      BY <1>6, <2>1
    <3>5. QED BY <3>1, <3>3, <3>4
  <2>2. CASE x = s
    <3>1. CASE y = new
      BY <1>6, <2>2, <3>1
    <3>2. CASE y # new
      <4>1. y \in Segments(h) /\ y > new
        BY <1>2, <1>8, <2>0, <2>2, <3>2
      <4>2. QED BY <1>6, <2>0, <2>2, <4>1
    <3>3. QED BY <3>1, <3>2
  <2>3. CASE x # new /\ x # s
    BY <1>2, <1>4, <1>6, <1>7, <1>8, <2>3, SegmentFacts
  <2>4. QED BY <2>1, <2>2, <2>3
<1>10. 0 \in Segments(k) /\ k.last \in Segments(k)
  BY <1>2 DEF Good, Tiled
<1>11. \A x \in Segments(k) : k.len[x] >= 1 /\ End(k, x) <= k.end
  <2> TAKE x \in Segments(k)
  <2>1. End(h, s) \in Nat /\ End(h, s) <= h.end /\ k.end = h.end
    BY <1>2, SegmentFacts
  <2>2. CASE x = new
    BY <1>2, <1>6, <2>1, <2>2
  <2>3. CASE x = s
    BY <1>2, <1>4, <1>6, <2>1, <2>3 DEF HeaderUnits
  <2>4. CASE x \in Segments(h) \ {s}
    BY <1>2, <1>6, <2>1, <2>4, SegmentFacts
  <2>5. QED BY <1>2, <2>2, <2>3, <2>4
<1>12. \A x \in Segments(k) :
          IF x = k.last THEN k.next[x] = nullptr /\ End(k, x) = k.end
          ELSE k.next[x] = End(k, x) /\ End(k, x) \in Segments(k)
  <2> TAKE x \in Segments(k)
  <2>1. CASE x = new
    <3>1. CASE s = h.last
      BY <1>2, <1>6, <2>1, <3>1, NextFacts
    <3>2. CASE s # h.last
      <4>1. k.last # new
        BY <1>1, <1>2, <3>2 DEF Good, Tiled
      <4>2. h.next[s] = End(h, s) /\ h.next[s] \in Segments(h)
        BY <3>2, NextFacts
      <4>3. QED BY <1>2, <1>6, <2>1, <4>1, <4>2
    <3>3. QED BY <3>1, <3>2
  <2>2. CASE x = s
    BY <1>1, <1>2, <1>4, <1>6, <2>2
  <2>3. CASE x # new /\ x # s
    <3>1. x \in Segments(h) /\ (x = k.last <=> x = h.last) /\ k.next[x] = h.next[x]
      BY <1>2, <2>3
    <3>2. QED BY <1>2, <1>6, <2>3, <3>1, NextFacts
  <2>4. QED BY <2>1, <2>2, <2>3
<1>13. \A x \in Segments(k) :
          IF x = 0 THEN k.prev[x] = nullptr
          ELSE k.prev[x] \in Segments(k) /\ End(k, k.prev[x]) = x
  <2> TAKE x \in Segments(k)
  <2>1. CASE x = new
    BY <1>2, <1>4, <1>6, <2>1
  <2>2. CASE x # new /\ x = h.next[s]
    <3>1. s # h.last /\ x = End(h, s) /\ x # 0
      BY <1>2, <2>2, NextFacts DEF Good, HeapOK, nullptr
    <3>2. QED BY <1>2, <1>6, <2>2, <3>1
  <2>3. CASE x # new /\ x # h.next[s]
    <3>1. x \in Segments(h) /\ k.prev[x] = h.prev[x]
      BY <1>2, <2>3
    <3>2. CASE x = 0
      BY <3>1, <3>2 DEF Good, Tiled
    <3>3. CASE x # 0
      BY <1>2, <1>6, <2>3, <3>1, <3>3, PrevFacts
    <3>4. QED BY <3>2, <3>3
  <2>4. QED BY <2>1, <2>2, <2>3
<1>14. Tiled(k)
  BY <1>9, <1>10, <1>11, <1>12, <1>13 DEF Tiled
<1>15. QED BY <1>1, <1>2, <1>5, <1>14 DEF Good, k

\* s swallows n, the segment after it.
LEMMA SwallowGood ==
  ASSUME NEW h, Good(h), NEW s \in Segments(h), s # h.last
  PROVE  LET n == h.next[s]
             k == Swallow(h, s, n)
         IN  /\ Good(k) /\ Segments(k) = Segments(h) \ {n} /\ s # n
             /\ k.free = h.free \ {n}
             /\ k.len[s] = h.len[s] + h.len[n] + HeaderUnits
             /\ k.end = h.end
             /\ \A x \in Segments(k) \ {s} : k.len[x] = h.len[x] /\ k.next[x] = h.next[x]
             /\ k.next[s] = h.next[n]
             /\ k.last = IF n = h.last THEN s ELSE h.last
             /\ k.prev[s] = h.prev[s]
<1> DEFINE n == h.next[s]
           k == Swallow(h, s, n)
<1>1. /\ n \in Segments(h) /\ n = End(h, s) /\ n > s /\ n # 0 /\ h.prev[n] = s
      /\ s \in Nat /\ n \in Nat /\ s # n
  BY NextFacts, SegmentFacts
<1>2. /\ Segments(k) = Segments(h) \ {n}
      /\ k.len[s] = h.len[s] + h.len[n] + HeaderUnits /\ k.next[s] = h.next[n]
      /\ \A x \in Segments(k) \ {s} : k.len[x] = h.len[x] /\ k.next[x] = h.next[x]
      /\ \A x \in Segments(k) : k.prev[x] = IF x = h.next[n] THEN s ELSE h.prev[x]
      /\ k.free = h.free \ {n}
      /\ k.last = IF n = h.last THEN s ELSE h.last
      /\ k.end = h.end
  BY <1>1 DEF Swallow, Segments
<1>3. /\ k.len = [x \in Segments(k) |-> k.len[x]]
      /\ k.next = [x \in Segments(k) |-> k.next[x]]
      /\ k.prev = [x \in Segments(k) |-> k.prev[x]]
      /\ k = [len |-> k.len, next |-> k.next, prev |-> k.prev,
              free |-> k.free, last |-> k.last, end |-> k.end]
  BY DEF Swallow, Segments
<1>0. n = h.next[s]
  OBVIOUS
<1> HIDE DEF k, n
<1>4. /\ s \in Segments(k) /\ End(k, s) = End(h, n)
      /\ \A x \in Segments(k) \ {s} : End(k, x) = End(h, x)
  <2>1. h.len[s] \in Nat /\ h.len[n] \in Nat
    BY <1>1, SegmentFacts
  <2>2. QED BY <1>1, <1>2, <2>1 DEF End, HeaderUnits
<1>5. HeapOK(k)
  <2>1. h.last \in Int /\ h.free \subseteq Segments(h) /\ h.end \in Nat
    BY DEF Good, HeapOK
  <2>2. /\ \A x \in Segments(h) : h.len[x] \in Nat /\ h.next[x] \in Int /\ h.prev[x] \in Int
        /\ Segments(h) \subseteq Nat
    BY DEF Good, HeapOK
  <2>3. \A x \in Segments(k) : k.len[x] \in Nat /\ k.next[x] \in Int /\ k.prev[x] \in Int
    BY <1>1, <1>2, <2>2 DEF HeaderUnits
  <2>4. /\ k.len \in [Segments(k) -> Nat] /\ k.next \in [Segments(k) -> Int]
        /\ k.prev \in [Segments(k) -> Int]
    BY <1>3, <2>3
  <2>5. k.free \subseteq Segments(k) /\ k.last \in Int /\ k.end \in Nat
        /\ Segments(k) \subseteq Nat
    BY <1>1, <1>2, <2>1, <2>2
  <2>6. QED BY <1>3, <2>4, <2>5 DEF HeapOK
<1>6. \A x, y \in Segments(h) : x < y => End(h, x) <= y
  BY DEF Good, Tiled
<1>7. \A y \in Segments(h) \ {n} : s < y => n < y
  <2> TAKE y \in Segments(h) \ {n}
  <2>1. s < y => n <= y
    BY <1>1, <1>6
  <2>2. QED BY <1>1, <2>1, SegmentFacts
<1>8. \A x, y \in Segments(k) : x < y => End(k, x) <= y
  BY <1>1, <1>2, <1>4, <1>6, <1>7
<1>9. 0 \in Segments(k) /\ k.last \in Segments(k)
  BY <1>1, <1>2 DEF Good, Tiled
<1>10. \A x \in Segments(k) : k.len[x] >= 1 /\ End(k, x) <= k.end
  BY <1>1, <1>2, <1>4, SegmentFacts DEF HeaderUnits
<1>11. \A x \in Segments(k) :
          IF x = k.last THEN k.next[x] = nullptr /\ End(k, x) = k.end
          ELSE k.next[x] = End(k, x) /\ End(k, x) \in Segments(k)
  <2> TAKE x \in Segments(k)
  <2>1. CASE x = s
    <3>1. CASE n = h.last
      BY <1>1, <1>2, <1>4, <2>1, <3>1, NextFacts
    <3>2. CASE n # h.last
      <4>1. h.next[n] \in Segments(h) /\ h.next[n] = End(h, n) /\ h.next[n] > n
        BY <1>1, <3>2, NextFacts
      <4>2. QED BY <1>1, <1>2, <1>4, <2>1, <3>2, <4>1
    <3>3. QED BY <3>1, <3>2
  <2>2. CASE x # s
    <3>1. x \in Segments(h) /\ x # n /\ (x = k.last <=> x = h.last)
      BY <1>2, <2>2
    <3>2. End(h, x) # n
      BY <1>1, <2>2, <3>1, EndInjective
    <3>3. QED BY <1>2, <1>4, <2>2, <3>1, <3>2, NextFacts
  <2>3. QED BY <2>1, <2>2
<1>12. \A x \in Segments(k) :
          IF x = 0 THEN k.prev[x] = nullptr
          ELSE k.prev[x] \in Segments(k) /\ End(k, k.prev[x]) = x
  <2> TAKE x \in Segments(k)
  <2>1. CASE x = h.next[n]
    <3>1. n # h.last
      BY <1>1, <1>2, <2>1, NextFacts DEF Good, HeapOK, nullptr
    <3>2. x = End(h, n) /\ x # 0
      BY <1>1, <2>1, <3>1, NextFacts
    <3>3. QED BY <1>1, <1>2, <1>4, <2>1, <3>2
  <2>2. CASE x # h.next[n]
    <3>1. x \in Segments(h) /\ x # n /\ k.prev[x] = h.prev[x]
      BY <1>2, <2>2
    <3>2. CASE x = 0
      BY <3>1, <3>2 DEF Good, Tiled
    <3>3. CASE x # 0
      <4>1. /\ h.prev[x] \in Segments(h) /\ End(h, h.prev[x]) = x
            /\ h.next[h.prev[x]] = x
        BY <3>1, <3>3, PrevFacts
      <4>2. h.prev[x] # n /\ h.prev[x] # s
        BY <1>0, <2>2, <3>1, <4>1
      <4>3. QED BY <1>2, <1>4, <3>1, <3>3, <4>1, <4>2
    <3>4. QED BY <3>2, <3>3
  <2>3. QED BY <2>1, <2>2
<1>13. Tiled(k)
  BY <1>8, <1>9, <1>10, <1>11, <1>12 DEF Tiled
<1>14. k.prev[s] = h.prev[s]
  <2>1. s # h.next[n]
    <3>1. CASE n = h.last
      BY <1>1, <3>1, NextFacts DEF nullptr
    <3>2. CASE n # h.last
      BY <1>1, <3>2, NextFacts
    <3>3. QED BY <3>1, <3>2
  <2>2. QED BY <1>2, <1>4, <2>1
<1>15. QED BY <1>1, <1>2, <1>5, <1>13, <1>14 DEF Good, n, k

\* A new last segment at the end of the heap.
LEMMA AppendGood ==
  ASSUME NEW h, Good(h), NEW length \in Nat, length > HeaderUnits
  PROVE  LET k == Append(h, length)
         IN  /\ Good(k) /\ h.end \notin Segments(h)
             /\ Segments(k) = Segments(h) \cup {h.end}
             /\ k.free = h.free \cup {h.end}
             /\ k.len[h.end] = length - HeaderUnits
             /\ \A x \in Segments(h) : k.len[x] = h.len[x]
             /\ k.last = h.end /\ k.end = h.end + length
             /\ \A x \in Segments(h) \ {h.last} : k.next[x] = h.next[x]
             /\ k.next[h.last] = h.end /\ k.prev[h.end] = h.last
             /\ k.next[h.end] = nullptr
<1> DEFINE k == Append(h, length)
           e == h.end
<1>1. /\ e \in Nat /\ e \notin Segments(h) /\ h.last \in Segments(h)
      /\ \A x \in Segments(h) : x < e
  BY SegmentFacts DEF Good, Tiled, HeaderUnits
<1>2. /\ Segments(k) = Segments(h) \cup {e}
      /\ k.len[e] = length - HeaderUnits /\ k.next[e] = nullptr /\ k.prev[e] = h.last
      /\ k.next[h.last] = e
      /\ \A x \in Segments(h) : k.len[x] = h.len[x] /\ k.prev[x] = h.prev[x]
      /\ \A x \in Segments(h) \ {h.last} : k.next[x] = h.next[x]
      /\ k.free = h.free \cup {e} /\ k.last = e /\ k.end = e + length
  BY <1>1 DEF Append, Segments
<1>3. /\ k.len = [x \in Segments(k) |-> k.len[x]]
      /\ k.next = [x \in Segments(k) |-> k.next[x]]
      /\ k.prev = [x \in Segments(k) |-> k.prev[x]]
      /\ k = [len |-> k.len, next |-> k.next, prev |-> k.prev,
              free |-> k.free, last |-> k.last, end |-> k.end]
  BY DEF Append, Segments
<1>0. e = h.end /\ length - HeaderUnits \in Nat /\ length - HeaderUnits >= 1
  BY DEF HeaderUnits
<1> HIDE DEF k, e
<1>5. HeapOK(k)
  <2>1. /\ \A x \in Segments(h) : h.len[x] \in Nat /\ h.next[x] \in Int /\ h.prev[x] \in Int
        /\ Segments(h) \subseteq Nat /\ h.last \in Int /\ h.free \subseteq Segments(h)
    BY DEF Good, HeapOK
  <2>2. \A x \in Segments(k) : k.len[x] \in Nat /\ k.next[x] \in Int /\ k.prev[x] \in Int
    BY <1>0, <1>1, <1>2, <2>1 DEF nullptr
  <2>3. /\ k.len \in [Segments(k) -> Nat] /\ k.next \in [Segments(k) -> Int]
        /\ k.prev \in [Segments(k) -> Int]
    BY <1>3, <2>2
  <2>4. k.free \subseteq Segments(k) /\ k.last \in Int /\ k.end \in Nat
        /\ Segments(k) \subseteq Nat
    BY <1>1, <1>2, <2>1
  <2>5. QED BY <1>3, <2>3, <2>4 DEF HeapOK
<1>6. /\ End(k, e) = k.end /\ k.end > e
      /\ \A x \in Segments(h) : End(k, x) = End(h, x) /\ End(h, x) <= e
  BY <1>0, <1>1, <1>2, SegmentFacts DEF End, HeaderUnits
<1>7. \A x, y \in Segments(k) : x < y => End(k, x) <= y
  <2> TAKE x, y \in Segments(k)
  <2>1. CASE x = e
    BY <1>1, <1>2, <2>1, SegmentFacts
  <2>2. CASE x # e
    BY <1>2, <1>6, <2>2 DEF Good, Tiled
  <2>3. QED BY <2>1, <2>2
<1>8. 0 \in Segments(k) /\ k.last \in Segments(k)
  BY <1>2 DEF Good, Tiled
<1>9. \A x \in Segments(k) : k.len[x] >= 1 /\ End(k, x) <= k.end
  <2>1. k.end \in Nat
    BY <1>5 DEF HeapOK
  <2>2. QED BY <1>0, <1>1, <1>2, <1>6, <2>1, SegmentFacts
<1>10. \A x \in Segments(k) :
          IF x = k.last THEN k.next[x] = nullptr /\ End(k, x) = k.end
          ELSE k.next[x] = End(k, x) /\ End(k, x) \in Segments(k)
  <2> TAKE x \in Segments(k)
  <2>1. CASE x = e
    BY <1>2, <1>6, <2>1
  <2>2. CASE x = h.last
    BY <1>0, <1>1, <1>2, <1>6, <2>2, NextFacts
  <2>3. CASE x # e /\ x # h.last
    BY <1>2, <1>6, <2>3, NextFacts
  <2>4. QED BY <2>1, <2>2, <2>3
<1>11. \A x \in Segments(k) :
          IF x = 0 THEN k.prev[x] = nullptr
          ELSE k.prev[x] \in Segments(k) /\ End(k, k.prev[x]) = x
  <2> TAKE x \in Segments(k)
  <2>1. CASE x = e
    <3>1. e # 0 /\ End(h, h.last) = e
      BY <1>0, <1>1, NextFacts DEF Good, Tiled
    <3>2. QED BY <1>1, <1>2, <1>6, <2>1, <3>1
  <2>2. CASE x # e
    BY <1>2, <1>6, <2>2 DEF Good, Tiled
  <2>3. QED BY <2>1, <2>2
<1>12. Tiled(k)
  BY <1>7, <1>8, <1>9, <1>10, <1>11 DEF Tiled
<1>13. QED BY <1>1, <1>2, <1>5, <1>12 DEF Good, k, e

-----------------------------------------------------------------------------
\* The last segment is free and has room for m units.
LastRoom(h, m) == h.last \in h.free /\ h.len[h.last] >= m

\* Changing only the Free flags.
LEMMA FreeFlagsGood ==
  ASSUME NEW h, Good(h), NEW F \in SUBSET Segments(h)
  PROVE  LET k == [h EXCEPT !.free = F]
         IN  /\ Good(k) /\ k.len = h.len /\ k.next = h.next /\ k.prev = h.prev
             /\ k.free = F /\ k.last = h.last /\ k.end = h.end
             /\ Segments(k) = Segments(h)
<1> DEFINE k == [h EXCEPT !.free = F]
<1>1. /\ k = [len |-> h.len, next |-> h.next, prev |-> h.prev,
              free |-> F, last |-> h.last, end |-> h.end]
  BY DEF Good, HeapOK
<1>2. /\ k.len = h.len /\ k.next = h.next /\ k.prev = h.prev
      /\ k.free = F /\ k.last = h.last /\ k.end = h.end
  BY <1>1
<1> HIDE DEF k
<1>3. Segments(k) = Segments(h)
  BY <1>2 DEF Segments
<1>4. HeapOK(k)
  BY <1>1, <1>2, <1>3 DEF Good, HeapOK
<1>5. \A x : End(k, x) = End(h, x)
  BY <1>2 DEF End
<1>6. Tiled(k)
  BY <1>2, <1>3, <1>5 DEF Good, Tiled
<1>7. QED BY <1>2, <1>3, <1>4, <1>6 DEF Good, k

\* Combining forward from a free segment s: nothing but free neighbours
\* disappears, no segment shrinks, and s is no longer followed by a free one.
LEMMA CombineForwardGood ==
  ASSUME NEW h, Good(h), NEW s \in h.free
  PROVE  LET k == CombineForward(h, s)
         IN  /\ Good(k) /\ s \in Segments(k) /\ Segments(k) \subseteq Segments(h)
             /\ Segments(h) \ Segments(k) \subseteq h.free
             /\ k.free = h.free \cap Segments(k)
             /\ \A x \in Segments(k) : k.len[x] >= h.len[x]
             /\ k.end = h.end /\ k.prev[s] = h.prev[s]
             /\ \A m \in Nat : LastRoom(h, m) => LastRoom(k, m)
<1> DEFINE k == CombineForward(h, s)
           n == h.next[s]
<1>0. s \in Segments(h) /\ h.free \subseteq Segments(h)
  BY DEF Good, HeapOK
<1>1. CASE n \notin h.free
  <2>1. k = h
    BY <1>1 DEF CombineForward
  <2>2. \A x \in Segments(h) : h.len[x] >= h.len[x]
    BY SegmentFacts
  <2> HIDE DEF k
  <2>3. QED BY <1>0, <2>1, <2>2 DEF k
<1>2. CASE n \in h.free
  <2>1. k = Swallow(h, s, n)
    BY <1>2 DEF CombineForward
  <2>2. s # h.last
    BY <1>0, <1>2, NextFacts DEF nullptr, Good, HeapOK
  <2>3. /\ Good(k) /\ Segments(k) = Segments(h) \ {n} /\ s # n
        /\ k.free = h.free \ {n}
        /\ k.len[s] = h.len[s] + h.len[n] + HeaderUnits
        /\ k.end = h.end
        /\ \A x \in Segments(k) \ {s} : k.len[x] = h.len[x] /\ k.next[x] = h.next[x]
        /\ k.last = IF n = h.last THEN s ELSE h.last
        /\ k.prev[s] = h.prev[s]
    BY <1>0, <2>1, <2>2, SwallowGood
  <2> HIDE DEF k, n
  <2>4. h.len[s] \in Nat /\ h.len[n] \in Nat
    BY <1>0, <1>2, SegmentFacts
  <2>5. \A x \in Segments(k) : k.len[x] >= h.len[x]
    BY <2>3, <2>4, SegmentFacts DEF HeaderUnits
  <2>6. k.len[s] >= h.len[n]
    BY <2>3, <2>4 DEF HeaderUnits
  <2>7. ASSUME NEW m \in Nat, LastRoom(h, m) PROVE LastRoom(k, m)
    <3>1. CASE n = h.last
      <4>1. k.last = s /\ s \in k.free
        BY <2>3, <3>1
      <4>2. k.len[s] \in Nat /\ h.len[n] >= m
        BY <1>0, <2>3, <2>7, <3>1, SegmentFacts DEF LastRoom
      <4>3. QED BY <2>4, <2>6, <4>1, <4>2 DEF LastRoom
    <3>2. CASE n # h.last
      <4>1. k.last = h.last /\ h.last \in k.free /\ h.last \in Segments(k)
        BY <2>3, <2>7, <3>2 DEF LastRoom, Good, Tiled
      <4>2. k.len[h.last] \in Nat /\ h.len[h.last] \in Nat
            /\ k.len[h.last] >= h.len[h.last] /\ h.len[h.last] >= m
        BY <2>3, <2>5, <2>7, <4>1, SegmentFacts DEF LastRoom
      <4>3. QED BY <4>1, <4>2 DEF LastRoom
    <3>3. QED BY <3>1, <3>2
  <2>8. QED BY <1>0, <1>2, <2>3, <2>5, <2>7 DEF Good, HeapOK, k
<1>3. QED BY <1>1, <1>2

\* Afterwards only the segments of X may still have a free one after them.
LEMMA CombineForwardJoins ==
  ASSUME NEW h, Good(h), NEW s \in h.free, NEW X,
         \A x \in Segments(h) \ (X \cup {s}) : Apart(h, x),
         h.next[s] \in h.free => h.next[s] \notin X
  PROVE  LET k == CombineForward(h, s)
         IN  /\ \A x \in Segments(k) \ (X \ {s}) : Apart(k, x)
<1> DEFINE k == CombineForward(h, s)
           n == h.next[s]
<1>0. s \in Segments(h) /\ h.free \subseteq Segments(h)
  BY DEF Good, HeapOK
<1>1. CASE n \notin h.free
  <2>1. k = h
    BY <1>1 DEF CombineForward
  <2> HIDE DEF k
  <2>2. QED BY <1>1, <2>1 DEF Apart, k
<1>2. CASE n \in h.free
  <2>1. k = Swallow(h, s, n)
    BY <1>2 DEF CombineForward
  <2>2. s # h.last
    BY <1>0, <1>2, NextFacts DEF nullptr, Good, HeapOK
  <2>3. /\ Good(k) /\ Segments(k) = Segments(h) \ {n} /\ s # n
        /\ k.free = h.free \ {n}
        /\ \A x \in Segments(k) \ {s} : k.next[x] = h.next[x]
        /\ k.next[s] = h.next[n]
    BY <1>0, <2>1, <2>2, SwallowGood
  <2>4. Apart(h, n)
    BY <1>0, <1>2, <2>3
  <2> HIDE DEF k
  <2>5. Apart(k, s)
    BY <1>2, <2>3, <2>4 DEF Apart
  <2>6. \A x \in Segments(k) \ (X \cup {s}) : Apart(k, x)
    BY <2>3 DEF Apart
  <2>7. QED BY <2>5, <2>6 DEF k
<1>3. QED BY <1>1, <1>2

\* Backward: the same, and if s was the only segment that may follow a free
\* one, no free segments are neighbours any more.
LEMMA CombineBackwardGood ==
  ASSUME NEW h, Good(h), NEW s \in Segments(h),
         \A x \in Segments(h) \ {h.prev[s]} : Apart(h, x)
  PROVE  LET k == CombineBackward(h, s)
         IN  /\ Good(k) /\ Joined(k) /\ Segments(k) \subseteq Segments(h)
             /\ Segments(h) \ Segments(k) \subseteq h.free
             /\ k.free = h.free \cap Segments(k)
             /\ \A x \in Segments(k) : k.len[x] >= h.len[x]
             /\ k.end = h.end
             /\ \A m \in Nat : LastRoom(h, m) => LastRoom(k, m)
<1> DEFINE k == CombineBackward(h, s)
           p == h.prev[s]
<1>0. h.free \subseteq Segments(h)
  BY DEF Good, HeapOK
<1>1. CASE p \notin h.free
  <2>1. k = h
    BY <1>1 DEF CombineBackward
  <2>2. Joined(h)
    BY <1>1 DEF Joined, Apart
  <2>3. \A x \in Segments(h) : h.len[x] >= h.len[x]
    BY SegmentFacts
  <2> HIDE DEF k
  <2>4. QED BY <1>0, <2>1, <2>2, <2>3 DEF k
<1>2. CASE p \in h.free
  <2>1. k = CombineForward(h, p)
    BY <1>2 DEF CombineBackward
  <2>2. \A x \in Segments(k) : Apart(k, x)
    <3>1. h.next[p] \notin {}
      OBVIOUS
    <3>2. \A x \in Segments(h) \ ({} \cup {p}) : Apart(h, x)
      OBVIOUS
    <3> HIDE DEF k, p
    <3>3. \A x \in Segments(k) \ ({} \ {p}) : Apart(k, x)
      BY <1>2, <2>1, <3>1, <3>2, CombineForwardJoins
    <3>4. QED BY <3>3
  <2> HIDE DEF k, p
  <2>3. /\ Good(k) /\ Segments(k) \subseteq Segments(h)
        /\ Segments(h) \ Segments(k) \subseteq h.free
        /\ k.free = h.free \cap Segments(k)
        /\ \A x \in Segments(k) : k.len[x] >= h.len[x]
        /\ k.end = h.end
        /\ \A m \in Nat : LastRoom(h, m) => LastRoom(k, m)
    BY <1>2, <2>1, CombineForwardGood
  <2>4. QED BY <2>2, <2>3 DEF Joined, k
<1>3. QED BY <1>1, <1>2

\* free: the segment of the block becomes free, what disappears was free, and
\* no free segments are neighbours.
LEMMA ReleaseGood ==
  ASSUME NEW h, Good(h), Joined(h), NEW s \in Segments(h), s \notin h.free
  PROVE  LET k == Release(h, s)
         IN  /\ Good(k) /\ Joined(k) /\ Segments(k) \subseteq Segments(h)
             /\ Segments(h) \ Segments(k) \subseteq h.free \cup {s}
             /\ k.free = (h.free \cup {s}) \cap Segments(k)
             /\ \A x \in Segments(k) : k.len[x] >= h.len[x]
             /\ \A m \in Nat : LastRoom(h, m) => LastRoom(k, m)
<1> DEFINE f == MarkFree(h, s)
           g == CombineForward(f, s)
           k == CombineBackward(g, s)
           p == h.prev[s]
<1>1. /\ Good(f) /\ f.len = h.len /\ f.next = h.next /\ f.prev = h.prev
      /\ f.free = h.free \cup {s} /\ f.last = h.last /\ f.end = h.end
      /\ Segments(f) = Segments(h)
  <2>1. h.free \cup {s} \in SUBSET Segments(h)
    BY DEF Good, HeapOK
  <2>2. QED BY <2>1, FreeFlagsGood DEF MarkFree
<1> HIDE DEF f
<1>2. \A x \in Segments(f) \ ({p} \cup {s}) : Apart(f, x)
  <2> TAKE x \in Segments(f) \ ({p} \cup {s})
  <2>1. h.next[x] # s
    <3> SUFFICES ASSUME h.next[x] = s PROVE FALSE
      OBVIOUS
    <3>1. x # h.last /\ End(h, x) = s /\ s # 0
      BY <1>1, NextFacts DEF nullptr, Good, HeapOK
    <3>2. p \in Segments(h) /\ End(h, p) = s
      BY <3>1, PrevFacts
    <3>3. QED BY <1>1, <3>1, <3>2, EndInjective
  <2>2. QED BY <1>1, <2>1 DEF Joined, Apart
<1>3. f.next[s] \in f.free => f.next[s] \notin {p}
  <2> SUFFICES ASSUME h.next[s] \in h.free \cup {s}, h.next[s] = p PROVE FALSE
    BY <1>1
  <2>1. h.next[s] \in Segments(h)
    BY DEF Good, HeapOK
  <2>2. s # h.last
    BY <2>1, NextFacts DEF nullptr, Good, HeapOK
  <2>3. p > s /\ p \in Nat /\ s \in Nat
    BY <2>1, <2>2, NextFacts, SegmentFacts
  <2>4. CASE s = 0
    BY <2>3, <2>4 DEF Good, Tiled, nullptr
  <2>5. CASE s # 0
    BY <2>3, <2>5, PrevFacts
  <2>6. QED BY <2>4, <2>5
<1>4. s \in f.free
  BY <1>1
<1>5. /\ Good(g) /\ s \in Segments(g) /\ Segments(g) \subseteq Segments(h)
      /\ Segments(h) \ Segments(g) \subseteq h.free \cup {s}
      /\ g.free = (h.free \cup {s}) \cap Segments(g)
      /\ \A x \in Segments(g) : g.len[x] >= h.len[x]
      /\ g.prev[s] = p
      /\ \A m \in Nat : LastRoom(f, m) => LastRoom(g, m)
  BY <1>1, <1>4, CombineForwardGood
<1> HIDE DEF g, p
<1>6. \A x \in Segments(g) \ ({p} \ {s}) : Apart(g, x)
  <2>1. s \in Segments(f)
    BY <1>1
  <2>2. QED BY <1>1, <1>2, <1>3, <1>4, <2>1, CombineForwardJoins DEF g
<1>7. /\ Good(k) /\ Joined(k) /\ Segments(k) \subseteq Segments(g)
      /\ Segments(g) \ Segments(k) \subseteq g.free
      /\ k.free = g.free \cap Segments(k)
      /\ \A x \in Segments(k) : k.len[x] >= g.len[x]
      /\ \A m \in Nat : LastRoom(g, m) => LastRoom(k, m)
  <2>1. \A x \in Segments(g) \ {g.prev[s]} : Apart(g, x)
    BY <1>5, <1>6
  <2>2. QED BY <1>5, <2>1, CombineBackwardGood DEF k
<1>8. k = Release(h, s)
  BY DEF Release, f, g
<1> HIDE DEF k
<1>9. \A m \in Nat : LastRoom(h, m) => LastRoom(f, m)
  BY <1>1 DEF LastRoom
<1>10. \A x \in Segments(k) : k.len[x] >= h.len[x]
  <2> TAKE x \in Segments(k)
  <2>1. x \in Segments(g) /\ x \in Segments(h)
    BY <1>5, <1>7
  <2>2. k.len[x] \in Nat /\ g.len[x] \in Nat /\ h.len[x] \in Nat
    BY <1>5, <1>7, <2>1, SegmentFacts
  <2>3. QED BY <1>5, <1>7, <2>1, <2>2
<1>11. QED BY <1>5, <1>7, <1>8, <1>9, <1>10

\* ExpandHeap rounds the size up to pages.
LEMMA RoundFacts ==
  ASSUME NEW size \in Nat \ {0}
  PROVE  /\ RoundToPages(size) \in Nat /\ RoundToPages(size) >= size
         /\ RoundToPages(size) > HeaderUnits
<1>1. PageUnits \in Nat /\ PageUnits > HeaderUnits /\ PageUnits > 0
  BY HeapAssumption DEF HeaderUnits
<1>2. size % PageUnits \in 0 .. PageUnits - 1
  <2> DEFINE P == PageUnits
  <2>1. P \in Nat /\ P > 0 /\ size \in Nat
    BY <1>1
  <2> HIDE DEF P
  <2>2. size % P \in 0 .. P - 1
    BY <2>1
  <2>3. QED BY <2>2 DEF P
<1>3. size = PageUnits * (size \div PageUnits) + (size % PageUnits)
      /\ size \div PageUnits \in Nat
  BY <1>1
<1>4. CASE size % PageUnits = 0
  <2>1. size \div PageUnits >= 1
    BY <1>1, <1>3, <1>4
  <2>2. size >= PageUnits
    BY <1>1, <1>3, <1>4, <2>1
  <2>3. QED BY <1>1, <1>4, <2>2 DEF RoundToPages, HeaderUnits
<1>5. CASE size % PageUnits # 0
  <2>1. size >= size % PageUnits
    BY <1>1, <1>2, <1>3
  <2>2. QED BY <1>1, <1>2, <1>5, <2>1 DEF RoundToPages, HeaderUnits
<1>6. QED BY <1>4, <1>5

\* ExpandHeap: the heap ends with a free segment that holds the new pages, and
\* the free memory that was at its end before.
LEMMA ExpandGood ==
  ASSUME NEW h, Good(h), Joined(h), NEW size \in Nat \ {0}
  PROVE  LET k == ExpandHeap(h, size)
             pages == RoundToPages(size)
         IN  /\ Good(k) /\ Joined(k)
             /\ \A x \in Segments(h) \ h.free : x \in Segments(k) /\ x \notin k.free
             /\ \A x \in Segments(k) : x \in k.free \/ x \in Segments(h) \ h.free
             /\ \A x \in Segments(h) \cap Segments(k) : k.len[x] >= h.len[x]
             /\ LastRoom(k, pages - HeaderUnits)
             /\ \A m \in Nat : LastRoom(h, m) => LastRoom(k, m + pages)
<1> DEFINE pages == RoundToPages(size)
           e == h.end
           f == Append(h, pages)
           k == CombineBackward(f, e)
<1>1. pages \in Nat /\ pages > HeaderUnits /\ pages - HeaderUnits \in Nat
  BY RoundFacts DEF HeaderUnits
<1> HIDE DEF pages
<1>2. /\ Good(f) /\ e \notin Segments(h) /\ Segments(f) = Segments(h) \cup {e}
      /\ f.free = h.free \cup {e} /\ f.len[e] = pages - HeaderUnits
      /\ \A x \in Segments(h) : f.len[x] = h.len[x]
      /\ f.last = e
      /\ \A x \in Segments(h) \ {h.last} : f.next[x] = h.next[x]
      /\ f.prev[e] = h.last /\ f.next[h.last] = e /\ f.next[e] = nullptr
  BY <1>1, AppendGood
<1>3. h.free \subseteq Segments(h) /\ h.last \in Segments(h)
  BY DEF Good, HeapOK, Tiled
<1> HIDE DEF f
<1>4. \A x \in Segments(f) \ {f.prev[e]} : Apart(f, x)
  <2> TAKE x \in Segments(f) \ {f.prev[e]}
  <2>1. CASE x = e
    BY <1>2, <1>3, <2>1, SegmentFacts DEF Apart, nullptr, Good, HeapOK
  <2>2. CASE x # e
    <3>1. x \in Segments(h) \ {h.last} /\ h.next[x] \in Segments(h)
      BY <1>2, <2>2, NextFacts
    <3>2. QED BY <1>2, <2>2, <3>1 DEF Joined, Apart
  <2>3. QED BY <2>1, <2>2
<1>5. /\ Good(k) /\ Joined(k) /\ Segments(k) \subseteq Segments(f)
      /\ Segments(f) \ Segments(k) \subseteq f.free
      /\ k.free = f.free \cap Segments(k)
      /\ \A x \in Segments(k) : k.len[x] >= f.len[x]
      /\ \A m \in Nat : LastRoom(f, m) => LastRoom(k, m)
  BY <1>2, <1>4, CombineBackwardGood
<1>6. LastRoom(f, pages - HeaderUnits)
  BY <1>1, <1>2 DEF LastRoom
<1>7. LastRoom(k, pages - HeaderUnits)
  BY <1>1, <1>5, <1>6
<1>8. ASSUME NEW m \in Nat, LastRoom(h, m) PROVE LastRoom(k, m + pages)
  <2> DEFINE p == h.last
  <2>1. p \in h.free /\ h.len[p] >= m /\ h.len[p] \in Nat
    BY <1>3, <1>8, SegmentFacts DEF LastRoom
  <2>2. k = Swallow(f, p, e) /\ p # f.last
    BY <1>2, <1>3, <2>1 DEF CombineBackward, CombineForward
  <2>3. k.free = f.free \ {e} /\ k.len[p] = f.len[p] + f.len[e] + HeaderUnits /\ k.last = p
    BY <1>2, <1>3, <2>2, SwallowGood
  <2> HIDE DEF p
  <2>4. k.len[p] = h.len[p] + pages
    BY <1>1, <1>2, <1>3, <2>1, <2>3 DEF HeaderUnits, p
  <2>5. p \in k.free
    BY <1>2, <1>3, <2>1, <2>3
  <2>6. QED BY <1>1, <2>1, <2>3, <2>4, <2>5 DEF LastRoom
<1>9. k = ExpandHeap(h, size)
  BY DEF ExpandHeap, f, pages
<1> HIDE DEF k, e
<1>10. \A x \in Segments(h) \ h.free : x \in Segments(k) /\ x \notin k.free
  BY <1>2, <1>5
<1>11. \A x \in Segments(k) : x \in k.free \/ x \in Segments(h) \ h.free
  BY <1>2, <1>5
<1>12. \A x \in Segments(h) \cap Segments(k) : k.len[x] >= h.len[x]
  BY <1>2, <1>5
<1>13. QED BY <1>5, <1>7, <1>8, <1>9, <1>10, <1>11, <1>12 DEF pages

\* malloc taking a segment: it is the only one that stops being free, and it
\* holds the size asked for.
LEMMA TakeGood ==
  ASSUME NEW h, Good(h), Joined(h), NEW size \in Nat \ {0}, NEW s \in Fits(h, size)
  PROVE  LET k == Take(h, s, size)
         IN  /\ Good(k) /\ Joined(k) /\ Segments(h) \subseteq Segments(k)
             /\ s \notin k.free /\ k.len[s] >= size
             /\ \A x \in Segments(h) \ {s} : /\ x \in k.free <=> x \in h.free
                                             /\ k.len[x] = h.len[x]
             /\ \A x \in Segments(k) \ Segments(h) : x \in k.free
<1> DEFINE g == Split(h, s, size)
           k == Take(h, s, size)
           new == s + HeaderUnits + size
           rest == h.len[s] - size - HeaderUnits
<1>1. s \in h.free /\ s \in Segments(h) /\ h.len[s] >= size /\ h.free \subseteq Segments(h)
      /\ h.len[s] \in Nat /\ s \in Nat
  BY SegmentFacts DEF Fits, Good, HeapOK
<1>2. /\ Good(g) /\ Segments(h) \subseteq Segments(g) /\ h.free \subseteq g.free
      /\ g.len[s] >= size
      /\ \A x \in Segments(h) \ {s} : g.len[x] = h.len[x] /\ g.next[x] = h.next[x]
      /\ \A x \in Segments(h) : x \in g.free <=> x \in h.free
      /\ \A x \in Segments(g) \ Segments(h) : x \in g.free /\ g.next[x] = h.next[s]
      /\ g.free \subseteq h.free \cup (Segments(g) \ Segments(h))
  <2>1. CASE rest < 1
    <3>1. g = h
      BY <2>1 DEF Split
    <3> HIDE DEF g
    <3>2. QED BY <1>1, <3>1
  <2>2. CASE ~(rest < 1)
    <3>1. g = Insert(h, s, new, rest)
      BY <2>2 DEF Split
    <3>2. /\ new \in Nat /\ rest \in Nat /\ rest >= 1 /\ new > s + HeaderUnits
          /\ new + HeaderUnits + rest = End(h, s)
      BY <1>1, <2>2 DEF HeaderUnits, End
    <3>3. /\ Good(g) /\ new \notin Segments(h) /\ Segments(g) = Segments(h) \cup {new}
          /\ g.free = h.free \cup {new}
          /\ g.len[s] = new - s - HeaderUnits
          /\ \A x \in Segments(h) \ {s} : g.len[x] = h.len[x]
          /\ \A x \in Segments(h) \ {s} : g.next[x] = h.next[x]
          /\ g.next[new] = h.next[s]
      <4> DEFINE i == Insert(h, s, new, rest)
      <4>1. g = i
        BY <3>1
      <4> HIDE DEF new, rest, g
      <4>2. /\ Good(i) /\ new \notin Segments(h) /\ Segments(i) = Segments(h) \cup {new}
            /\ i.free = IF s \in h.free THEN h.free \cup {new} ELSE h.free
            /\ i.len[s] = new - s - HeaderUnits
            /\ \A x \in Segments(h) \ {s} : i.len[x] = h.len[x]
            /\ \A x \in Segments(h) \ {s} : i.next[x] = h.next[x]
            /\ i.next[new] = h.next[s]
        <5>1. s \in Segments(h)
          BY <1>1
        <5>2. QED BY <3>2, <5>1, InsertGood
      <4> HIDE DEF i
      <4>3. QED BY <1>1, <4>1, <4>2
    <3>4. new - s - HeaderUnits = size
      BY <1>1 DEF HeaderUnits
    <3> HIDE DEF new, rest, g
    <3>5. QED BY <1>1, <3>3, <3>4
  <2>3. QED BY <2>1, <2>2
<1>3. k = [g EXCEPT !.free = g.free \ {s}]
  BY DEF Take
<1> HIDE DEF g, k
<1>4. /\ Good(k) /\ Segments(k) = Segments(g) /\ k.free = g.free \ {s}
      /\ k.len = g.len /\ k.next = g.next
  <2>1. g.free \ {s} \in SUBSET Segments(g)
    BY <1>2 DEF Good, HeapOK
  <2>2. QED BY <1>2, <1>3, <2>1, FreeFlagsGood
<1>5. \A x \in h.free : h.next[x] \in Segments(h) \/ h.next[x] = nullptr
  BY <1>1, NextFacts
<1>6. Joined(k)
  <2> SUFFICES ASSUME NEW x \in k.free PROVE k.next[x] \notin k.free
    BY DEF Joined, Apart
  <2>1. PICK y \in h.free : k.next[x] = h.next[y]
    BY <1>1, <1>2, <1>4
  <2>2. h.next[y] \notin h.free
    BY <1>1 DEF Joined, Apart
  <2>3. h.next[y] \in Segments(h) \/ h.next[y] = nullptr
    BY <1>5
  <2>4. nullptr \notin k.free
    BY <1>4 DEF Good, HeapOK, nullptr
  <2>5. QED BY <1>2, <1>4, <2>1, <2>2, <2>3, <2>4
<1>7. QED BY <1>1, <1>2, <1>4, <1>6 DEF k
-----------------------------------------------------------------------------
(***************************************************************************)
(* The inductive invariant: the heap is well formed and joined, the blocks *)
(* are intact, and every expansion left room behind.                       *)
(***************************************************************************)
\* A thread that expanded the heap since memory was last taken still waits,
\* and the last segment is free and holds the pages it added but a header;
\* after two expansions it holds what the thread waits for.
Room ==
    \A t \in Threads : expansions[t] # 0 =>
        /\ pending[t] # 0
        /\ expansions[t] = 1 \/ expansions[t] = 2
        /\ LastRoom(heap, RoundToPages(pending[t]) - HeaderUnits)
        /\ expansions[t] = 2 => LastRoom(heap, pending[t])

\* Before InitializeHeap nothing is allocated or waited for.
Unused ==
    ~heapInitialized =>
        /\ heap = NoHeap /\ DOMAIN live = {}
        /\ \A t \in Threads : pending[t] = 0 /\ expansions[t] = 0

IInv == TypeOK /\ Linked /\ Coalesced /\ BlocksIntact /\ Room /\ Unused

LEMMA InitInv == Init => IInv
<1> SUFFICES ASSUME Init PROVE IInv
  OBVIOUS
<1>1. HeapOK(NoHeap)
  BY DEF HeapOK, NoHeap, Segments, nullptr
<1>2. TypeOK
  BY <1>1 DEF Init, TypeOK
<1>3. QED
  BY <1>2 DEF Init, IInv, Linked, Coalesced, BlocksIntact, Room, Unused

LEMMA InitializeHeapInv == IInv /\ InitializeHeap => IInv'
<1> SUFFICES ASSUME IInv, InitializeHeap PROVE IInv'
  OBVIOUS
<1> DEFINE length == InitialPages * PageUnits
           h == OneSegment(length)
           k == Take(h, 0, RoundUp(16))
<1>1. length \in Nat /\ length >= 3
  <2>1. InitialPages \in Nat /\ InitialPages >= 1 /\ PageUnits \in Nat /\ PageUnits >= 3
    BY HeapAssumption DEF HeaderUnits
  <2>2. QED BY <2>1
<1> HIDE DEF length
<1>2. /\ Segments(h) = {0} /\ h.len = [s \in {0} |-> length - HeaderUnits]
      /\ h.next = [s \in {0} |-> nullptr] /\ h.prev = [s \in {0} |-> nullptr]
      /\ h.free = {0} /\ h.last = 0 /\ h.end = length
  BY DEF OneSegment, Segments
<1>3. HeapOK(h)
  BY <1>1, <1>2 DEF HeapOK, OneSegment, Segments, nullptr, HeaderUnits
<1>4. Tiled(h) /\ Joined(h)
  BY <1>1, <1>2 DEF Tiled, Joined, Apart, End, nullptr, HeaderUnits
<1>5. RoundUp(16) = 1
  BY DEF RoundUp
<1>6. 0 \in Fits(h, RoundUp(16))
  BY <1>1, <1>2, <1>5 DEF Fits, HeaderUnits
<1> HIDE DEF h
<1>7. /\ Good(k) /\ Joined(k) /\ 0 \notin k.free
      /\ \A x \in Segments(k) \ {0} : x \in k.free
  <2>1. RoundUp(16) \in Nat \ {0}
    BY <1>5
  <2> DEFINE size == RoundUp(16)
  <2> HIDE DEF size
  <2>2. size \in Nat \ {0} /\ 0 \in Fits(h, size)
    BY <1>6, <2>1 DEF size
  <2>3. QED BY <1>2, <1>3, <1>4, <2>2, TakeGood DEF Good, size
<1> HIDE DEF k
<1>8. /\ heapInitialized' = TRUE /\ heap' = k
      /\ UNCHANGED <<earlyOffset, pending, live, requests, expansions>>
      /\ ~heapInitialized
  BY DEF InitializeHeap, k, h, length
<1>9. TypeOK' /\ Linked' /\ Coalesced'
  BY <1>7, <1>8 DEF IInv, TypeOK, Linked, Coalesced, Good
<1>10. DOMAIN live = {} /\ \A t \in Threads : expansions[t] = 0
  BY <1>8 DEF IInv, Unused
<1>11. BlocksIntact'
  BY <1>7, <1>8, <1>10 DEF BlocksIntact
<1>12. Room' /\ Unused'
  BY <1>8, <1>10 DEF Room, Unused
<1>13. QED BY <1>9, <1>11, <1>12 DEF IInv

LEMMA EarlyMallocInv == \A bytes \in Sizes : IInv /\ EarlyMalloc(bytes) => IInv'
<1> SUFFICES ASSUME NEW bytes \in Sizes, IInv, EarlyMalloc(bytes) PROVE IInv'
  OBVIOUS
<1>1. RoundUp(bytes) \in Int /\ RoundUp(bytes) > 0
  BY HeapAssumption DEF EarlyMalloc, RoundUp
<1>2. earlyOffset' \in Nat
  BY <1>1 DEF EarlyMalloc, IInv, TypeOK
<1>3. TypeOK'
  BY <1>2 DEF EarlyMalloc, IInv, TypeOK
<1>4. QED
  BY <1>3 DEF EarlyMalloc, IInv, Linked, Coalesced, BlocksIntact, Room, Unused

LEMMA MallocInv ==
  \A t \in Threads, bytes \in Sizes : IInv /\ Malloc(t, bytes) => IInv'
<1> SUFFICES ASSUME NEW t \in Threads, NEW bytes \in Sizes, IInv, Malloc(t, bytes)
             PROVE  IInv'
  OBVIOUS
<1>1. RoundUp(bytes) \in Nat \ {0}
  BY HeapAssumption DEF Malloc, RoundUp
<1>2. TypeOK'
  BY <1>1 DEF Malloc, IInv, TypeOK
<1>3. Room'
  <2>1. expansions[t] = 0
    BY DEF Malloc, IInv, Room
  <2>2. \A u \in Threads \ {t} : pending'[u] = pending[u]
    BY DEF Malloc, IInv, TypeOK
  <2>3. heap' = heap /\ expansions' = expansions
    BY DEF Malloc
  <2>4. QED BY <2>1, <2>2, <2>3 DEF IInv, Room
<1>4. QED
  BY <1>2, <1>3 DEF Malloc, IInv, Linked, Coalesced, BlocksIntact, Unused
\* What the steps under the lock know of the heap.
LEMMA HeapFacts ==
  ASSUME IInv, heapInitialized
  PROVE  /\ Good(heap) /\ Joined(heap)
         /\ heap.free \subseteq Segments(heap) /\ Segments(heap) \subseteq Nat
         /\ \A s \in Segments(heap) :
               s \notin heap.free <=> (s = 0 \/ s + HeaderUnits \in DOMAIN live)
         /\ \A b \in DOMAIN live :
               /\ b \in Nat /\ live[b] \in Nat
               /\ b - HeaderUnits \in Segments(heap) \ {0}
               /\ live[b] <= heap.len[b - HeaderUnits]
  BY DEF IInv, TypeOK, Linked, Coalesced, BlocksIntact, Good, HeapOK

LEMMA AllocateInv == \A t \in Threads : IInv /\ Allocate(t) => IInv'
<1> SUFFICES ASSUME NEW t \in Threads, IInv, Allocate(t) PROVE IInv'
  OBVIOUS
<1> DEFINE size == pending[t]
<1>1. size \in Nat \ {0} /\ heapInitialized
  BY DEF Allocate, IInv, TypeOK, Unused
<1>2. PICK s \in Fits(heap, size) :
        /\ heap' = Take(heap, s, size)
        /\ live' = [b \in DOMAIN live \cup {s + HeaderUnits} |->
                       IF b = s + HeaderUnits THEN size ELSE live[b]]
  BY DEF Allocate
<1>3. /\ pending' = [pending EXCEPT ![t] = 0]
      /\ expansions' = [u \in Threads |-> 0]
      /\ UNCHANGED <<heapInitialized, earlyOffset, requests>>
  BY DEF Allocate
<1> HIDE DEF size
<1>4. /\ Good(heap) /\ Joined(heap) /\ s \in heap.free /\ s \in Segments(heap) /\ s \in Nat
  BY <1>1, HeapFacts DEF Fits
<1>5. /\ Good(heap') /\ Joined(heap') /\ Segments(heap) \subseteq Segments(heap')
      /\ s \notin heap'.free /\ heap'.len[s] >= size
      /\ \A x \in Segments(heap) \ {s} : /\ x \in heap'.free <=> x \in heap.free
                                         /\ heap'.len[x] = heap.len[x]
      /\ \A x \in Segments(heap') \ Segments(heap) : x \in heap'.free
  <2>1. Good(heap) /\ Joined(heap)
    BY <1>4
  <2>2. QED BY <1>1, <1>2, <2>1, TakeGood
<1>6. DOMAIN live' = DOMAIN live \cup {s + HeaderUnits}
  BY <1>2
<1>7. \A b \in DOMAIN live : b # s + HeaderUnits
  BY <1>1, <1>4, HeapFacts
<1>8. live'[s + HeaderUnits] = size /\ \A b \in DOMAIN live : live'[b] = live[b]
  BY <1>2, <1>7
<1>9. BlocksIntact'
  <2>1. ASSUME NEW x \in Segments(heap')
        PROVE  x \notin heap'.free <=> (x = 0 \/ x + HeaderUnits \in DOMAIN live')
    <3>1. x \in Nat
      BY <1>5 DEF Good, HeapOK
    <3>2. x + HeaderUnits = s + HeaderUnits <=> x = s
      BY <1>4, <3>1 DEF HeaderUnits
    <3>3. CASE x = s
      BY <1>5, <1>6, <3>2, <3>3
    <3>4. CASE x # s /\ x \in Segments(heap)
      BY <1>1, <1>5, <1>6, <3>2, <3>4, HeapFacts
    <3>5. CASE x \notin Segments(heap)
      <4>1. x # 0
        BY <1>4, <3>5 DEF Good, Tiled
      <4>2. x + HeaderUnits \notin DOMAIN live
        <5> DEFINE b == x + HeaderUnits
        <5>1. b - HeaderUnits = x
          BY <3>1 DEF HeaderUnits
        <5> HIDE DEF b
        <5>2. b \notin DOMAIN live
          BY <1>1, <3>5, <5>1, HeapFacts
        <5>3. QED BY <5>2 DEF b
      <4>3. QED BY <1>4, <1>5, <1>6, <3>2, <3>5, <4>1, <4>2
    <3>6. QED BY <3>3, <3>4, <3>5
  <2>2. ASSUME NEW b \in DOMAIN live'
        PROVE  /\ b - HeaderUnits \in Segments(heap') \ {0}
               /\ live'[b] <= heap'.len[b - HeaderUnits]
    <3>1. CASE b = s + HeaderUnits
      <4>1. b - HeaderUnits = s
        BY <1>4, <3>1 DEF HeaderUnits
      <4>2. s # 0
        BY <1>1, <1>4, HeapFacts
      <4>3. size <= heap'.len[s]
        <5>1. heap'.len[s] \in Nat
          BY <1>4, <1>5, SegmentFacts
        <5>2. QED BY <1>1, <1>5, <5>1
      <4>4. QED BY <1>4, <1>5, <1>8, <3>1, <4>1, <4>2, <4>3
    <3>2. CASE b \in DOMAIN live
      <4> DEFINE x == b - HeaderUnits
      <4>1. /\ x \in Segments(heap) \ {0} /\ live[b] <= heap.len[x]
            /\ x + HeaderUnits = b
        BY <1>1, <3>2, HeapFacts DEF HeaderUnits
      <4> HIDE DEF x
      <4>2. x # s
        BY <1>7, <3>2, <4>1
      <4>3. x \in Segments(heap') \ {0} /\ live'[b] <= heap'.len[x]
        BY <1>5, <1>8, <3>2, <4>1, <4>2
      <4>4. QED BY <4>3 DEF x
    <3>3. QED BY <1>6, <3>1, <3>2
  <2>3. QED BY <2>1, <2>2 DEF BlocksIntact
<1>10. TypeOK'
  <2>1. DOMAIN live' \subseteq Nat
    BY <1>1, <1>4, <1>6, HeapFacts DEF HeaderUnits
  <2>2. live' \in [DOMAIN live' -> Nat]
    BY <1>1, <1>2, HeapFacts
  <2>3. HeapOK(heap')
    BY <1>5 DEF Good
  <2>4. pending' \in [Threads -> Nat] /\ expansions' \in [Threads -> Nat]
    BY <1>3 DEF IInv, TypeOK
  <2>5. QED BY <1>3, <2>1, <2>2, <2>3, <2>4 DEF IInv, TypeOK
<1>11. Linked' /\ Coalesced'
  BY <1>5 DEF Linked, Coalesced, Good
<1>12. Room' /\ Unused'
  BY <1>1, <1>3 DEF Room, Unused
<1>13. QED BY <1>9, <1>10, <1>11, <1>12 DEF IInv

\* Growing the heap loses no room at its end.
LEMMA RoomGrows ==
  ASSUME NEW h, NEW k, NEW pages \in Nat, HeapOK(k),
         \A m \in Nat : LastRoom(h, m) => LastRoom(k, m + pages),
         NEW m \in Nat, LastRoom(h, m)
  PROVE  LastRoom(k, m)
<1>1. LastRoom(k, m + pages)
  OBVIOUS
<1>2. k.len[k.last] \in Nat
  BY <1>1 DEF LastRoom, HeapOK
<1>3. QED BY <1>1, <1>2 DEF LastRoom

LEMMA ExpandInv == \A t \in Threads : IInv /\ Expand(t) => IInv'
<1> SUFFICES ASSUME NEW t \in Threads, IInv, Expand(t) PROVE IInv'
  OBVIOUS
<1> DEFINE size == pending[t]
           pages == RoundToPages(size)
<1>1. size \in Nat \ {0} /\ heapInitialized /\ Fits(heap, size) = {}
  BY DEF Expand, IInv, TypeOK, Unused
<1>2. /\ heap' = ExpandHeap(heap, size)
      /\ expansions' = [expansions EXCEPT ![t] = @ + 1]
      /\ UNCHANGED <<heapInitialized, earlyOffset, pending, live, requests>>
  BY DEF Expand
<1> HIDE DEF size
<1>3. pages \in Nat /\ pages >= size /\ pages > HeaderUnits
      /\ pages - HeaderUnits \in Nat
  BY <1>1, RoundFacts DEF HeaderUnits
<1>4. Good(heap) /\ Joined(heap)
  BY <1>1, HeapFacts
<1>5. /\ Good(heap') /\ Joined(heap')
      /\ \A x \in Segments(heap) \ heap.free : x \in Segments(heap') /\ x \notin heap'.free
      /\ \A x \in Segments(heap') : x \in heap'.free \/ x \in Segments(heap) \ heap.free
      /\ \A x \in Segments(heap) \cap Segments(heap') : heap'.len[x] >= heap.len[x]
      /\ LastRoom(heap', pages - HeaderUnits)
      /\ \A m \in Nat : LastRoom(heap, m) => LastRoom(heap', m + pages)
  BY <1>1, <1>2, <1>4, ExpandGood
<1> HIDE DEF pages
<1>6. BlocksIntact'
  <2>1. ASSUME NEW x \in Segments(heap')
        PROVE  x \notin heap'.free <=> (x = 0 \/ x + HeaderUnits \in DOMAIN live)
    <3>1. CASE x \in Segments(heap) \ heap.free
      BY <1>1, <1>5, <3>1, HeapFacts
    <3>2. CASE x \notin Segments(heap) \ heap.free
      <4>1. x \in heap'.free
        BY <1>5, <3>2
      <4>2. x # 0
        <5>1. 0 \in Segments(heap)
          BY <1>4 DEF Good, Tiled
        <5>2. QED BY <1>1, <3>2, <5>1, HeapFacts
      <4>3. x + HeaderUnits \notin DOMAIN live
        <5>1. x \in Nat
          BY <1>5 DEF Good, HeapOK
        <5> DEFINE b == x + HeaderUnits
        <5>2. b - HeaderUnits = x
          BY <5>1 DEF HeaderUnits
        <5> HIDE DEF b
        <5>3. b \in DOMAIN live => x \in Segments(heap) /\ x \notin heap.free
          <6> SUFFICES ASSUME b \in DOMAIN live PROVE x \in Segments(heap) /\ x \notin heap.free
            OBVIOUS
          <6>1. x \in Segments(heap)
            BY <1>1, <5>2, HeapFacts
          <6>2. x \notin heap.free
            BY <1>1, <6>1, HeapFacts DEF b
          <6>3. QED BY <6>1, <6>2
        <5>4. b \notin DOMAIN live
          BY <3>2, <5>3
        <5>5. QED BY <5>4 DEF b
      <4>4. QED BY <4>1, <4>2, <4>3
    <3>3. QED BY <3>1, <3>2
  <2>2. ASSUME NEW b \in DOMAIN live
        PROVE  /\ b - HeaderUnits \in Segments(heap') \ {0}
               /\ live[b] <= heap'.len[b - HeaderUnits]
    <3> DEFINE x == b - HeaderUnits
    <3>1. /\ x \in Segments(heap) \ {0} /\ live[b] <= heap.len[x] /\ live[b] \in Nat
          /\ x + HeaderUnits = b
      BY <1>1, HeapFacts DEF HeaderUnits
    <3> HIDE DEF x
    <3>2. x \in Segments(heap) \ heap.free
      BY <1>1, <3>1, HeapFacts
    <3>3. x \in Segments(heap')
      BY <1>5, <3>2
    <3>4. heap.len[x] \in Nat /\ heap'.len[x] \in Nat /\ heap'.len[x] >= heap.len[x]
      BY <1>4, <1>5, <3>1, <3>3, SegmentFacts
    <3>5. QED BY <3>1, <3>3, <3>4 DEF x
  <2>3. QED BY <1>2, <2>1, <2>2 DEF BlocksIntact
<1>7. Room'
  <2> SUFFICES ASSUME NEW u \in Threads, expansions'[u] # 0
               PROVE  /\ pending[u] # 0
                      /\ expansions'[u] = 1 \/ expansions'[u] = 2
                      /\ LastRoom(heap', RoundToPages(pending[u]) - HeaderUnits)
                      /\ expansions'[u] = 2 => LastRoom(heap', pending[u])
    BY <1>2 DEF Room
  <2>1. HeapOK(heap')
    BY <1>5 DEF Good
  <2>2. \A m \in Nat : LastRoom(heap, m) => LastRoom(heap', m)
    BY <1>3, <1>5, <2>1, RoomGrows
  <2>3. pending[u] \in Nat /\ expansions[u] \in Nat
    BY DEF IInv, TypeOK
  <2>4. CASE u # t
    <3>1. expansions'[u] = expansions[u]
      BY <1>2, <2>4 DEF IInv, TypeOK
    <3>2. /\ pending[u] # 0
          /\ expansions[u] = 1 \/ expansions[u] = 2
          /\ LastRoom(heap, RoundToPages(pending[u]) - HeaderUnits)
          /\ expansions[u] = 2 => LastRoom(heap, pending[u])
      BY <3>1 DEF IInv, Room
    <3>3. RoundToPages(pending[u]) - HeaderUnits \in Nat
      BY <2>3, <3>2, RoundFacts DEF HeaderUnits
    <3>4. QED BY <2>2, <2>3, <3>1, <3>2, <3>3
  <2>5. CASE u = t
    <3>1. expansions'[t] = expansions[t] + 1
      BY <1>2 DEF IInv, TypeOK
    <3>2. LastRoom(heap', pages - HeaderUnits)
      BY <1>5
    <3>3. expansions[t] # 2
      <4> SUFFICES ASSUME expansions[t] = 2 PROVE FALSE
        OBVIOUS
      <4>1. LastRoom(heap, size)
        BY DEF IInv, Room, size
      <4>2. heap.last \in Fits(heap, size)
        BY <4>1 DEF LastRoom, Fits
      <4>3. QED BY <1>1, <4>2
    <3>4. expansions[t] = 0 \/ expansions[t] = 1
      BY <3>3, <2>3 DEF IInv, Room
    <3>5. ASSUME expansions[t] = 1 PROVE LastRoom(heap', size)
      <4>1. LastRoom(heap, pages - HeaderUnits)
        BY <3>5 DEF IInv, Room, pages, size
      <4>2. LastRoom(heap', pages - HeaderUnits + pages)
        BY <1>3, <1>5, <4>1
      <4>3. heap'.len[heap'.last] \in Nat
        BY <2>1, <4>2 DEF LastRoom, HeapOK
      <4>4. QED BY <1>1, <1>3, <4>2, <4>3 DEF LastRoom, HeaderUnits
    <3>6. QED BY <1>1, <2>3, <2>5, <3>1, <3>2, <3>4, <3>5 DEF pages, size
  <2>6. QED BY <2>4, <2>5
<1>8. TypeOK'
  <2>1. expansions' \in [Threads -> Nat]
    BY <1>2 DEF IInv, TypeOK
  <2>2. QED BY <1>2, <1>5, <2>1 DEF IInv, TypeOK, Good
<1>9. Linked' /\ Coalesced'
  BY <1>5 DEF Linked, Coalesced, Good
<1>10. Unused'
  BY <1>1, <1>2 DEF Unused
<1>11. QED BY <1>6, <1>7, <1>8, <1>9, <1>10 DEF IInv
LEMMA FreeInv == \A address \in DOMAIN live : IInv /\ Free(address) => IInv'
<1> SUFFICES ASSUME NEW address \in DOMAIN live, IInv, Free(address) PROVE IInv'
  OBVIOUS
<1> DEFINE s == address - HeaderUnits
<1>1. heapInitialized
  BY DEF IInv, Unused
<1>2. /\ heap' = Release(heap, s)
      /\ live' = [b \in DOMAIN live \ {address} |-> live[b]]
      /\ UNCHANGED <<heapInitialized, earlyOffset, pending, requests, expansions>>
  BY DEF Free
<1>3. address \in Nat /\ s \in Segments(heap) \ {0} /\ s + HeaderUnits = address
  BY <1>1, HeapFacts DEF HeaderUnits
<1> HIDE DEF s
<1>4. Good(heap) /\ Joined(heap) /\ s \notin heap.free /\ heap.free \subseteq Segments(heap)
  BY <1>1, <1>3, HeapFacts
<1>5. /\ Good(heap') /\ Joined(heap') /\ Segments(heap') \subseteq Segments(heap)
      /\ Segments(heap) \ Segments(heap') \subseteq heap.free \cup {s}
      /\ heap'.free = (heap.free \cup {s}) \cap Segments(heap')
      /\ \A x \in Segments(heap') : heap'.len[x] >= heap.len[x]
      /\ \A m \in Nat : LastRoom(heap, m) => LastRoom(heap', m)
  <2>1. s \in Segments(heap)
    BY <1>3
  <2>2. QED BY <1>2, <1>4, <2>1, ReleaseGood
<1>6. BlocksIntact'
  <2>1. ASSUME NEW x \in Segments(heap')
        PROVE  x \notin heap'.free <=> (x = 0 \/ x + HeaderUnits \in DOMAIN live')
    <3>1. x \in Segments(heap) /\ x \in Nat /\ s \in Nat
      BY <1>3, <1>4, <1>5 DEF Good, HeapOK
    <3>2. x + HeaderUnits = address <=> x = s
      BY <1>3, <3>1 DEF HeaderUnits
    <3>3. x \notin heap.free <=> (x = 0 \/ x + HeaderUnits \in DOMAIN live)
      BY <1>1, <3>1, HeapFacts
    <3>4. x \notin heap'.free <=> x \notin heap.free /\ x # s
      BY <1>5
    <3>5. DOMAIN live' = DOMAIN live \ {address}
      BY <1>2
    <3>6. QED BY <1>3, <3>2, <3>3, <3>4, <3>5
  <2>2. ASSUME NEW b \in DOMAIN live'
        PROVE  /\ b - HeaderUnits \in Segments(heap') \ {0}
               /\ live'[b] <= heap'.len[b - HeaderUnits]
    <3> DEFINE x == b - HeaderUnits
    <3>1. b \in DOMAIN live /\ b # address /\ live'[b] = live[b]
      BY <1>2
    <3>2. /\ x \in Segments(heap) \ {0} /\ live[b] <= heap.len[x] /\ live[b] \in Nat
          /\ x + HeaderUnits = b
      BY <1>1, <3>1, HeapFacts DEF HeaderUnits
    <3> HIDE DEF x
    <3>3. x \notin heap.free /\ x # s
      <4>1. x \in Segments(heap) /\ x + HeaderUnits \in DOMAIN live
        BY <3>1, <3>2
      <4>2. x \notin heap.free
        BY <1>1, <4>1, HeapFacts
      <4>3. QED BY <1>3, <3>1, <3>2, <4>2
    <3>4. x \in Segments(heap')
      BY <1>5, <3>2, <3>3
    <3>5. heap.len[x] \in Nat /\ heap'.len[x] \in Nat /\ heap'.len[x] >= heap.len[x]
      BY <1>4, <1>5, <3>2, <3>4, SegmentFacts
    <3>6. QED BY <3>1, <3>2, <3>4, <3>5 DEF x
  <2>3. QED BY <1>1, <2>1, <2>2 DEF BlocksIntact
<1>7. Room'
  <2> SUFFICES ASSUME NEW u \in Threads, expansions[u] # 0
               PROVE  /\ pending[u] # 0
                      /\ expansions[u] = 1 \/ expansions[u] = 2
                      /\ LastRoom(heap', RoundToPages(pending[u]) - HeaderUnits)
                      /\ expansions[u] = 2 => LastRoom(heap', pending[u])
    BY <1>2 DEF Room
  <2>1. /\ pending[u] # 0
        /\ expansions[u] = 1 \/ expansions[u] = 2
        /\ LastRoom(heap, RoundToPages(pending[u]) - HeaderUnits)
        /\ expansions[u] = 2 => LastRoom(heap, pending[u])
    BY DEF IInv, Room
  <2>2. pending[u] \in Nat
    BY DEF IInv, TypeOK
  <2>3. RoundToPages(pending[u]) - HeaderUnits \in Nat
    BY <2>1, <2>2, RoundFacts DEF HeaderUnits
  <2>4. QED BY <1>5, <2>1, <2>2, <2>3
<1>8. TypeOK'
  <2>1. DOMAIN live' \subseteq Nat /\ live' \in [DOMAIN live' -> Nat]
    BY <1>2 DEF IInv, TypeOK
  <2>2. QED BY <1>2, <1>5, <2>1 DEF IInv, TypeOK, Good
<1>9. Linked' /\ Coalesced'
  BY <1>5 DEF Linked, Coalesced, Good
<1>10. Unused'
  BY <1>1, <1>2 DEF Unused
<1>11. QED BY <1>6, <1>7, <1>8, <1>9, <1>10 DEF IInv

LEMMA NextInv == IInv /\ [Next]_vars => IInv'
<1> SUFFICES ASSUME IInv, [Next]_vars PROVE IInv'
  OBVIOUS
<1>1. CASE InitializeHeap
  BY <1>1, InitializeHeapInv
<1>2. ASSUME NEW bytes \in Sizes, EarlyMalloc(bytes) PROVE IInv'
  BY <1>2, EarlyMallocInv
<1>3. ASSUME NEW t \in Threads, NEW bytes \in Sizes, Malloc(t, bytes) PROVE IInv'
  BY <1>3, MallocInv
<1>4. ASSUME NEW t \in Threads, Allocate(t) PROVE IInv'
  BY <1>4, AllocateInv
<1>5. ASSUME NEW t \in Threads, Expand(t) PROVE IInv'
  BY <1>5, ExpandInv
<1>6. ASSUME NEW address \in DOMAIN live, Free(address) PROVE IInv'
  BY <1>6, FreeInv
<1>7. CASE UNCHANGED vars
  BY <1>7 DEF vars, IInv, TypeOK, Linked, Coalesced, BlocksIntact, Room, Unused
<1>8. QED BY <1>1, <1>2, <1>3, <1>4, <1>5, <1>6, <1>7 DEF Next

\* The inductive invariant holds in every reachable state.
THEOREM Invariance == Spec => []IInv
  BY InitInv, NextInv, PTL DEF Spec

\* The heap's state keeps its type.
THEOREM TypeCorrect == Spec => []TypeOK
<1>1. IInv => TypeOK
  BY DEF IInv
<1>2. QED BY <1>1, Invariance, PTL

\* Whatever threads malloc and free, Next, Previous, LastSegment and the
\* lengths describe one list of segments that tile the heap.
THEOREM LinkedHolds == Spec => []Linked
<1>1. IInv => Linked
  BY DEF IInv
<1>2. QED BY <1>1, Invariance, PTL

\* No two neighbouring segments are free after any malloc, free or expansion.
THEOREM CoalescedHolds == Spec => []Coalesced
<1>1. IInv => Coalesced
  BY DEF IInv
<1>2. QED BY <1>1, Invariance, PTL

\* No merge swallows a block in use and no segment stays marked used once its
\* block is freed.
THEOREM BlocksIntactHolds == Spec => []BlocksIntact
<1>1. IInv => BlocksIntact
  BY DEF IInv
<1>2. QED BY <1>1, Invariance, PTL

\* malloc's retry loop expands the heap at most twice, although the new
\* segment may be smaller than the size it is made for.
THEOREM AtMostTwoExpansionsHolds == Spec => []AtMostTwoExpansions
<1>1. IInv => AtMostTwoExpansions
  <2> SUFFICES ASSUME IInv, NEW t \in Threads PROVE expansions[t] <= 2
    BY DEF AtMostTwoExpansions
  <2>1. expansions[t] = 0 \/ expansions[t] = 1 \/ expansions[t] = 2
    BY DEF IInv, Room
  <2>2. QED BY <2>1
<1>2. QED BY <1>1, Invariance, PTL

-----------------------------------------------------------------------------
(***************************************************************************)
(* The heap implements HeapSpec: the variables have the same names, so the *)
(* refinement mapping is the identity.                                     *)
(***************************************************************************)
\* The block that malloc hands out overlaps none in use.
LEMMA AllocateApart ==
  ASSUME IInv, heapInitialized, NEW size \in Nat \ {0}, NEW s \in Fits(heap, size)
  PROVE  /\ s + HeaderUnits \notin DOMAIN live
         /\ \A b \in DOMAIN live : \/ s + HeaderUnits + size <= b
                                   \/ b + live[b] <= s + HeaderUnits
<1>1. s \in Segments(heap) /\ s \in heap.free /\ heap.len[s] >= size
  BY HeapFacts DEF Fits
<1>2. s \in Nat /\ heap.len[s] \in Nat
  BY <1>1, HeapFacts, SegmentFacts
<1>3. s + HeaderUnits \notin DOMAIN live
  BY <1>1, HeapFacts
<1>4. ASSUME NEW b \in DOMAIN live
      PROVE  \/ s + HeaderUnits + size <= b
             \/ b + live[b] <= s + HeaderUnits
  <2> DEFINE x == b - HeaderUnits
  <2>1. /\ x \in Segments(heap) /\ live[b] <= heap.len[x] /\ live[b] \in Nat
        /\ b \in Nat /\ b = x + HeaderUnits
    BY HeapFacts DEF HeaderUnits
  <2> HIDE DEF x
  <2>2. x \in Nat /\ heap.len[x] \in Nat
    BY <2>1, HeapFacts, SegmentFacts
  <2>3. x # s
    BY <1>3, <2>1
  <2>4. (x < s => End(heap, x) <= s) /\ (s < x => End(heap, s) <= x)
    BY <1>1, <2>1, HeapFacts DEF Good, Tiled
  <2>5. QED BY <1>1, <1>2, <2>1, <2>2, <2>3, <2>4 DEF End, HeaderUnits
<1>5. QED BY <1>3, <1>4

LEMMA StepRefines == IInv /\ [Next]_vars => [Promise!Next]_(Promise!vars)
<1> SUFFICES ASSUME IInv, [Next]_vars PROVE [Promise!Next]_(Promise!vars)
  OBVIOUS
<1>1. CASE UNCHANGED <<pending, live>>
  BY <1>1 DEF Promise!vars
<1>2. ASSUME NEW t \in Threads, NEW bytes \in Sizes, Malloc(t, bytes)
      PROVE  Promise!Next
  <2>1. RoundUp(bytes) > 0 /\ pending' = [pending EXCEPT ![t] = RoundUp(bytes)]
        /\ pending[t] = 0 /\ UNCHANGED live
    BY <1>2 DEF Malloc
  <2>2. pending'[t] = RoundUp(bytes)
    BY <2>1 DEF IInv, TypeOK
  <2>3. Promise!Ask(t, pending'[t])
    BY <2>1, <2>2 DEF Promise!Ask
  <2>4. QED BY <2>3 DEF Promise!Next
<1>3. ASSUME NEW t \in Threads, Allocate(t)
      PROVE  Promise!Next
  <2> DEFINE size == pending[t]
  <2>1. size \in Nat \ {0} /\ heapInitialized
    BY <1>3 DEF Allocate, IInv, TypeOK, Unused
  <2>2. PICK s \in Fits(heap, size) :
          live' = [b \in DOMAIN live \cup {s + HeaderUnits} |->
                      IF b = s + HeaderUnits THEN size ELSE live[b]]
    BY <1>3 DEF Allocate
  <2>3. pending' = [pending EXCEPT ![t] = 0]
    BY <1>3 DEF Allocate
  <2> DEFINE address == s + HeaderUnits
  <2>4. /\ address \notin DOMAIN live
        /\ \A b \in DOMAIN live : \/ address + size <= b
                                  \/ b + live[b] <= address
    BY <2>1, AllocateApart
  <2>5. address \in DOMAIN live'
    BY <2>2
  <2>6. size > 0
    BY <2>1
  <2> HIDE DEF address
  <2>7. Promise!Give(t, address)
    BY <2>2, <2>3, <2>4, <2>6 DEF Promise!Give, address
  <2>8. QED BY <2>5, <2>7 DEF Promise!Next
<1>4. ASSUME NEW address \in DOMAIN live, Free(address)
      PROVE  Promise!Next
  <2>1. Promise!TakeBack(address)
    BY <1>4 DEF Free, Promise!TakeBack
  <2>2. QED BY <2>1 DEF Promise!Next
<1>5. CASE InitializeHeap
  BY <1>1, <1>5 DEF InitializeHeap
<1>6. ASSUME NEW bytes \in Sizes, EarlyMalloc(bytes) PROVE UNCHANGED <<pending, live>>
  BY <1>6 DEF EarlyMalloc
<1>7. ASSUME NEW t \in Threads, Expand(t) PROVE UNCHANGED <<pending, live>>
  BY <1>7 DEF Expand
<1>8. CASE UNCHANGED vars
  BY <1>1, <1>8 DEF vars
<1>9. QED BY <1>1, <1>2, <1>3, <1>4, <1>5, <1>6, <1>7, <1>8 DEF Next

\* malloc hands out memory that overlaps no block in use, and no step of the
\* heap moves, shrinks or takes back a block before it is freed.
THEOREM ImplementsHolds == Spec => Implements
<1>1. Init => Promise!Init
  BY DEF Init, Promise!Init
<1>2. QED
  BY <1>1, StepRefines, Invariance, PTL DEF Spec, Implements, Promise!Spec
=============================================================================
