----------------------------- MODULE Fat32Proofs -----------------------------
(***************************************************************************)
(* Proofs about the FAT32 driver of module Fat32: the entries and blocks   *)
(* of every thread are owned exactly once, its variables have their types, *)
(* and lookups and reads give what the volumes hold.                       *)
(*                                                                         *)
(* A reference count is the number of entries that share it.  Every step   *)
(* of a lookup and of its caller is made of five changes of the heap and   *)
(* its owners: an entry goes, an entry is copied, an entry with a new      *)
(* count comes, a lookup takes a block, a lookup gives blocks back.  For   *)
(* each a lemma says that it keeps Owned; the actions follow.              *)
(*                                                                         *)
(* A lookup has followed some names of its path, is at the entry that they *)
(* lead to, and has passed no slot there that ends the directory or has    *)
(* the next name: TruthInv, in the second half.                            *)
(***************************************************************************)
EXTENDS Fat32, FiniteSetTheorems, SequenceTheorems, WellFoundedInduction, TLAPS

-----------------------------------------------------------------------------
(***************************************************************************)
(* Owners.  Entries gives every EntryInfo, by thread and variable; the     *)
(* slot nullptr stands for the temporary of FromDirectoryEntry.            *)
(***************************************************************************)
Variables(t) == Objects[t] \cup {"current"}
Pairs == UNION {{<<t, o>> : o \in Variables(t)} : t \in Threads}

Entries(ob) ==
    [s \in Pairs \cup {nullptr} |-> IF s = nullptr THEN NoObject ELSE ob[s[1]][s[2]]]

Sharers(e, p) == {s \in DOMAIN e : e[s].cell = p}

\* e holds the blocks of h except those of tmp, which belong to lookups.
Owned(h, e, tmp) ==
    /\ IsFiniteSet(DOMAIN e) /\ IsFiniteSet(DOMAIN h)
    /\ nullptr \notin DOMAIN h
    /\ tmp \subseteq DOMAIN h
    /\ \A p \in DOMAIN h : h[p] \in Nat
    /\ \A p \in DOMAIN h : p \in tmp \/ \E s \in DOMAIN e : p \in {e[s].cell, e[s].name}
    /\ \A s \in DOMAIN e :
          /\ e[s].cell # nullptr => /\ e[s].cell \in DOMAIN h \ tmp
                                    /\ h[e[s].cell] = Cardinality(Sharers(e, e[s].cell))
          /\ e[s].name # nullptr => /\ e[s].name \in DOMAIN h \ tmp
                                    /\ e[s].cell # nullptr
    /\ \A r, s \in DOMAIN e :
          /\ e[r].cell # nullptr /\ e[r].cell = e[s].cell => e[r].name = e[s].name
          /\ e[r].name # nullptr /\ e[r].name = e[s].name => e[r].cell = e[s].cell
          /\ e[r].name # nullptr => e[r].name # e[s].cell

\* A block that t took for what.
Took(t, what, p) == p # nullptr /\ p[1] = t /\ p[2] = what

Taken(f) == {f.path, f.ffname, f.buffer, f.list} \ {nullptr}
Temporaries == UNION {Taken(frame[t]) : t \in Threads}

FrameFields == {"path", "ffname", "buffer", "list", "info", "volume", "names", "x", "retried",
                "long", "exact"}

\* A lookup of t under way: its frame, and what it found so far.
Lookup(t) ==
    LET f == frame[t] IN
    /\ DOMAIN f = FrameFields
    /\ Took(t, "path", f.path)
    /\ f.ffname = nullptr \/ Took(t, "name", f.ffname)
    /\ f.buffer = nullptr \/ Took(t, "buffer", f.buffer)
    /\ f.list = nullptr \/ Took(t, "list", f.list)
    /\ f.info \in Objects[t] /\ Live(t, f.info) /\ Live(t, "current")
    /\ f.volume \in DOMAIN Volumes
    /\ Current(t).dir => Current(t).cluster \in DOMAIN Volumes[f.volume].clusters
    /\ pc[t] = "open" => f.ffname = nullptr /\ f.buffer = nullptr /\ f.list = nullptr
    /\ pc[t] \in {"read", "scan", "convert", "compare"} => Current(t).dir
    /\ pc[t] \in {"scan", "convert", "compare"} => f.x \in DOMAIN Cluster(t)
    /\ pc[t] \in {"convert", "compare"} => Slot(t).kind = "entry"

\* A thread that is in no lookup has no frame and no current entry.
Placed(t) ==
    /\ pc[t] \in Labels
    /\ pc[t] = "idle" => frame[t] = NoFrame /\ ~Live(t, "current")
    /\ pc[t] # "idle" => Lookup(t)

\* Drives are numbered as they are found.
Numbered ==
    /\ port \in 1 .. Len(Volumes) + 1
    /\ drives \in Seq([id : Nat, port : DOMAIN Volumes])
    /\ Len(drives) < port
    /\ nextDriveID = Len(drives) % 2^16
    /\ \A i \in DOMAIN drives : drives[i].id = i - 1

Shapes ==
    /\ DOMAIN object = Threads /\ DOMAIN pc = Threads /\ DOMAIN frame = Threads
    /\ \A t \in Threads : DOMAIN object[t] = Variables(t)

FilesInv ==
    /\ Shapes /\ Numbered
    /\ \A t \in Threads : Placed(t)
    /\ Owned(heap, Entries(object), Temporaries)

-----------------------------------------------------------------------------
(* Blocks. *)

\* Every nonempty set of naturals has a least element.
LEMMA LeastOfNaturals ==
  ASSUME NEW S \in SUBSET Nat, S # {}
  PROVE  \E x \in S : \A y \in S : x <= y
<1> DEFINE R == OpToRel(LAMBDA x, y : x < y, Nat)
<1>1. IsWellFoundedOn(R, Nat)
  BY NatLessThanWellFounded
<1>2. PICK x \in S : \A y \in S : ~(<<y, x>> \in R)
  <2> HIDE DEF R
  <2>1. QED BY <1>1, WFMin
<1>3. \A y \in S : ~(y < x)
  BY <1>2 DEF OpToRel
<1>4. QED BY <1>3

\* A block that is taken was free: of one number more than there are blocks,
\* one is free, and Fresh takes the least.
LEMMA FreshIsFree ==
  ASSUME NEW h, IsFiniteSet(DOMAIN h), NEW t, NEW what
  PROVE  Fresh(h, t, what) \notin DOMAIN h /\ Took(t, what, Fresh(h, t, what))
<1> DEFINE n == Cardinality(DOMAIN h)
           B(k) == <<t, what, k>>
           Free == {k \in 1 .. n + 1 : B(k) \notin DOMAIN h}
<1>1. n \in Nat
  BY FS_CardinalityType
<1>2. Free # {}
  <2>1. SUFFICES ASSUME \A k \in 1 .. n + 1 : B(k) \in DOMAIN h
                 PROVE  FALSE
    OBVIOUS
  <2> DEFINE f == [k \in 1 .. n + 1 |-> B(k)]
  <2>2. f \in Injection(1 .. n + 1, DOMAIN h)
    BY <2>1 DEF Injection, IsInjective
  <2>3. Cardinality(1 .. n + 1) <= n
    <3> HIDE DEF f
    <3>1. QED BY <2>2, FS_Injection
  <2>4. Cardinality(1 .. n + 1) = n + 1
    <3> HIDE DEF n
    <3>1. n + 1 \in Int /\ 1 \in Int /\ ~(1 > n + 1) /\ n + 1 - 1 + 1 = n + 1
      BY <1>1
    <3>2. QED BY <3>1, FS_Interval
  <2>5. QED BY <1>1, <2>3, <2>4
<1>3. PICK k \in Free : \A j \in Free : k <= j
  <2> HIDE DEF n
  <2>1. Free \in SUBSET Nat
    BY <1>1
  <2>2. QED BY <1>2, <2>1, LeastOfNaturals
<1>4. \A j \in 1 .. k - 1 : B(j) \in DOMAIN h
  <2> HIDE DEF n
  <2>1. \A j \in 1 .. k - 1 : j \in 1 .. n + 1 /\ ~(k <= j)
    BY <1>1, <1>3
  <2>2. QED BY <1>3, <2>1
<1>5. PICK m \in 1 .. n + 1 : /\ Fresh(h, t, what) = B(m)
                              /\ B(m) \notin DOMAIN h
  <2> DEFINE P(m) == B(m) \notin DOMAIN h /\ \A j \in 1 .. m - 1 : B(j) \in DOMAIN h
  <2>1. \E m \in 1 .. n + 1 : P(m)
    BY <1>3, <1>4
  <2>2. Fresh(h, t, what) = B(CHOOSE m \in 1 .. n + 1 : P(m))
    BY DEF Fresh
  <2>3. QED BY <2>1, <2>2
<1>6. QED BY <1>5 DEF Took, nullptr

-----------------------------------------------------------------------------
(* Entries that share a count. *)

\* An entry that is not there: no count, no name.
Void(o) == o.cell = nullptr /\ o.name = nullptr

\* The sharers of a count are finitely many, and a count that somebody shares
\* is at least one.
LEMMA SharersCounted ==
  ASSUME NEW h, NEW e, NEW tmp, Owned(h, e, tmp), NEW s \in DOMAIN e, e[s].cell # nullptr
  PROVE  /\ IsFiniteSet(Sharers(e, e[s].cell)) /\ s \in Sharers(e, e[s].cell)
         /\ h[e[s].cell] \in Nat /\ h[e[s].cell] >= 1
         /\ h[e[s].cell] = Cardinality(Sharers(e, e[s].cell))
<1> DEFINE S == Sharers(e, e[s].cell)
<1>1. IsFiniteSet(S) /\ s \in S
  BY FS_Subset DEF Owned, Sharers
<1>2. h[e[s].cell] = Cardinality(S)
  BY DEF Owned
<1>3. Cardinality(S) \in Nat /\ Cardinality(S) # 0
  <2> HIDE DEF S
  <2>1. QED BY <1>1, FS_CardinalityType, FS_EmptySet
<1>4. QED
  <2> HIDE DEF S
  <2>1. Cardinality(S) >= 1
    BY <1>3
  <2>2. QED BY <1>1, <1>2, <1>3, <2>1 DEF S

\* A count that one entry alone has is 1.
LEMMA OnlySharer ==
  ASSUME NEW h, NEW e, NEW tmp, Owned(h, e, tmp), NEW s \in DOMAIN e, e[s].cell # nullptr,
         ~(h[e[s].cell] > 1)
  PROVE  Sharers(e, e[s].cell) = {s}
<1> DEFINE S == Sharers(e, e[s].cell)
<1>1. IsFiniteSet(S) /\ s \in S /\ Cardinality(S) = 1
  BY SharersCounted
<1>2. QED
  <2> HIDE DEF S
  <2>1. PICK x : S = {x}
    BY <1>1, FS_Singleton
  <2>2. S = {s}
    BY <1>1, <2>1
  <2>3. QED BY <2>2 DEF S

\* Changing the entry s changes the sharers of its old and its new count only.
LEMMA SharersOfChanged ==
  ASSUME NEW e, NEW s \in DOMAIN e, NEW o, NEW changed, changed = [e EXCEPT ![s] = o]
  PROVE  /\ DOMAIN changed = DOMAIN e /\ changed[s] = o
         /\ \A r \in DOMAIN e : r # s => changed[r] = e[r]
         /\ \A p : o.cell = p => Sharers(changed, p) = Sharers(e, p) \cup {s}
         /\ \A p : o.cell # p => Sharers(changed, p) = Sharers(e, p) \ {s}
BY DEF Sharers

\* ~EntryInfo: the count goes down with the entry, and goes with the name when
\* it was the last.
LEMMA DestroyKeeps ==
  ASSUME NEW h, NEW e, NEW tmp, Owned(h, e, tmp), NEW s \in DOMAIN e, e[s].cell # nullptr,
         NEW o, Void(o)
  PROVE  Owned(Destroyed(h, e[s]), [e EXCEPT ![s] = o], tmp)
<1> DEFINE c == e[s].cell
           n == e[s].name
           g == Destroyed(h, e[s])
           d == [e EXCEPT ![s] = o]
<1>1. DOMAIN d = DOMAIN e /\ Void(d[s]) /\ \A r \in DOMAIN e : r # s => d[r] = e[r]
  BY SharersOfChanged
<1>2. \A p : p # nullptr => Sharers(d, p) = Sharers(e, p) \ {s}
  BY SharersOfChanged DEF Void
<1>3. \A r \in DOMAIN e : r # s /\ e[r].cell # c =>
         Sharers(d, e[r].cell) = Sharers(e, e[r].cell) \/ e[r].cell = nullptr
  <2>1. ASSUME NEW p, p # c PROVE s \notin Sharers(e, p)
    BY <2>1 DEF Sharers
  <2>2. QED BY <1>2, <2>1
<1>4. c \in DOMAIN h \ tmp /\ h[c] \in Nat /\ h[c] >= 1
      /\ (n # nullptr => n \in DOMAIN h \ tmp)
  BY SharersCounted DEF Owned
<1>5. CASE h[c] > 1
  <2>1. /\ DOMAIN g = DOMAIN h /\ g[c] = h[c] - 1
        /\ \A q \in DOMAIN h : q # c => g[q] = h[q]
    BY <1>4, <1>5 DEF Destroyed
  <2>2. g[c] = Cardinality(Sharers(d, c)) /\ g[c] \in Nat
    <3>1. Sharers(d, c) = Sharers(e, c) \ {s}
      BY <1>2
    <3>2. Cardinality(Sharers(e, c) \ {s}) = Cardinality(Sharers(e, c)) - 1
      BY SharersCounted, FS_RemoveElement
    <3>3. h[c] = Cardinality(Sharers(e, c))
      BY SharersCounted
    <3>4. h[c] - 1 \in Nat
      BY <1>4, <1>5
    <3> HIDE DEF c, g, d
    <3>5. QED BY <2>1, <3>1, <3>2, <3>3, <3>4
  <2>3. PICK r \in DOMAIN e : r # s /\ e[r].cell = c
    <3>1. SUFFICES ASSUME Sharers(e, c) = {s} PROVE FALSE
      BY SharersCounted DEF Sharers
    <3>2. Cardinality(Sharers(e, c)) = 1
      BY <3>1, FS_Singleton
    <3>3. QED BY <1>5, <3>2, SharersCounted
  <2>4. e[r].name = n
    BY <2>3 DEF Owned
  <2> HIDE DEF g, d
  <2>5. \A p \in DOMAIN g : g[p] \in Nat
    BY <2>1, <2>2 DEF Owned
  <2>6. \A p \in DOMAIN g : p \in tmp \/ \E q \in DOMAIN d : p \in {d[q].cell, d[q].name}
    <3> SUFFICES ASSUME NEW p \in DOMAIN g, p \notin tmp
                 PROVE  \E q \in DOMAIN d : p \in {d[q].cell, d[q].name}
      OBVIOUS
    <3>1. PICK q \in DOMAIN e : p \in {e[q].cell, e[q].name}
      BY <2>1 DEF Owned
    <3>2. CASE q = s
      BY <1>1, <2>3, <2>4, <3>1, <3>2
    <3>3. CASE q # s
      BY <1>1, <3>1, <3>3
    <3>4. QED BY <3>2, <3>3
  <2>7. \A q \in DOMAIN d :
          /\ d[q].cell # nullptr => /\ d[q].cell \in DOMAIN g \ tmp
                                    /\ g[d[q].cell] = Cardinality(Sharers(d, d[q].cell))
          /\ d[q].name # nullptr => d[q].name \in DOMAIN g \ tmp /\ d[q].cell # nullptr
    <3> SUFFICES ASSUME NEW q \in DOMAIN e, q # s
                 PROVE  /\ e[q].cell # nullptr =>
                              /\ e[q].cell \in DOMAIN h \ tmp
                              /\ g[e[q].cell] = Cardinality(Sharers(d, e[q].cell))
                        /\ e[q].name # nullptr =>
                              e[q].name \in DOMAIN h \ tmp /\ e[q].cell # nullptr
      BY <1>1, <2>1 DEF Void
    <3>1. e[q].name # nullptr => e[q].name \in DOMAIN h \ tmp /\ e[q].cell # nullptr
      BY DEF Owned
    <3>2. e[q].cell # nullptr => /\ e[q].cell \in DOMAIN h \ tmp
                                 /\ h[e[q].cell] = Cardinality(Sharers(e, e[q].cell))
      BY DEF Owned
    <3>3. CASE e[q].cell = c
      BY <2>2, <3>1, <3>2, <3>3
    <3>4. CASE e[q].cell # c
      BY <1>3, <2>1, <3>1, <3>2, <3>4
    <3>5. QED BY <3>3, <3>4
  <2>8. \A q, p \in DOMAIN d :
          /\ d[q].cell # nullptr /\ d[q].cell = d[p].cell => d[q].name = d[p].name
          /\ d[q].name # nullptr /\ d[q].name = d[p].name => d[q].cell = d[p].cell
          /\ d[q].name # nullptr => d[q].name # d[p].cell
    BY <1>1 DEF Owned, Void
  <2>9. Owned(g, d, tmp)
    BY <1>1, <2>1, <2>5, <2>6, <2>7, <2>8 DEF Owned
  <2>10. QED BY <2>9 DEF g, d
<1>6. CASE ~(h[c] > 1)
  <2>1. g = Without(h, {c, n})
    BY <1>6 DEF Destroyed
  <2>2. DOMAIN g = DOMAIN h \ {c, n} /\ \A q \in DOMAIN g : g[q] = h[q]
    <3> HIDE DEF c, n, g
    <3>1. QED BY <2>1 DEF Without
  <2>3. \A r \in DOMAIN e : e[r].cell = c => r = s
    <3>1. Sharers(e, c) = {s}
      BY <1>6, OnlySharer
    <3>2. QED BY <3>1 DEF Sharers
  <2>4. \A r \in DOMAIN e : r # s =>
           /\ e[r].cell # nullptr => e[r].cell \notin {c, n}
           /\ e[r].name # nullptr => e[r].name \notin {c, n}
    BY <2>3 DEF Owned
  <2> HIDE DEF g, d
  <2>5. IsFiniteSet(DOMAIN g)
    BY <2>2, FS_Subset DEF Owned
  <2>6. tmp \subseteq DOMAIN g
    BY <1>4, <2>2 DEF Owned
  <2>7. \A p \in DOMAIN g : p \in tmp \/ \E q \in DOMAIN d : p \in {d[q].cell, d[q].name}
    <3> SUFFICES ASSUME NEW p \in DOMAIN g, p \notin tmp
                 PROVE  \E q \in DOMAIN d : p \in {d[q].cell, d[q].name}
      OBVIOUS
    <3>1. PICK q \in DOMAIN e : p \in {e[q].cell, e[q].name}
      BY <2>2 DEF Owned
    <3>2. q # s
      BY <2>2, <3>1
    <3>3. QED BY <1>1, <3>1, <3>2
  <2>8. \A q \in DOMAIN d :
          /\ d[q].cell # nullptr => /\ d[q].cell \in DOMAIN g \ tmp
                                    /\ g[d[q].cell] = Cardinality(Sharers(d, d[q].cell))
          /\ d[q].name # nullptr => d[q].name \in DOMAIN g \ tmp /\ d[q].cell # nullptr
    <3> SUFFICES ASSUME NEW q \in DOMAIN e, q # s
                 PROVE  /\ e[q].cell # nullptr =>
                              /\ e[q].cell \in DOMAIN g \ tmp
                              /\ g[e[q].cell] = Cardinality(Sharers(d, e[q].cell))
                        /\ e[q].name # nullptr =>
                              e[q].name \in DOMAIN g \ tmp /\ e[q].cell # nullptr
      BY <1>1 DEF Void
    <3>1. e[q].name # nullptr => e[q].name \in DOMAIN h \ tmp /\ e[q].cell # nullptr
      BY DEF Owned
    <3>2. e[q].cell # nullptr => /\ e[q].cell \in DOMAIN h \ tmp
                                 /\ h[e[q].cell] = Cardinality(Sharers(e, e[q].cell))
      BY DEF Owned
    <3>3. QED BY <1>3, <2>2, <2>3, <2>4, <3>1, <3>2
  <2>9. \A q, r \in DOMAIN d :
          /\ d[q].cell # nullptr /\ d[q].cell = d[r].cell => d[q].name = d[r].name
          /\ d[q].name # nullptr /\ d[q].name = d[r].name => d[q].cell = d[r].cell
          /\ d[q].name # nullptr => d[q].name # d[r].cell
    BY <1>1 DEF Owned, Void
  <2>10. Owned(g, d, tmp)
    BY <1>1, <2>2, <2>5, <2>6, <2>7, <2>8, <2>9 DEF Owned
  <2>11. QED BY <2>10 DEF g, d
<1>7. QED BY <1>5, <1>6

\* A copy of an entry counts itself.
LEMMA CopyKeeps ==
  ASSUME NEW h, NEW e, NEW tmp, Owned(h, e, tmp), NEW s \in DOMAIN e, NEW r \in DOMAIN e,
         Void(e[s]), e[r].cell # nullptr
  PROVE  Owned([h EXCEPT ![e[r].cell] = @ + 1], [e EXCEPT ![s] = e[r]], tmp)
<1> DEFINE c == e[r].cell
           g == [h EXCEPT ![c] = @ + 1]
           d == [e EXCEPT ![s] = e[r]]
<1>1. DOMAIN d = DOMAIN e /\ d[s] = e[r] /\ \A q \in DOMAIN e : q # s => d[q] = e[q]
  BY SharersOfChanged
<1>2. Sharers(d, c) = Sharers(e, c) \cup {s} /\ s \notin Sharers(e, c)
  BY SharersOfChanged DEF Sharers, Void
<1>3. \A p : p # c /\ p # nullptr => Sharers(d, p) = Sharers(e, p)
  <2>1. \A p : p # c => Sharers(d, p) = Sharers(e, p) \ {s}
    BY SharersOfChanged
  <2>2. \A p : p # nullptr => s \notin Sharers(e, p)
    BY DEF Sharers, Void
  <2>3. QED BY <2>1, <2>2
<1>4. c \in DOMAIN h \ tmp /\ h[c] \in Nat /\ h[c] = Cardinality(Sharers(e, c))
  BY SharersCounted DEF Owned
<1>5. /\ DOMAIN g = DOMAIN h /\ g[c] = h[c] + 1
      /\ \A q \in DOMAIN h : q # c => g[q] = h[q]
  BY <1>4
<1>6. g[c] = Cardinality(Sharers(d, c)) /\ g[c] \in Nat
  <2>1. IsFiniteSet(Sharers(e, c))
    BY SharersCounted
  <2>2. Cardinality(Sharers(d, c)) = Cardinality(Sharers(e, c)) + 1
    <3> HIDE DEF c, d
    <3>1. QED BY <1>2, <2>1, FS_AddElement
  <2> HIDE DEF c, g, d
  <2>3. QED BY <1>4, <1>5, <2>2
<1> HIDE DEF g, d
<1>7. \A p \in DOMAIN g : g[p] \in Nat
  BY <1>5, <1>6 DEF Owned
<1>8. \A p \in DOMAIN g : p \in tmp \/ \E q \in DOMAIN d : p \in {d[q].cell, d[q].name}
  <2> SUFFICES ASSUME NEW p \in DOMAIN g, p \notin tmp
               PROVE  \E q \in DOMAIN d : p \in {d[q].cell, d[q].name}
    OBVIOUS
  <2>1. PICK q \in DOMAIN e : p \in {e[q].cell, e[q].name}
    BY <1>5 DEF Owned
  <2>2. p # nullptr
    BY <1>5 DEF Owned
  <2>3. q # s
    BY <2>1, <2>2 DEF Void
  <2>4. QED BY <1>1, <2>1, <2>3
<1>9. \A q \in DOMAIN e :
         /\ e[q].cell # nullptr => /\ e[q].cell \in DOMAIN g \ tmp
                                   /\ g[e[q].cell] = Cardinality(Sharers(d, e[q].cell))
         /\ e[q].name # nullptr => e[q].name \in DOMAIN g \ tmp /\ e[q].cell # nullptr
  <2> SUFFICES ASSUME NEW q \in DOMAIN e
               PROVE  /\ e[q].cell # nullptr =>
                            /\ e[q].cell \in DOMAIN g \ tmp
                            /\ g[e[q].cell] = Cardinality(Sharers(d, e[q].cell))
                      /\ e[q].name # nullptr => e[q].name \in DOMAIN g \ tmp /\ e[q].cell # nullptr
    OBVIOUS
  <2>1. e[q].name # nullptr => e[q].name \in DOMAIN h \ tmp /\ e[q].cell # nullptr
    BY DEF Owned
  <2>2. e[q].cell # nullptr => /\ e[q].cell \in DOMAIN h \ tmp
                               /\ h[e[q].cell] = Cardinality(Sharers(e, e[q].cell))
    BY DEF Owned
  <2>3. CASE e[q].cell = c
    BY <1>5, <1>6, <2>1, <2>2, <2>3
  <2>4. CASE e[q].cell # c
    BY <1>3, <1>5, <2>1, <2>2, <2>4
  <2>5. QED BY <2>3, <2>4
<1>10. \A q, p \in DOMAIN d :
          /\ d[q].cell # nullptr /\ d[q].cell = d[p].cell => d[q].name = d[p].name
          /\ d[q].name # nullptr /\ d[q].name = d[p].name => d[q].cell = d[p].cell
          /\ d[q].name # nullptr => d[q].name # d[p].cell
  BY <1>1 DEF Owned
<1>11. \A q \in DOMAIN d : \E p \in DOMAIN e : d[q] = e[p]
  BY <1>1
<1>12. Owned(g, d, tmp)
  BY <1>1, <1>5, <1>7, <1>8, <1>9, <1>10, <1>11 DEF Owned
<1>13. QED BY <1>12 DEF g, d

\* An entry with a count of its own and, if it has a name, with one that was
\* not yet an entry's.
LEMMA NewKeeps ==
  ASSUME NEW h, NEW e, NEW tmp, Owned(h, e, tmp), NEW s \in DOMAIN e, Void(e[s]),
         NEW o, o.cell # nullptr, o.cell \notin DOMAIN h, o.name = nullptr \/ o.name \in tmp
  PROVE  Owned(With(h, o.cell, 1), [e EXCEPT ![s] = o], tmp \ {o.name})
<1> DEFINE c == o.cell
           g == With(h, c, 1)
           d == [e EXCEPT ![s] = o]
           rest == tmp \ {o.name}
<1>1. DOMAIN d = DOMAIN e /\ d[s] = o /\ \A q \in DOMAIN e : q # s => d[q] = e[q]
  BY SharersOfChanged
<1>2. \A q \in DOMAIN e : e[q].cell # c /\ e[q].name # c
  BY DEF Owned
<1>3. Sharers(d, c) = {s}
  <2>1. Sharers(d, c) = Sharers(e, c) \cup {s} /\ Sharers(e, c) = {}
    BY <1>2, SharersOfChanged DEF Sharers
  <2>2. QED BY <2>1
<1>4. \A p : p # c /\ p # nullptr => Sharers(d, p) = Sharers(e, p)
  <2>1. \A p : p # c => Sharers(d, p) = Sharers(e, p) \ {s}
    BY SharersOfChanged
  <2>2. \A p : p # nullptr => s \notin Sharers(e, p)
    BY DEF Sharers, Void
  <2>3. QED BY <2>1, <2>2
<1>5. /\ DOMAIN g = DOMAIN h \cup {c} /\ g[c] = 1
      /\ \A q \in DOMAIN h : q # c /\ g[q] = h[q]
  <2>1. /\ DOMAIN g = DOMAIN h \cup {c} /\ g[c] = 1
        /\ \A q \in DOMAIN h \ {c} : g[q] = h[q]
    <3> HIDE DEF c
    <3>1. QED BY DEF With
  <2> HIDE DEF g, d
  <2>2. QED BY <2>1
<1>6. g[c] = Cardinality(Sharers(d, c)) /\ g[c] \in Nat
  <2>1. Cardinality({s}) = 1
    BY FS_Singleton
  <2> HIDE DEF c, g, d
  <2>2. QED BY <1>3, <1>5, <2>1
<1> HIDE DEF g, d
<1>7. \A p \in DOMAIN g : g[p] \in Nat
  BY <1>5, <1>6 DEF Owned
<1>8. IsFiniteSet(DOMAIN g)
  BY <1>5, FS_AddElement DEF Owned
<1>9. \A p \in DOMAIN g : p \in rest \/ \E q \in DOMAIN d : p \in {d[q].cell, d[q].name}
  <2> SUFFICES ASSUME NEW p \in DOMAIN g, p \notin rest
               PROVE  \E q \in DOMAIN d : p \in {d[q].cell, d[q].name}
    OBVIOUS
  <2>1. CASE p = c \/ p = o.name
    BY <1>1, <2>1
  <2>2. CASE p # c /\ p # o.name
    <3>1. p \in DOMAIN h /\ p \notin tmp /\ p # nullptr
      BY <1>5, <2>2 DEF Owned
    <3>2. PICK q \in DOMAIN e : p \in {e[q].cell, e[q].name}
      BY <3>1 DEF Owned
    <3>3. q # s
      BY <3>1, <3>2 DEF Void
    <3>4. QED BY <1>1, <3>2, <3>3
  <2>3. QED BY <2>1, <2>2
<1>10. \A q \in DOMAIN d :
         /\ d[q].cell # nullptr => /\ d[q].cell \in DOMAIN g \ rest
                                   /\ g[d[q].cell] = Cardinality(Sharers(d, d[q].cell))
         /\ d[q].name # nullptr => d[q].name \in DOMAIN g \ rest /\ d[q].cell # nullptr
  <2>1. ASSUME NEW q \in DOMAIN e, q # s
        PROVE  /\ e[q].cell # nullptr =>
                     /\ e[q].cell \in DOMAIN g \ rest
                     /\ g[e[q].cell] = Cardinality(Sharers(d, e[q].cell))
               /\ e[q].name # nullptr => e[q].name \in DOMAIN g \ rest /\ e[q].cell # nullptr
    <3>1. e[q].name # nullptr => e[q].name \in DOMAIN h \ tmp /\ e[q].cell # nullptr
      BY DEF Owned
    <3>2. e[q].cell # nullptr => /\ e[q].cell \in DOMAIN h \ tmp
                                 /\ h[e[q].cell] = Cardinality(Sharers(e, e[q].cell))
      BY DEF Owned
    <3>3. QED BY <1>2, <1>4, <1>5, <3>1, <3>2
  <2>2. o.name # nullptr => o.name \in DOMAIN g \ rest
    BY <1>5 DEF Owned
  <2>3. c \in DOMAIN g \ rest
    BY <1>5 DEF Owned
  <2>4. QED BY <1>1, <1>6, <2>1, <2>2, <2>3
<1>11. \A q, p \in DOMAIN d :
          /\ d[q].cell # nullptr /\ d[q].cell = d[p].cell => d[q].name = d[p].name
          /\ d[q].name # nullptr /\ d[q].name = d[p].name => d[q].cell = d[p].cell
          /\ d[q].name # nullptr => d[q].name # d[p].cell
  <2>1. \A q \in DOMAIN e : /\ e[q].name # nullptr => e[q].name # o.name
                            /\ o.name # nullptr => o.name # e[q].cell
    BY DEF Owned
  <2>2. o.name # nullptr => o.name # c
    BY DEF Owned
  <2>3. \A q, p \in DOMAIN e :
          /\ e[q].cell # nullptr /\ e[q].cell = e[p].cell => e[q].name = e[p].name
          /\ e[q].name # nullptr /\ e[q].name = e[p].name => e[q].cell = e[p].cell
          /\ e[q].name # nullptr => e[q].name # e[p].cell
    BY DEF Owned
  <2>4. QED BY <1>1, <1>2, <2>1, <2>2, <2>3
<1>12. nullptr \notin DOMAIN g /\ rest \subseteq DOMAIN g /\ IsFiniteSet(DOMAIN d)
  BY <1>1, <1>5 DEF Owned
<1>13. Owned(g, d, rest)
  <2> HIDE DEF rest, c
  <2>1. QED BY <1>7, <1>8, <1>9, <1>10, <1>11, <1>12 DEF Owned
<1>14. QED BY <1>13 DEF g, d

\* A lookup takes a block.
LEMMA TakeKeeps ==
  ASSUME NEW h, NEW e, NEW tmp, Owned(h, e, tmp), NEW p, p # nullptr, p \notin DOMAIN h
  PROVE  Owned(With(h, p, 0), e, tmp \cup {p})
<1> DEFINE g == With(h, p, 0)
<1>1. /\ DOMAIN g = DOMAIN h \cup {p} /\ g[p] = 0
      /\ \A q \in DOMAIN h : q # p /\ g[q] = h[q]
  <2>1. /\ DOMAIN g = DOMAIN h \cup {p} /\ g[p] = 0
        /\ \A q \in DOMAIN h \ {p} : g[q] = h[q]
    BY DEF With
  <2> HIDE DEF g
  <2>2. QED BY <2>1
<1> HIDE DEF g
<1>2. IsFiniteSet(DOMAIN g)
  BY <1>1, FS_AddElement DEF Owned
<1>3. Owned(g, e, tmp \cup {p})
  BY <1>1, <1>2 DEF Owned
<1>4. QED BY <1>3 DEF g

\* A lookup gives blocks back.
LEMMA GiveKeeps ==
  ASSUME NEW h, NEW e, NEW tmp, Owned(h, e, tmp), NEW B, B \cap DOMAIN h \subseteq tmp
  PROVE  Owned(Without(h, B), e, tmp \ B)
<1> DEFINE g == Without(h, B)
<1>1. DOMAIN g = DOMAIN h \ B /\ \A q \in DOMAIN h \ B : g[q] = h[q]
  BY DEF Without
<1> HIDE DEF g
<1>2. IsFiniteSet(DOMAIN g)
  BY <1>1, FS_Subset DEF Owned
<1>3. Owned(g, e, tmp \ B)
  BY <1>1, <1>2 DEF Owned
<1>4. QED BY <1>3 DEF g

\* An assignment destroys what was there and copies.
LEMMA AssignKeeps ==
  ASSUME NEW h, NEW e, NEW tmp, Owned(h, e, tmp), NEW s \in DOMAIN e, NEW r \in DOMAIN e,
         r # s, e[s].cell # nullptr, e[r].cell # nullptr
  PROVE  Owned(Assigned(h, e[s], e[r]), [e EXCEPT ![s] = e[r]], tmp)
<1> DEFINE d == [e EXCEPT ![s] = NoObject]
           g == Destroyed(h, e[s])
<1>1. Void(NoObject)
  BY DEF Void, NoObject
<1>2. Owned(g, d, tmp)
  BY <1>1, DestroyKeeps
<1>3. DOMAIN d = DOMAIN e /\ d[s] = NoObject /\ d[r] = e[r]
  BY SharersOfChanged
<1>4. [d EXCEPT ![s] = e[r]] = [e EXCEPT ![s] = e[r]]
  OBVIOUS
<1>5. Owned([g EXCEPT ![d[r].cell] = @ + 1], [d EXCEPT ![s] = d[r]], tmp)
  <2> HIDE DEF g, d
  <2>1. QED BY <1>1, <1>2, <1>3, CopyKeeps
<1>6. QED BY <1>3, <1>4, <1>5 DEF Assigned

\* FromDirectoryEntry: a new entry takes the place of an old one, by way of a
\* temporary, which is the slot nullptr.
LEMMA ReplaceKeeps ==
  ASSUME NEW h, NEW e, NEW tmp, Owned(h, e, tmp),
         NEW s \in DOMAIN e, s # nullptr, nullptr \in DOMAIN e,
         e[nullptr] = NoObject, e[s].cell # nullptr,
         NEW o, o.cell # nullptr, o.cell \notin DOMAIN h, o.name = nullptr \/ o.name \in tmp
  PROVE  Owned(Replaced(h, e[s], o), [e EXCEPT ![s] = o], tmp \ {o.name})
<1> DEFINE rest == tmp \ {o.name}
           h1 == With(h, o.cell, 1)
           e1 == [e EXCEPT ![nullptr] = o]
           h2 == Assigned(h1, e1[s], e1[nullptr])
           e2 == [e1 EXCEPT ![s] = e1[nullptr]]
           h3 == Destroyed(h2, e2[nullptr])
           e3 == [e2 EXCEPT ![nullptr] = NoObject]
<1>1. Void(NoObject)
  BY DEF Void, NoObject
<1>2. Owned(h1, e1, rest)
  BY <1>1, NewKeeps
<1>3. DOMAIN e1 = DOMAIN e /\ e1[nullptr] = o /\ e1[s] = e[s]
  BY SharersOfChanged
<1>4. Owned(h2, e2, rest)
  <2> HIDE DEF h1, e1, rest
  <2>1. QED BY <1>2, <1>3, AssignKeeps
<1>5. DOMAIN e2 = DOMAIN e /\ e2[nullptr] = o
  BY <1>3
<1>6. Owned(h3, e3, rest)
  <2> HIDE DEF h2, e2, rest
  <2>1. QED BY <1>1, <1>4, <1>5, DestroyKeeps
<1>7. e3 = [e EXCEPT ![s] = o]
  <2>1. e3 = [q \in DOMAIN e |-> IF q = nullptr THEN NoObject ELSE IF q = s THEN o ELSE e[q]]
    BY <1>3
  <2>2. [e EXCEPT ![s] = o] = [q \in DOMAIN e |-> IF q = s THEN o ELSE e[q]]
    OBVIOUS
  <2>3. QED BY <2>1, <2>2
<1>8. h3 = Replaced(h, e[s], o)
  BY <1>3, <1>5 DEF Replaced
<1>9. QED BY <1>6, <1>7, <1>8

-----------------------------------------------------------------------------
(* Entries, frames and blocks of the threads. *)

\* Every variable of a thread has a slot, and so has the temporary.
LEMMA EntryOf ==
  ASSUME NEW ob, NEW t \in Threads, NEW o \in Variables(t)
  PROVE  /\ <<t, o>> \in DOMAIN Entries(ob) /\ <<t, o>> # nullptr
         /\ Entries(ob)[<<t, o>>] = ob[t][o]
         /\ nullptr \in DOMAIN Entries(ob) /\ Entries(ob)[nullptr] = NoObject
<1>1. <<t, o>> \in Pairs
  BY DEF Pairs
<1>2. <<t, o>> # nullptr
  BY DEF nullptr
<1>3. <<t, o>>[1] = t /\ <<t, o>>[2] = o
  OBVIOUS
<1>4. QED BY <1>1, <1>2, <1>3 DEF Entries

\* The entries when thread t assigned to its variable o.
Updated(ob, t, o, v) == [ob EXCEPT ![t][o] = v]

\* A variable that is assigned is a slot that changes.
LEMMA EntriesChanged ==
  ASSUME NEW ob, NEW t \in Threads, NEW o \in Variables(t), NEW v,
         DOMAIN ob = Threads, \A u \in Threads : DOMAIN ob[u] = Variables(u)
  PROVE  /\ Entries(Updated(ob, t, o, v)) = [Entries(ob) EXCEPT ![<<t, o>>] = v]
         /\ DOMAIN Updated(ob, t, o, v) = Threads
         /\ \A u \in Threads : DOMAIN Updated(ob, t, o, v)[u] = Variables(u)
         /\ Updated(ob, t, o, v)[t][o] = v
         /\ \A q \in Variables(t) : q # o => Updated(ob, t, o, v)[t][q] = ob[t][q]
         /\ \A u \in Threads : u # t => Updated(ob, t, o, v)[u] = ob[u]
<1> DEFINE changed == Updated(ob, t, o, v)
<1>1. /\ DOMAIN changed = Threads
      /\ changed[t] = [ob[t] EXCEPT ![o] = v]
      /\ \A u \in Threads : u # t => changed[u] = ob[u]
  BY DEF Updated
<1>2. /\ DOMAIN changed[t] = Variables(t) /\ changed[t][o] = v
      /\ \A q \in Variables(t) : q # o => changed[t][q] = ob[t][q]
  <2> HIDE DEF changed
  <2>1. QED BY <1>1
<1> HIDE DEF changed
<1>3. \A s \in Pairs : changed[s[1]][s[2]] = IF s = <<t, o>> THEN v ELSE ob[s[1]][s[2]]
  <2> SUFFICES ASSUME NEW u \in Threads, NEW q \in Variables(u)
               PROVE  changed[u][q] = IF <<u, q>> = <<t, o>> THEN v ELSE ob[u][q]
    BY DEF Pairs
  <2>1. CASE u # t
    BY <1>1, <2>1
  <2>2. CASE u = t /\ q # o
    BY <1>2, <2>2
  <2>3. CASE u = t /\ q = o
    BY <1>2, <2>3
  <2>4. QED BY <2>1, <2>2, <2>3
<1>4. Entries(changed) = [Entries(ob) EXCEPT ![<<t, o>>] = v]
  <2>1. <<t, o>> # nullptr
    BY DEF nullptr
  <2>2. Entries(changed) =
          [s \in Pairs \cup {nullptr} |-> IF s = <<t, o>> THEN v ELSE Entries(ob)[s]]
    BY <1>3, <2>1 DEF Entries
  <2>3. [Entries(ob) EXCEPT ![<<t, o>>] = v] =
          [s \in Pairs \cup {nullptr} |-> IF s = <<t, o>> THEN v ELSE Entries(ob)[s]]
    BY DEF Entries
  <2>4. QED BY <2>2, <2>3
<1>5. QED
  BY <1>1, <1>2, <1>4 DEF changed

\* There are finitely many variables.
LEMMA SlotsFinite == IsFiniteSet(Pairs \cup {nullptr})
<1> DEFINE all == UNION {Objects[t] : t \in Threads}
           named == all \cup {"current"}
<1>1. IsFiniteSet(Threads \X named)
  <2>1. IsFiniteSet(all) /\ IsFiniteSet(Threads)
    BY ObjectsAssumption
  <2> HIDE DEF all
  <2>2. IsFiniteSet(named)
    BY <2>1, FS_AddElement
  <2> HIDE DEF named
  <2>3. QED BY <2>1, <2>2, FS_Product
<1>2. Pairs \subseteq Threads \X named
  <2>1. ASSUME NEW t \in Threads, NEW o \in Variables(t)
        PROVE  <<t, o>> \in Threads \X named
    BY DEF Variables
  <2> HIDE DEF named
  <2>2. QED BY <2>1 DEF Pairs
<1>3. IsFiniteSet(Pairs)
  <2> HIDE DEF named
  <2>1. QED BY <1>1, <1>2, FS_Subset
<1>4. QED BY <1>3, FS_AddElement

\* The blocks of the other threads' lookups.
Others(t) == UNION {Taken(frame[u]) : u \in Threads \ {t}}

\* The blocks of all lookups are those of one thread and those of the others.
LEMMA Together ==
  ASSUME NEW t \in Threads
  PROVE  Temporaries = Others(t) \cup Taken(frame[t])
BY DEF Temporaries, Others

\* The others did not take what a thread took.
LEMMA OthersApart ==
  ASSUME NEW t \in Threads, \A u \in Threads : Placed(u)
  PROVE  /\ \A p \in Others(t) : p # nullptr /\ p[1] # t
         /\ \A p \in Taken(frame[t]) : p # nullptr /\ p[1] = t
<1>1. ASSUME NEW u \in Threads, NEW p \in Taken(frame[u])
      PROVE  p # nullptr /\ p[1] = u
  <2>1. CASE pc[u] = "idle"
    BY <1>1, <2>1 DEF Placed, NoFrame, Taken
  <2>2. CASE pc[u] # "idle"
    BY <1>1, <2>2 DEF Placed, Lookup, Took, Taken
  <2>3. QED BY <2>1, <2>2
<1>2. QED BY <1>1 DEF Others

\* A frame without blocks.
LEMMA NoFrameFields ==
  /\ DOMAIN NoFrame = FrameFields /\ NoFrame.path = nullptr /\ NoFrame.ffname = nullptr
  /\ NoFrame.buffer = nullptr /\ NoFrame.list = nullptr /\ Taken(NoFrame) = {}
BY DEF NoFrame, FrameFields, Taken

-----------------------------------------------------------------------------
(* Steps of one thread. *)

\* A step of t leaves the other threads and keeps its own lookup in order.
Kept(t) ==
    /\ Shapes' /\ Placed(t)'
    /\ \A u \in Threads \ {t} :
          pc'[u] = pc[u] /\ frame'[u] = frame[u] /\ object'[u] = object[u]
    /\ Owned(heap', Entries(object'), Others(t) \cup Taken(frame'[t]))

\* Then the invariant holds for all of them.
LEMMA KeptTogether ==
  ASSUME NEW t \in Threads, FilesInv, Kept(t), Numbered'
  PROVE  FilesInv'
<1>1. \A u \in Threads : Placed(u)'
  <2>1. ASSUME NEW u \in Threads, u # t PROVE Placed(u)'
    <3>1. Placed(u) /\ pc'[u] = pc[u] /\ frame'[u] = frame[u] /\ object'[u] = object[u]
      BY <2>1 DEF FilesInv, Kept
    <3>2. QED BY <3>1 DEF Placed, Lookup, Live, Current, Cluster, Slot
  <2>2. QED BY <2>1 DEF Kept
<1>2. Temporaries' = Others(t) \cup Taken(frame'[t])
  BY DEF Kept, Temporaries, Others
<1>3. Owned(heap, Entries(object), Temporaries)'
  BY <1>2 DEF Kept
<1>4. QED BY <1>1, <1>3 DEF FilesInv, Kept

\* What FindEntry and GetEntryInfo do when they are done with a name.
LEMMA LeaveKeeps ==
  ASSUME Shapes, \A u \in Threads : Placed(u), NEW t \in Threads, pc[t] # "idle",
         NEW h, NEW current, NEW status, Leave(t, h, current, status),
         current.cell # nullptr,
         current.dir => current.cluster \in DOMAIN Volumes[frame[t].volume].clusters,
         Owned(h, [Entries(object) EXCEPT ![<<t, "current">>] = current],
               Others(t) \cup ({frame[t].path, frame[t].ffname} \ {nullptr}))
  PROVE  Kept(t)
<1>0. "current" \in Variables(t) /\ Objects[t] \subseteq Variables(t)
  BY DEF Variables
<1> DEFINE f == frame[t]
           mine == {f.path, f.ffname} \ {nullptr}
           c == <<t, "current">>
           e == [Entries(object) EXCEPT ![c] = current]
           ob1 == Updated(object, t, "current", current)
<1>1. Lookup(t)
  BY DEF Placed
<1>2. \A p \in Others(t) : p # nullptr /\ p[1] # t
  BY OthersApart
<1>3. f.path # nullptr /\ f.path[1] = t /\ (f.ffname # nullptr => f.ffname[1] = t)
      /\ f.path # f.ffname
  BY <1>1 DEF Lookup, Took
<1>4. /\ Entries(ob1) = e
      /\ DOMAIN ob1 = Threads /\ \A u \in Threads : DOMAIN ob1[u] = Variables(u)
      /\ ob1[t]["current"] = current
      /\ \A q \in Variables(t) : q # "current" => ob1[t][q] = object[t][q]
      /\ \A u \in Threads : u # t => ob1[u] = object[u]
  <2>1. DOMAIN object = Threads /\ \A u \in Threads : DOMAIN object[u] = Variables(u)
    BY DEF Shapes
  <2>2. QED BY <1>0, <2>1, EntriesChanged
<1>5. DOMAIN frame = Threads /\ DOMAIN pc = Threads /\ DOMAIN object = Threads
      /\ DOMAIN object[t] = Variables(t)
  BY DEF Shapes
<1>6. f.info \in Objects[t] /\ f.info # "current" /\ object[t][f.info].cell # nullptr
  BY <1>1, ObjectsAssumption DEF Lookup, Live
<1>7. CASE status = "Ok" /\ ~LastName(t)
  <2> DEFINE next == [NoFrame EXCEPT !.path = f.path, !.info = f.info, !.volume = f.volume,
                                     !.names = Tail(f.names)]
  <2>1. /\ heap' = Without(h, {f.ffname})
        /\ object' = ob1
        /\ frame' = [frame EXCEPT ![t] = next]
        /\ pc' = [pc EXCEPT ![t] = "open"]
    BY <1>7 DEF Leave, Updated
  <2>2. /\ DOMAIN next = FrameFields /\ next.path = f.path /\ next.info = f.info
        /\ next.volume = f.volume /\ next.ffname = nullptr /\ next.buffer = nullptr
        /\ next.list = nullptr
    BY DEF NoFrame, FrameFields
  <2>3. pc'[t] = "open" /\ frame'[t] = next /\ object'[t] = ob1[t]
    BY <1>5, <2>1
  <2>4. Taken(frame'[t]) = {f.path}
    BY <1>3, <2>2, <2>3 DEF Taken
  <2>5. Owned(heap', Entries(object'), (Others(t) \cup mine) \ {f.ffname})
    <3>1. Owned(h, e, Others(t) \cup mine)
      OBVIOUS
    <3>2. {f.ffname} \cap DOMAIN h \subseteq Others(t) \cup mine
      BY <3>1 DEF Owned
    <3> HIDE DEF e, mine, ob1
    <3>3. QED BY <1>4, <2>1, <3>1, <3>2, GiveKeeps
  <2>6. (Others(t) \cup mine) \ {f.ffname} = Others(t) \cup Taken(frame'[t])
    BY <1>2, <1>3, <2>4
  <2>7. \A u \in Threads \ {t} :
           pc'[u] = pc[u] /\ frame'[u] = frame[u] /\ object'[u] = object[u]
    BY <1>4, <1>5, <2>1
  <2>8. Shapes'
    <3>1. DOMAIN frame' = Threads /\ DOMAIN pc' = Threads
      BY <1>5, <2>1
    <3> HIDE DEF ob1
    <3>2. QED BY <1>4, <2>1, <3>1 DEF Shapes
  <2>9. Placed(t)'
    <3> HIDE DEF next, ob1
    <3>1. Lookup(t)'
      BY <1>0, <1>1, <1>4, <1>6, <2>2, <2>3 DEF Lookup, Live, Current
    <3>2. QED BY <2>3, <3>1 DEF Placed, Labels
  <2>10. QED BY <2>5, <2>6, <2>7, <2>8, <2>9 DEF Kept
<1>8. CASE ~(status = "Ok" /\ ~LastName(t))
  <2> DEFINE i == <<t, f.info>>
             done == Without(h, {f.path, f.ffname})
             h2 == IF LastName(t) THEN Assigned(done, object[t][f.info], current) ELSE done
             entry == IF LastName(t) THEN current ELSE object[t][f.info]
             e2 == [e EXCEPT ![i] = entry]
             ob2 == Updated(ob1, t, f.info, entry)
             ob3 == Updated(ob2, t, "current", NoObject)
  <2>1. /\ heap' = Destroyed(h2, current)
        /\ object' = [object EXCEPT ![t]["current"] = NoObject,
                              ![t][f.info] = IF LastName(t) THEN current ELSE @]
        /\ frame' = [frame EXCEPT ![t] = NoFrame]
        /\ pc' = [pc EXCEPT ![t] = "idle"]
    BY <1>8 DEF Leave
  <2>2. /\ Entries(ob2) = e2
        /\ DOMAIN ob2 = Threads
        /\ \A u \in Threads : DOMAIN ob2[u] = Variables(u)
        /\ \A u \in Threads : u # t => ob2[u] = ob1[u]
    <3>1. f.info \in Variables(t)
      BY <1>0, <1>6
    <3>2. DOMAIN ob1 = Threads /\ \A u \in Threads : DOMAIN ob1[u] = Variables(u)
      BY <1>4
    <3>3. Entries(ob1) = e
      BY <1>4
    <3> DEFINE k == f.info
    <3>4. \A w : /\ Entries(Updated(ob1, t, k, w)) = [Entries(ob1) EXCEPT ![<<t, k>>] = w]
                 /\ DOMAIN Updated(ob1, t, k, w) = Threads
                 /\ \A u \in Threads : DOMAIN Updated(ob1, t, k, w)[u] = Variables(u)
                 /\ \A u \in Threads : u # t => Updated(ob1, t, k, w)[u] = ob1[u]
      <4>1. k \in Variables(t)
        BY <3>1
      <4> HIDE DEF ob1, k
      <4>2. QED BY <3>2, <4>1, EntriesChanged
    <3>5. /\ Entries(ob2) = [Entries(ob1) EXCEPT ![i] = entry]
          /\ DOMAIN ob2 = Threads
          /\ \A u \in Threads : DOMAIN ob2[u] = Variables(u)
          /\ \A u \in Threads : u # t => ob2[u] = ob1[u]
      BY <3>4
    <3> HIDE DEF ob1, e, entry, f, i
    <3>6. QED BY <3>3, <3>5
  <2>3. /\ Entries(ob3) = [e2 EXCEPT ![c] = NoObject]
        /\ DOMAIN ob3 = Threads
        /\ \A u \in Threads : DOMAIN ob3[u] = Variables(u)
        /\ ob3[t]["current"] = NoObject
        /\ \A u \in Threads : u # t => ob3[u] = ob2[u]
    <3> HIDE DEF ob2, e2
    <3>1. QED BY <1>0, <2>2, EntriesChanged
  <2>4. object' = ob3
    <3> DEFINE row == [o \in Variables(t) |->
                          IF o = f.info THEN entry ELSE IF o = "current" THEN NoObject
                          ELSE object[t][o]]
    <3>1. object' = [object EXCEPT ![t] = row]
      BY <1>5, <1>6, <2>1 DEF Variables
    <3>2. ob3 = [object EXCEPT ![t] = row]
      BY <1>5, <1>6 DEF Updated, Variables
    <3>3. QED BY <3>1, <3>2
  <2>5. Owned(done, e, (Others(t) \cup mine) \ {f.path, f.ffname})
    <3>1. Owned(h, e, Others(t) \cup mine)
      OBVIOUS
    <3>2. {f.path, f.ffname} \cap DOMAIN h \subseteq Others(t) \cup mine
      BY <3>1 DEF Owned
    <3> HIDE DEF e, mine
    <3>3. QED BY <3>1, <3>2, GiveKeeps
  <2>6. (Others(t) \cup mine) \ {f.path, f.ffname} = Others(t)
    BY <1>2, <1>3
  <2>7. i \in DOMAIN e /\ c \in DOMAIN e /\ i # c /\ e[c] = current
        /\ e[i] = object[t][f.info] /\ e[i].cell # nullptr
    <3>1. i \in DOMAIN Entries(object) /\ c \in DOMAIN Entries(object)
          /\ Entries(object)[i] = object[t][f.info]
      BY <1>0, <1>6, EntryOf
    <3>2. i # c
      BY <1>6
    <3>3. QED BY <1>6, <3>1, <3>2
  <2>8. Owned(h2, e2, Others(t))
    <3> HIDE DEF e, done
    <3>1. Owned(done, e, Others(t))
      BY <2>5, <2>6
    <3>2. CASE LastName(t)
      <4>1. Owned(Assigned(done, e[i], e[c]), [e EXCEPT ![i] = e[c]], Others(t))
        BY <2>7, <3>1, AssignKeeps
      <4>2. QED BY <2>7, <3>2, <4>1
    <3>3. CASE ~LastName(t)
      <4>1. e2 = e
        <5>1. e = [s \in DOMAIN e |-> e[s]]
          BY DEF e
        <5>2. QED BY <2>7, <3>3, <5>1
      <4>2. QED BY <3>1, <3>3, <4>1
    <3>4. QED BY <3>2, <3>3
  <2>9. c \in DOMAIN e2 /\ e2[c] = current
    <3> HIDE DEF e
    <3>1. QED BY <2>7
  <2>10. Owned(heap', Entries(object'), Others(t))
    <3>1. Void(NoObject)
      BY DEF Void, NoObject
    <3> HIDE DEF h2, e2, ob3
    <3>2. Owned(Destroyed(h2, e2[c]), [e2 EXCEPT ![c] = NoObject], Others(t))
      BY <2>8, <2>9, <3>1, DestroyKeeps
    <3>3. QED BY <2>1, <2>3, <2>4, <2>9, <3>2
  <2>11. pc'[t] = "idle" /\ frame'[t] = NoFrame /\ object'[t]["current"] = NoObject
    <3> HIDE DEF ob3
    <3>1. QED BY <1>5, <2>1, <2>3, <2>4
  <2>12. Placed(t)'
    BY <2>11 DEF Placed, Labels, Live, NoObject
  <2>13. \A u \in Threads \ {t} :
           pc'[u] = pc[u] /\ frame'[u] = frame[u] /\ object'[u] = object[u]
    <3> HIDE DEF ob1, ob2, ob3
    <3>1. QED BY <1>4, <1>5, <2>1, <2>2, <2>3, <2>4
  <2>14. Shapes'
    <3>1. DOMAIN frame' = Threads /\ DOMAIN pc' = Threads
      BY <1>5, <2>1
    <3> HIDE DEF ob3
    <3>2. QED BY <2>3, <2>4, <3>1 DEF Shapes
  <2>15. QED BY <2>10, <2>11, <2>12, <2>13, <2>14, NoFrameFields DEF Kept
<1>9. QED BY <1>7, <1>8

\* What a thread owns and its lookup took, before its step.
LEMMA OwnedBefore ==
  ASSUME FilesInv, NEW t \in Threads
  PROVE  /\ Owned(heap, Entries(object), Others(t) \cup Taken(frame[t]))
         /\ IsFiniteSet(DOMAIN heap) /\ nullptr \notin Others(t) \cup Taken(frame[t])
BY Together DEF FilesInv, Owned

\* A step that changes no entry and takes and gives back no block.
LEMMA StayKeeps ==
  ASSUME FilesInv, NEW t \in Threads, UNCHANGED <<heap, object>>,
         DOMAIN pc' = Threads, DOMAIN frame' = Threads,
         \A u \in Threads \ {t} : pc'[u] = pc[u] /\ frame'[u] = frame[u],
         Taken(frame'[t]) = Taken(frame[t]), Placed(t)'
  PROVE  Kept(t)
<1>1. Shapes'
  BY DEF FilesInv, Shapes
<1>2. Owned(heap', Entries(object'), Others(t) \cup Taken(frame'[t]))
  BY OwnedBefore
<1>3. QED BY <1>1, <1>2 DEF Kept

\* A step of a thread in no lookup that changes one of its variables.
LEMMA VariableKeeps ==
  ASSUME FilesInv, NEW t \in Threads, NEW o \in Objects[t], pc[t] = "idle", NEW entry,
         object' = Updated(object, t, o, entry), UNCHANGED <<pc, frame>>,
         Owned(heap', [Entries(object) EXCEPT ![<<t, o>>] = entry],
               Others(t) \cup Taken(frame[t]))
  PROVE  Kept(t)
<1>1. o \in Variables(t) /\ "current" \in Variables(t) /\ o # "current"
  BY ObjectsAssumption DEF Variables
<1>2. DOMAIN object = Threads /\ \A u \in Threads : DOMAIN object[u] = Variables(u)
  BY DEF FilesInv, Shapes
<1>3. /\ Entries(object') = [Entries(object) EXCEPT ![<<t, o>>] = entry]
      /\ DOMAIN object' = Threads
      /\ \A u \in Threads : DOMAIN object'[u] = Variables(u)
      /\ object'[t]["current"] = object[t]["current"]
      /\ \A u \in Threads : u # t => object'[u] = object[u]
  BY <1>1, <1>2, EntriesChanged
<1>4. Shapes'
  BY <1>3 DEF FilesInv, Shapes
<1>5. Placed(t)
  BY DEF FilesInv
<1>6. Placed(t)'
  BY <1>3, <1>5 DEF Placed, Live
<1>7. Owned(heap', Entries(object'), Others(t) \cup Taken(frame'[t]))
  BY <1>3
<1>8. QED BY <1>3, <1>4, <1>6, <1>7 DEF Kept

\* The caller constructs an entry.
LEMMA ConstructKeeps ==
  ASSUME FilesInv, NEW t \in Threads, NEW o \in Objects[t], Construct(t, o)
  PROVE  Kept(t)
<1> DEFINE cell == Fresh(heap, t, "count")
           entry == [NoObject EXCEPT !.cell = cell]
           tmp == Others(t) \cup Taken(frame[t])
           e == Entries(object)
           s == <<t, o>>
<1>1. /\ pc[t] = "idle" /\ object[t][o].cell = nullptr
      /\ heap' = With(heap, cell, 1)
      /\ object' = Updated(object, t, o, entry)
      /\ UNCHANGED <<pc, frame>>
  BY DEF Construct, Client, Idle, Live, Updated
<1>2. Owned(heap, e, tmp) /\ IsFiniteSet(DOMAIN heap) /\ nullptr \notin tmp
  BY OwnedBefore
<1>3. cell \notin DOMAIN heap /\ cell # nullptr
  BY <1>2, FreshIsFree DEF Took
<1>4. entry.cell = cell /\ entry.name = nullptr
  BY DEF NoObject
<1>5. s \in DOMAIN e /\ e[s] = object[t][o]
  BY EntryOf DEF Variables
<1>6. Void(e[s])
  BY <1>1, <1>2, <1>5 DEF Owned, Void
<1>7. Owned(heap', [e EXCEPT ![s] = entry], tmp)
  <2> HIDE DEF e, s, tmp, entry, cell
  <2>1. Owned(With(heap, entry.cell, 1), [e EXCEPT ![s] = entry], tmp \ {entry.name})
    BY <1>2, <1>3, <1>4, <1>5, <1>6, NewKeeps
  <2>2. tmp \ {entry.name} = tmp
    BY <1>2, <1>4
  <2>3. QED BY <1>1, <1>4, <2>1, <2>2
<1>8. QED
  <2> HIDE DEF entry
  <2>1. QED BY <1>1, <1>7, VariableKeeps

\* The caller destroys an entry.
LEMMA DestructKeeps ==
  ASSUME FilesInv, NEW t \in Threads, NEW o \in Objects[t], Destruct(t, o)
  PROVE  Kept(t)
<1> DEFINE tmp == Others(t) \cup Taken(frame[t])
           e == Entries(object)
           s == <<t, o>>
<1>1. /\ pc[t] = "idle" /\ object[t][o].cell # nullptr
      /\ heap' = Destroyed(heap, object[t][o])
      /\ object' = Updated(object, t, o, NoObject)
      /\ UNCHANGED <<pc, frame>>
  BY DEF Destruct, Client, Idle, Live, Updated
<1>2. Owned(heap, e, tmp)
  BY OwnedBefore
<1>3. s \in DOMAIN e /\ e[s] = object[t][o]
  BY EntryOf DEF Variables
<1>4. Owned(heap', [e EXCEPT ![s] = NoObject], tmp)
  <2>1. Void(NoObject)
    BY DEF Void, NoObject
  <2> HIDE DEF e, s, tmp
  <2>2. Owned(Destroyed(heap, e[s]), [e EXCEPT ![s] = NoObject], tmp)
    BY <1>1, <1>2, <1>3, <2>1, DestroyKeeps
  <2>3. QED BY <1>1, <1>3, <2>2
<1>5. QED BY <1>1, <1>4, VariableKeeps

\* The caller assigns one entry to another.
LEMMA CallerAssignKeeps ==
  ASSUME FilesInv, NEW t \in Threads, NEW o \in Objects[t], NEW right \in Objects[t],
         Assign(t, o, right)
  PROVE  Kept(t)
<1> DEFINE tmp == Others(t) \cup Taken(frame[t])
           e == Entries(object)
           s == <<t, o>>
           r == <<t, right>>
<1>1. /\ pc[t] = "idle" /\ object[t][o].cell # nullptr /\ object[t][right].cell # nullptr
      /\ o # right
      /\ heap' = Assigned(heap, object[t][o], object[t][right])
      /\ object' = Updated(object, t, o, object[t][right])
      /\ UNCHANGED <<pc, frame>>
  BY DEF Assign, Client, Idle, Live, Updated
<1>2. Owned(heap, e, tmp)
  BY OwnedBefore
<1>3. s \in DOMAIN e /\ e[s] = object[t][o] /\ r \in DOMAIN e /\ e[r] = object[t][right]
  BY EntryOf DEF Variables
<1>4. r # s
  BY <1>1
<1>5. Owned(heap', [e EXCEPT ![s] = e[r]], tmp)
  <2> HIDE DEF e, s, r, tmp
  <2>1. Owned(Assigned(heap, e[s], e[r]), [e EXCEPT ![s] = e[r]], tmp)
    BY <1>1, <1>2, <1>3, <1>4, AssignKeeps
  <2>2. QED BY <1>1, <1>3, <2>1
<1>6. QED BY <1>1, <1>3, <1>5, VariableKeeps

-----------------------------------------------------------------------------
(* The steps of a lookup. *)

\* A thread in a lookup, with what its directory holds.
LEMMA InLookup ==
  ASSUME FilesInv, NEW t \in Threads, pc[t] # "idle"
  PROVE  /\ Lookup(t) /\ DOMAIN frame[t] = FrameFields
         /\ frame[t].path \in Taken(frame[t])
         /\ Entries(object) = [Entries(object) EXCEPT ![<<t, "current">>] = Current(t)]
         /\ <<t, "current">> \in DOMAIN Entries(object)
         /\ Entries(object)[<<t, "current">>] = Current(t) /\ Current(t).cell # nullptr
<1>1. Lookup(t)
  BY DEF FilesInv, Placed
<1>2. /\ <<t, "current">> \in DOMAIN Entries(object)
      /\ Entries(object)[<<t, "current">>] = Current(t)
  BY EntryOf DEF Variables, Current
<1>3. Entries(object) = [s \in DOMAIN Entries(object) |-> Entries(object)[s]]
  BY DEF Entries
<1>4. Entries(object) = [Entries(object) EXCEPT ![<<t, "current">>] = Current(t)]
  <2> DEFINE e == Entries(object)
             c == <<t, "current">>
             cur == Current(t)
  <2>1. e = [s \in DOMAIN e |-> e[s]] /\ e[c] = cur
    BY <1>2, <1>3
  <2> HIDE DEF e, c, cur
  <2>2. e = [e EXCEPT ![c] = cur]
    BY <2>1
  <2>3. QED BY <2>2 DEF e, c, cur
<1>5. QED BY <1>1, <1>2, <1>4 DEF Lookup, Took, Taken, Live, Current

\* The clusters of a directory have slots, and directories among them.
LEMMA ClusterSlots ==
  ASSUME FilesInv, NEW t \in Threads, pc[t] \in {"read", "scan", "convert", "compare"}
  PROVE  /\ Len(Cluster(t)) \in Nat \ {0} /\ DOMAIN Cluster(t) = 1 .. Len(Cluster(t))
         /\ \A x \in DOMAIN Cluster(t) :
               Cluster(t)[x].kind = "entry" /\ Cluster(t)[x].dir =>
                  Cluster(t)[x].cluster \in DOMAIN Volumes[frame[t].volume].clusters
<1> DEFINE v == frame[t].volume
           c == Current(t).cluster
<1>1. v \in DOMAIN Volumes /\ c \in DOMAIN Volumes[v].clusters
  BY InLookup DEF Lookup
<1>2. Cluster(t) = Volumes[v].clusters[c]
  BY DEF Cluster
<1> HIDE DEF v, c
<1>3. /\ Len(Volumes[v].clusters[c]) \in Nat \ {0}
      /\ DOMAIN Volumes[v].clusters[c] = 1 .. Len(Volumes[v].clusters[c])
      /\ \A x \in DOMAIN Volumes[v].clusters[c] :
            Volumes[v].clusters[c][x].kind = "entry" /\ Volumes[v].clusters[c][x].dir =>
               Volumes[v].clusters[c][x].cluster \in DOMAIN Volumes[v].clusters
  BY <1>1, VolumesAssumption
<1>4. QED BY <1>2, <1>3 DEF v

\* FindEntry gives its buffer and its list back on every way out.
LEMMA ClosedKeeps ==
  ASSUME FilesInv, NEW t \in Threads, pc[t] # "idle"
  PROVE  Owned(Closed(t), Entries(object),
               Others(t) \cup ({frame[t].path, frame[t].ffname} \ {nullptr}))
<1> DEFINE f == frame[t]
           tmp == Others(t) \cup Taken(f)
           B == {f.buffer, f.list}
<1>1. Owned(heap, Entries(object), tmp)
  BY OwnedBefore
<1>2. B \cap DOMAIN heap \subseteq tmp
  BY <1>1 DEF Taken, Owned
<1>3. Owned(Without(heap, B), Entries(object), tmp \ B)
  <2> HIDE DEF tmp, B
  <2>1. QED BY <1>1, <1>2, GiveKeeps
<1>4. \A p \in Others(t) : p # nullptr /\ p[1] # t
  BY OthersApart DEF FilesInv
<1>5. /\ f.path # f.buffer /\ f.path # f.list
      /\ f.ffname # nullptr => f.ffname # f.buffer /\ f.ffname # f.list
      /\ f.buffer # nullptr => f.buffer[1] = t
      /\ f.list # nullptr => f.list[1] = t
  <2>1. /\ Took(t, "path", f.path)
        /\ f.ffname = nullptr \/ Took(t, "name", f.ffname)
        /\ f.buffer = nullptr \/ Took(t, "buffer", f.buffer)
        /\ f.list = nullptr \/ Took(t, "list", f.list)
    BY InLookup DEF Lookup
  <2> HIDE DEF f
  <2>2. QED BY <2>1 DEF Took
<1>6. tmp \ B = Others(t) \cup ({f.path, f.ffname} \ {nullptr})
  <2> HIDE DEF f
  <2>1. QED BY <1>4, <1>5 DEF Taken
<1>7. QED BY <1>3, <1>6 DEF Closed

\* A frame whose place in the directory changes.
LEMMA PlaceChanged ==
  ASSUME FilesInv, NEW t \in Threads, pc[t] # "idle", NEW g, DOMAIN g = FrameFields,
         \A n \in FrameFields \ {"x", "retried", "long", "exact"} : g[n] = frame[t][n],
         frame' = [frame EXCEPT ![t] = g], UNCHANGED <<heap, object>>,
         NEW label \in {"read", "scan", "convert", "compare"},
         pc' = [pc EXCEPT ![t] = label], Current(t).dir,
         label # "read" => g.x \in DOMAIN Cluster(t),
         label \in {"convert", "compare"} => Cluster(t)[g.x].kind = "entry"
  PROVE  Kept(t)
<1>1. DOMAIN pc = Threads /\ DOMAIN frame = Threads
  BY DEF FilesInv, Shapes
<1>2. /\ DOMAIN pc' = Threads /\ DOMAIN frame' = Threads
      /\ pc'[t] = label /\ frame'[t] = g
      /\ \A u \in Threads \ {t} : pc'[u] = pc[u] /\ frame'[u] = frame[u]
  BY <1>1
<1>3. /\ g.path = frame[t].path /\ g.ffname = frame[t].ffname /\ g.buffer = frame[t].buffer
      /\ g.list = frame[t].list /\ g.info = frame[t].info /\ g.volume = frame[t].volume
  BY DEF FrameFields
<1>4. Taken(frame'[t]) = Taken(frame[t])
  BY <1>2, <1>3 DEF Taken
<1>5. Lookup(t)'
  <2>1. Lookup(t)
    BY InLookup
  <2>2. Current(t)' = Current(t) /\ \A o \in Objects[t] : Live(t, o) => Live(t, o)'
    BY DEF Current, Live
  <2>3. Live(t, "current") => Live(t, "current")'
    BY DEF Live
  <2>4. Cluster(t)' = Cluster(t)
    BY <1>2, <1>3, <2>2 DEF Cluster
  <2>5. Slot(t)' = Cluster(t)[g.x]
    BY <1>2, <2>4 DEF Slot
  <2>6. QED BY <1>2, <1>3, <2>1, <2>2, <2>3, <2>4, <2>5 DEF Lookup
<1>6. Placed(t)'
  BY <1>2, <1>5 DEF Placed, Labels
<1>7. QED BY <1>2, <1>4, <1>6, StayKeeps

\* On to the next slot.
LEMMA AdvanceKeeps ==
  ASSUME FilesInv, NEW t \in Threads, pc[t] \in {"scan", "convert", "compare"},
         NEW long, NEW exact, Advance(t, long, exact)
  PROVE  Kept(t)
<1> DEFINE g == [frame[t] EXCEPT !.x = @ + 1, !.long = long, !.exact = exact]
<1>1. /\ DOMAIN frame[t] = FrameFields /\ frame[t].x \in DOMAIN Cluster(t)
      /\ Current(t).dir
  BY InLookup DEF Lookup
<1>2. /\ DOMAIN g = FrameFields /\ g.x = frame[t].x + 1
      /\ \A n \in FrameFields \ {"x", "retried", "long", "exact"} : g[n] = frame[t][n]
  <2> DEFINE y == frame[t].x + 1
  <2> HIDE DEF y
  <2>1. g = [frame[t] EXCEPT !.x = y, !.long = long, !.exact = exact]
    BY DEF y
  <2>2. "x" \in FrameFields
    BY DEF FrameFields
  <2> HIDE DEF g
  <2>3. DOMAIN g = FrameFields /\ g.x = y
        /\ \A n \in FrameFields \ {"x", "retried", "long", "exact"} : g[n] = frame[t][n]
    BY <1>1, <2>1, <2>2
  <2>4. QED BY <2>3 DEF y
<1>3. DOMAIN frame = Threads
  BY DEF FilesInv, Shapes
<1>4. frame' = [frame EXCEPT ![t] = g] /\ UNCHANGED <<heap, object>>
      /\ pc' = [pc EXCEPT ![t] = AfterSlot(t)]
  BY <1>3 DEF Advance
<1>5. AfterSlot(t) \in {"read", "scan"}
      /\ (AfterSlot(t) = "scan" => frame[t].x < Len(Cluster(t)))
  BY DEF AfterSlot
<1>6. AfterSlot(t) # "read" => g.x \in DOMAIN Cluster(t)
  <2> HIDE DEF g
  <2>1. /\ Len(Cluster(t)) \in Nat /\ DOMAIN Cluster(t) = 1 .. Len(Cluster(t))
    BY ClusterSlots
  <2>2. \A x, n \in Nat : x \in 1 .. n /\ x < n => x + 1 \in 1 .. n
    OBVIOUS
  <2>3. frame[t].x \in Nat
    BY <1>1, <2>1
  <2>4. QED BY <1>1, <1>2, <1>5, <2>1, <2>2, <2>3
<1>7. QED
  <2> HIDE DEF g
  <2>1. QED BY <1>1, <1>2, <1>4, <1>5, <1>6, PlaceChanged

\* FindEntry is done with nothing found.
LEMMA EndKeeps ==
  ASSUME FilesInv, NEW t \in Threads, pc[t] # "idle", NEW status,
         Leave(t, Closed(t), Current(t), status)
  PROVE  Kept(t)
<1>1. Owned(Closed(t), [Entries(object) EXCEPT ![<<t, "current">>] = Current(t)],
            Others(t) \cup ({frame[t].path, frame[t].ffname} \ {nullptr}))
  BY ClosedKeeps, InLookup
<1>2. Current(t).dir => Current(t).cluster \in DOMAIN Volumes[frame[t].volume].clusters
  BY InLookup DEF Lookup
<1>3. Shapes /\ \A u \in Threads : Placed(u)
  BY DEF FilesInv
<1>4. QED BY <1>1, <1>2, <1>3, InLookup, LeaveKeeps

\* FindEntry found the entry; name is its long name or nullptr.
LEMMA FoundKeeps ==
  ASSUME FilesInv, NEW t \in Threads, pc[t] \in {"scan", "compare"},
         Slot(t).kind = "entry",
         NEW name, name = nullptr \/ (name \notin DOMAIN heap /\ name # nullptr), Found(t, name)
  PROVE  Kept(t)
<1> DEFINE mine == {frame[t].path, frame[t].ffname} \ {nullptr}
           e == Entries(object)
           c == <<t, "current">>
           tmp == Others(t) \cup mine
           h == IF name = nullptr THEN Closed(t) ELSE With(Closed(t), name, 0)
           entry == FromDirectoryEntry(h, t, Current(t).drive, Slot(t), name)
           more == IF name = nullptr THEN tmp ELSE tmp \cup {name}
<1>1. Owned(Closed(t), e, tmp)
  BY ClosedKeeps
<1>2. Owned(h, e, more)
  <2> HIDE DEF e, tmp
  <2>1. name \notin DOMAIN Closed(t)
    BY <1>1 DEF Closed, Without, Owned
  <2>2. CASE name = nullptr
    BY <1>1, <2>2
  <2>3. CASE name # nullptr
    BY <1>1, <2>1, <2>3, TakeKeeps
  <2>4. QED BY <2>2, <2>3
<1>3. /\ entry.cell = Fresh(h, t, "count") /\ entry.name = name
      /\ entry.dir = Slot(t).dir /\ entry.cluster = Slot(t).cluster
  BY DEF FromDirectoryEntry
<1>4. Fresh(h, t, "count") \notin DOMAIN h /\ Fresh(h, t, "count") # nullptr
  <2> HIDE DEF h
  <2>1. QED BY <1>2, FreshIsFree DEF Owned, Took
<1>5. name = nullptr \/ name \in more
  OBVIOUS
<1>6. more \ {name} = tmp
  <2>1. name \notin tmp
    <3> HIDE DEF e, tmp
    <3>1. tmp \subseteq DOMAIN Closed(t) /\ nullptr \notin DOMAIN Closed(t)
      BY <1>1 DEF Owned
    <3>2. name \notin DOMAIN Closed(t)
      BY <3>1 DEF Closed, Without
    <3>3. QED BY <3>1, <3>2
  <2>2. QED BY <2>1
<1>7. c \in DOMAIN e /\ c # nullptr /\ nullptr \in DOMAIN e /\ e[nullptr] = NoObject
      /\ e[c] = Current(t)
  BY EntryOf DEF Variables, Current
<1>8. e[c].cell # nullptr
  BY <1>7, InLookup
<1>9. Owned(Replaced(h, e[c], entry), [e EXCEPT ![c] = entry], tmp)
  <2> HIDE DEF e, c, h, entry, more, tmp
  <2>1. Owned(Replaced(h, e[c], entry), [e EXCEPT ![c] = entry], more \ {entry.name})
    BY <1>2, <1>3, <1>4, <1>5, <1>7, <1>8, ReplaceKeeps
  <2>2. QED BY <1>3, <1>6, <2>1
<1>10. Leave(t, Replaced(h, Current(t), entry), entry, "Ok")
  BY DEF Found
<1>11. entry.dir => entry.cluster \in DOMAIN Volumes[frame[t].volume].clusters
  <2> HIDE DEF entry
  <2>1. frame[t].x \in DOMAIN Cluster(t)
    BY InLookup DEF Lookup
  <2>2. QED BY <1>3, <2>1, ClusterSlots DEF Slot
<1>12. Shapes /\ \A u \in Threads : Placed(u)
  BY DEF FilesInv
<1>13. entry.cell # nullptr
  BY <1>3, <1>4
<1>14. Owned(Replaced(h, Current(t), entry), [Entries(object) EXCEPT ![<<t, "current">>] = entry],
             Others(t) \cup ({frame[t].path, frame[t].ffname} \ {nullptr}))
  BY <1>7, <1>9
<1>15. QED
  <2> HIDE DEF entry, h
  <2>1. QED BY <1>10, <1>11, <1>12, <1>13, <1>14, LeaveKeeps

\* FindEntry: its name, its buffer and its list are three blocks.
LEMMA FindEntryKeeps ==
  ASSUME FilesInv, NEW t \in Threads, FindEntry(t)
  PROVE  Kept(t)
<1> DEFINE f == frame[t]
           e == Entries(object)
           named == IF LastName(t) THEN heap ELSE With(heap, Fresh(heap, t, "name"), 0)
           fname == IF LastName(t) THEN nullptr ELSE Fresh(heap, t, "name")
           buffer == Fresh(heap, t, "buffer")
           list == Fresh(heap, t, "list")
           tmp == Others(t) \cup Taken(f)
           g == [f EXCEPT !.buffer = buffer, !.list = list, !.ffname = fname]
<1>1. pc[t] = "open"
  BY DEF FindEntry
<1>2. Lookup(t) /\ f.ffname = nullptr /\ f.buffer = nullptr /\ f.list = nullptr
  BY <1>1, InLookup DEF Lookup
<1>3. Shapes /\ \A u \in Threads : Placed(u)
  BY DEF FilesInv
<1>4. Owned(heap, e, tmp) /\ IsFiniteSet(DOMAIN heap)
  BY OwnedBefore
<1>5. CASE ~Current(t).dir
  <2>1. Leave(t, heap, Current(t), "Error")
    BY <1>5 DEF FindEntry
  <2>2. tmp = Others(t) \cup ({f.path, f.ffname} \ {nullptr})
    BY <1>2 DEF Taken
  <2>3. Owned(heap, [e EXCEPT ![<<t, "current">>] = Current(t)],
              Others(t) \cup ({f.path, f.ffname} \ {nullptr}))
    BY <1>1, <1>4, <2>2, InLookup
  <2>4. QED BY <1>1, <1>3, <1>5, <2>1, <2>3, InLookup, LeaveKeeps
<1>6. CASE Current(t).dir
  <2>1. /\ heap' = With(With(named, buffer, 0), list, 0)
        /\ frame' = [frame EXCEPT ![t].buffer = buffer, ![t].list = list, ![t].ffname = fname]
        /\ pc' = [pc EXCEPT ![t] = "read"]
        /\ UNCHANGED object
    BY <1>6 DEF FindEntry
  <2>2. DOMAIN frame = Threads /\ DOMAIN pc = Threads
    BY <1>3 DEF Shapes
  <2>3. frame' = [frame EXCEPT ![t] = g]
    BY <2>1, <2>2
  <2>4. /\ DOMAIN g = FrameFields /\ g.buffer = buffer /\ g.list = list /\ g.ffname = fname
        /\ g.path = f.path /\ g.info = f.info /\ g.volume = f.volume
    <3>1. DOMAIN f = FrameFields
      BY <1>2 DEF Lookup
    <3> HIDE DEF f, buffer, list, fname
    <3>2. QED BY <3>1 DEF FrameFields
  <2>5. /\ Took(t, "buffer", buffer) /\ buffer \notin DOMAIN heap
        /\ Took(t, "list", list) /\ list \notin DOMAIN heap
        /\ Took(t, "name", Fresh(heap, t, "name")) /\ Fresh(heap, t, "name") \notin DOMAIN heap
    BY <1>4, FreshIsFree
  <2>6. fname = nullptr \/ Took(t, "name", fname)
    BY <2>5
  <2>7. /\ buffer # nullptr /\ list # nullptr /\ Fresh(heap, t, "name") # nullptr
        /\ buffer # list /\ buffer # Fresh(heap, t, "name") /\ list # Fresh(heap, t, "name")
    <3> HIDE DEF buffer, list
    <3>1. QED BY <2>5 DEF Took
  <2>8. Owned(named, e, tmp \cup ({fname} \ {nullptr}))
    <3> HIDE DEF e, tmp
    <3>1. CASE LastName(t)
      <4>1. tmp \cup ({fname} \ {nullptr}) = tmp
        BY <3>1
      <4>2. QED BY <1>4, <3>1, <4>1
    <3>2. CASE ~LastName(t)
      <4>1. tmp \cup ({fname} \ {nullptr}) = tmp \cup {Fresh(heap, t, "name")}
        BY <2>7, <3>2
      <4>2. QED BY <1>4, <2>5, <2>7, <3>2, <4>1, TakeKeeps
    <3>3. QED BY <3>1, <3>2
  <2>9. DOMAIN named \subseteq DOMAIN heap \cup {Fresh(heap, t, "name")}
    BY DEF With
  <2>10. Owned(With(named, buffer, 0), e, tmp \cup ({fname} \ {nullptr}) \cup {buffer})
    <3> HIDE DEF named, e, tmp, buffer, fname
    <3>1. QED BY <2>5, <2>7, <2>8, <2>9, TakeKeeps
  <2>11. list \notin DOMAIN With(named, buffer, 0)
    <3> HIDE DEF named, buffer, list
    <3>1. QED BY <2>5, <2>7, <2>9 DEF With
  <2>12. Owned(heap', e, tmp \cup ({fname} \ {nullptr}) \cup {buffer} \cup {list})
    <3> HIDE DEF named, e, tmp, buffer, list, fname
    <3>1. QED BY <2>1, <2>7, <2>10, <2>11, TakeKeeps
  <2>13. pc'[t] = "read" /\ frame'[t] = g /\ UNCHANGED object
    BY <2>1, <2>2, <2>3
  <2>14. tmp \cup ({fname} \ {nullptr}) \cup {buffer} \cup {list}
           = Others(t) \cup Taken(frame'[t])
    <3> HIDE DEF g, f, buffer, list, fname
    <3>1. QED BY <1>2, <2>4, <2>7, <2>13 DEF Taken
  <2>15. Lookup(t)'
    <3>1. Current(t)' = Current(t)
          /\ \A o \in Objects[t] \cup {"current"} : Live(t, o) => Live(t, o)'
      BY <2>1 DEF Current, Live
    <3> HIDE DEF g, f, buffer, list, fname
    <3>2. QED BY <1>2, <1>6, <2>4, <2>5, <2>6, <2>13, <3>1 DEF Lookup, f
  <2>16. Placed(t)'
    BY <2>13, <2>15 DEF Placed, Labels
  <2>17. Shapes'
    <3>1. DOMAIN frame' = Threads /\ DOMAIN pc' = Threads
      BY <2>1, <2>2, <2>3
    <3>2. QED BY <1>3, <2>1, <3>1 DEF Shapes
  <2>18. \A u \in Threads \ {t} :
           pc'[u] = pc[u] /\ frame'[u] = frame[u] /\ object'[u] = object[u]
    BY <2>1, <2>2, <2>3
  <2>19. Owned(heap', Entries(object'), Others(t) \cup Taken(frame'[t]))
    BY <2>1, <2>12, <2>14
  <2>20. QED BY <2>16, <2>17, <2>18, <2>19 DEF Kept
<1>7. QED BY <1>5, <1>6

\* ReadCluster reads, tries again, or gives up.
LEMMA ReadClusterKeeps ==
  ASSUME FilesInv, NEW t \in Threads, ReadCluster(t)
  PROVE  Kept(t)
<1> DEFINE first == [frame[t] EXCEPT !.x = 1, !.retried = FALSE]
           again == [frame[t] EXCEPT !.retried = TRUE]
<1>1. pc[t] = "read"
  BY DEF ReadCluster
<1>2. /\ DOMAIN frame[t] = FrameFields /\ Current(t).dir
      /\ DOMAIN frame = Threads /\ DOMAIN pc = Threads
  BY <1>1, InLookup DEF Lookup, FilesInv, Shapes
<1>3. 1 \in DOMAIN Cluster(t)
  <2>1. Len(Cluster(t)) \in Nat \ {0} /\ DOMAIN Cluster(t) = 1 .. Len(Cluster(t))
    BY <1>1, ClusterSlots
  <2>2. QED BY <2>1
<1>4. CASE /\ pc' = [pc EXCEPT ![t] = "scan"]
           /\ frame' = [frame EXCEPT ![t].x = 1, ![t].retried = FALSE]
           /\ UNCHANGED <<heap, object>>
  <2>1. frame' = [frame EXCEPT ![t] = first]
    BY <1>2, <1>4
  <2>2. /\ DOMAIN first = FrameFields /\ first.x = 1
        /\ \A n \in FrameFields \ {"x", "retried", "long", "exact"} : first[n] = frame[t][n]
    BY <1>2 DEF FrameFields
  <2> HIDE DEF first
  <2>3. QED BY <1>1, <1>2, <1>3, <1>4, <2>1, <2>2, PlaceChanged
<1>5. CASE /\ frame' = [frame EXCEPT ![t].retried = TRUE]
           /\ UNCHANGED <<heap, object, pc>>
  <2>1. frame' = [frame EXCEPT ![t] = again]
    BY <1>2, <1>5
  <2>2. /\ DOMAIN again = FrameFields
        /\ \A n \in FrameFields \ {"x", "retried", "long", "exact"} : again[n] = frame[t][n]
    BY <1>2 DEF FrameFields
  <2>3. DOMAIN pc' = Threads /\ pc'[t] = "read" /\ \A u \in Threads : pc'[u] = pc[u]
    BY <1>1, <1>2, <1>5
  <2>4. DOMAIN frame' = Threads /\ frame'[t] = again
        /\ \A u \in Threads \ {t} : frame'[u] = frame[u]
    BY <1>2, <2>1
  <2> HIDE DEF again
  <2>5. /\ again.path = frame[t].path /\ again.ffname = frame[t].ffname
        /\ again.buffer = frame[t].buffer /\ again.list = frame[t].list
        /\ again.info = frame[t].info /\ again.volume = frame[t].volume
    BY <2>2 DEF FrameFields
  <2>6. Taken(frame'[t]) = Taken(frame[t])
    BY <2>4, <2>5 DEF Taken
  <2>7. Lookup(t)'
    <3>1. Lookup(t)
      BY <1>1, InLookup
    <3>2. Current(t)' = Current(t)
          /\ \A o \in Objects[t] \cup {"current"} : Live(t, o) => Live(t, o)'
      BY <1>5 DEF Current, Live
    <3>3. QED BY <1>2, <2>2, <2>3, <2>4, <2>5, <3>1, <3>2 DEF Lookup
  <2>8. Placed(t)'
    BY <2>3, <2>7 DEF Placed, Labels
  <2>9. QED BY <1>5, <2>3, <2>4, <2>6, <2>8, StayKeeps
<1>6. CASE Leave(t, Closed(t), Current(t), "ReadError")
  BY <1>1, <1>6, EndKeeps
<1>7. QED BY <1>4, <1>5, <1>6 DEF ReadCluster

\* One slot.
LEMMA ScanKeeps ==
  ASSUME FilesInv, NEW t \in Threads, Scan(t)
  PROVE  Kept(t)
<1>1. pc[t] = "scan"
  BY DEF Scan
<1>2. CASE AtEnd(t)
  BY <1>1, <1>2, EndKeeps DEF AtEnd
<1>3. CASE AtDeleted(t)
  BY <1>1, <1>3, AdvanceKeeps DEF AtDeleted
<1>4. CASE AtLongName(t)
  BY <1>1, <1>4, AdvanceKeeps DEF AtLongName
<1>5. CASE AtEntry(t)
  <2>1. CASE Found(t, Fresh(heap, t, "long"))
    <3>1. Fresh(heap, t, "long") \notin DOMAIN heap /\ Fresh(heap, t, "long") # nullptr
      <4> DEFINE p == Fresh(heap, t, "long")
      <4>1. IsFiniteSet(DOMAIN heap)
        BY OwnedBefore
      <4>2. p \notin DOMAIN heap /\ Took(t, "long", p)
        BY <4>1, FreshIsFree
      <4>3. QED BY <4>2 DEF Took
    <3>2. QED BY <1>1, <1>5, <2>1, <3>1, FoundKeeps DEF AtEntry
  <2>2. CASE Advance(t, NoName, FALSE)
    BY <1>1, <2>2, AdvanceKeeps
  <2>3. QED BY <1>5, <2>1, <2>2 DEF AtEntry
<1>6. QED BY <1>2, <1>3, <1>4, <1>5 DEF Scan

\* The conversion of a short name.
LEMMA ConvertKeeps ==
  ASSUME FilesInv, NEW t \in Threads, BeginConvert(t) \/ EndConvert(t)
  PROVE  Kept(t)
<1>1. PICK label \in {"convert", "compare"} : pc' = [pc EXCEPT ![t] = label]
  BY DEF BeginConvert, EndConvert
<1>2. pc[t] \in {"scan", "convert"} /\ UNCHANGED <<heap, object, frame>>
  BY DEF BeginConvert, EndConvert, Writes
<1>3. /\ DOMAIN frame[t] = FrameFields /\ Current(t).dir /\ frame[t].x \in DOMAIN Cluster(t)
      /\ DOMAIN frame = Threads
  BY <1>2, InLookup DEF Lookup, FilesInv, Shapes
<1>4. Cluster(t)[frame[t].x].kind = "entry"
  <2>1. CASE BeginConvert(t)
    BY <2>1 DEF BeginConvert, Slot
  <2>2. CASE EndConvert(t)
    <3>1. pc[t] = "convert"
      BY <2>2 DEF EndConvert
    <3>2. QED BY <3>1, InLookup DEF Lookup, Slot
  <2>3. QED BY <2>1, <2>2
<1>5. DOMAIN pc = Threads
  BY DEF FilesInv, Shapes
<1>6. Lookup(t)'
  <2>1. Lookup(t)
    BY <1>2, InLookup
  <2>2. Current(t)' = Current(t)
          /\ \A o \in Objects[t] \cup {"current"} : Live(t, o) => Live(t, o)'
    BY <1>2 DEF Current, Live
  <2>3. Cluster(t)' = Cluster(t) /\ Slot(t)' = Slot(t)
    BY <1>2, <2>2 DEF Cluster, Slot
  <2>4. pc'[t] = label
    BY <1>1, <1>5
  <2>5. QED BY <1>2, <1>3, <1>4, <2>1, <2>2, <2>3, <2>4 DEF Lookup, Slot
<1>7. Placed(t)'
  BY <1>1, <1>5, <1>6 DEF Placed, Labels
<1>8. /\ DOMAIN pc' = Threads /\ DOMAIN frame' = Threads
      /\ \A u \in Threads \ {t} : pc'[u] = pc[u] /\ frame'[u] = frame[u]
      /\ Taken(frame'[t]) = Taken(frame[t])
  BY <1>1, <1>2, <1>3, <1>5
<1>9. QED BY <1>2, <1>7, <1>8, StayKeeps

\* The comparison of a short name.
LEMMA CompareKeeps ==
  ASSUME FilesInv, NEW t \in Threads, Compare(t)
  PROVE  Kept(t)
<1>1. pc[t] = "compare"
  BY DEF Compare
<1>2. Slot(t).kind = "entry"
  BY <1>1, InLookup DEF Lookup
<1>3. CASE Found(t, nullptr)
  BY <1>1, <1>2, <1>3, FoundKeeps
<1>4. CASE Advance(t, NoName, FALSE)
  BY <1>1, <1>4, AdvanceKeeps
<1>5. QED BY <1>3, <1>4 DEF Compare

-----------------------------------------------------------------------------
(* Drives. *)

\* A drive that is found names a port.
LEMMA PortFound ==
  ASSUME Numbered, NEW id
  PROVE  \/ PortOf(id) = 0 /\ \A i \in DOMAIN drives : drives[i].id # id
         \/ PortOf(id) \in DOMAIN Volumes
<1> DEFINE I == {i \in 1 .. Len(drives) : drives[i].id = id}
<1>1. PortOf(id) = IF (IF I # {} THEN Min(I) ELSE 0) = 0 THEN 0
                   ELSE drives[IF I # {} THEN Min(I) ELSE 0].port
  BY DEF PortOf, SelectInSeq
<1>2. CASE I = {}
  <2>1. DOMAIN drives = 1 .. Len(drives)
    BY DEF Numbered
  <2>2. \A i \in DOMAIN drives : drives[i].id # id
    BY <1>2, <2>1
  <2>3. PortOf(id) = 0
    BY <1>1, <1>2
  <2>4. QED BY <2>2, <2>3
<1>3. ASSUME I # {} PROVE PortOf(id) \in DOMAIN Volumes
  <2>1. I \in SUBSET Nat
    BY DEF Numbered
  <2>2. \E i \in I : \A j \in I : i <= j
    BY <1>3, <2>1, LeastOfNaturals
  <2>3. Min(I) \in I
    <3> HIDE DEF I
    <3>1. QED BY <2>2 DEF Min
  <2>4. Min(I) \in 1 .. Len(drives)
    BY <2>3
  <2>5. drives[Min(I)].port \in DOMAIN Volumes
    <3> DEFINE k == Min(I)
    <3>1. k \in 1 .. Len(drives)
      BY <2>4
    <3> HIDE DEF k
    <3>2. drives[k] \in [id : Nat, port : DOMAIN Volumes]
      <4> DEFINE S == [id : Nat, port : DOMAIN Volumes]
      <4>1. drives \in Seq(S)
        BY DEF Numbered
      <4> HIDE DEF S
      <4>2. drives[k] \in S
        BY <3>1, <4>1
      <4>3. QED BY <4>2 DEF S
    <3>3. drives[k].port \in DOMAIN Volumes
      BY <3>2
    <3>4. QED BY <3>3 DEF k
  <2>6. Min(I) # 0
    BY <2>4
  <2> HIDE DEF I
  <2>7. QED BY <1>1, <1>3, <2>5, <2>6
<1>4. QED BY <1>2, <1>3

\* Mounting numbers the drives.
LEMMA MountKeeps ==
  ASSUME FilesInv, Mount
  PROVE  FilesInv'
<1> DEFINE n == Len(drives)
           D == 2^16
           drive == [id |-> nextDriveID, port |-> port]
<1>1. /\ port \in 1 .. Len(Volumes) + 1 /\ ~(port > Len(Volumes)) /\ port' = port + 1
      /\ UNCHANGED <<heap, object, pc, frame>>
      /\ drives \in Seq([id : Nat, port : DOMAIN Volumes]) /\ n < port /\ n \in Nat
      /\ nextDriveID = n % D
      /\ \A i \in DOMAIN drives : drives[i].id = i - 1
  BY DEF Mount, Booted, FilesInv, Numbered
<1>2. D \in Nat /\ Len(Volumes) \in 0 .. D /\ DOMAIN Volumes = 1 .. Len(Volumes)
  <2>1. D = 65536
    OBVIOUS
  <2>2. QED BY <2>1, VolumesAssumption
<1> HIDE DEF D
<1>3. port \in DOMAIN Volumes /\ port' \in 1 .. Len(Volumes) + 1 /\ n < D
  BY <1>1, <1>2
<1>4. nextDriveID = n
  <2>1. \A a, b \in Nat : a < b => a % b = a
    OBVIOUS
  <2>2. QED BY <1>1, <1>2, <1>3, <2>1
<1>5. Numbered'
  <2>1. CASE UNCHANGED <<drives, nextDriveID>>
    <3>1. Len(drives) < port'
      BY <1>1, <1>2
    <3>2. QED BY <1>1, <1>3, <2>1, <3>1 DEF Numbered, D
  <2>2. CASE drives' = Append(drives, drive) /\ nextDriveID' = (nextDriveID + 1) % D
    <3>1. drive \in [id : Nat, port : DOMAIN Volumes] /\ drive.id = n
      BY <1>1, <1>3, <1>4
    <3> HIDE DEF drive
    <3>2. /\ drives' \in Seq([id : Nat, port : DOMAIN Volumes]) /\ Len(drives') = n + 1
          /\ DOMAIN drives' = 1 .. n + 1 /\ DOMAIN drives = 1 .. n
          /\ \A i \in 1 .. n : drives'[i] = drives[i]
          /\ drives'[n + 1] = drive
      BY <1>1, <2>2, <3>1
    <3>3. Len(drives') < port'
      BY <1>1, <1>2, <3>2
    <3>4. nextDriveID' = Len(drives') % D
      BY <1>4, <2>2, <3>2
    <3>5. \A i \in DOMAIN drives' : drives'[i].id = i - 1
      <4>1. n + 1 - 1 = n
        BY <1>1
      <4>2. \A i \in 1 .. n + 1 : i \in 1 .. n \/ i = n + 1
        BY <1>1
      <4>3. ASSUME NEW i \in 1 .. n PROVE drives'[i].id = i - 1
        BY <1>1, <3>2, <4>3
      <4>4. drives'[n + 1].id = n
        <5> HIDE DEF n
        <5>1. QED BY <3>1, <3>2
      <4> HIDE DEF n
      <4>5. \A i \in 1 .. n + 1 : drives'[i].id = i - 1
        <5>1. SUFFICES ASSUME NEW i \in 1 .. n + 1 PROVE drives'[i].id = i - 1
          OBVIOUS
        <5>2. CASE i \in 1 .. n
          BY <4>3, <5>2
        <5>3. CASE i = n + 1
          <6>1. i - 1 = n
            BY <1>1, <4>1, <5>3
          <6>2. QED BY <4>4, <5>3, <6>1
        <5>4. QED BY <4>2, <5>2, <5>3
      <4>6. DOMAIN drives' = 1 .. n + 1
        BY <3>2
      <4>7. QED BY <4>5, <4>6
    <3>6. QED BY <1>3, <3>2, <3>3, <3>4, <3>5 DEF Numbered, D
  <2>3. QED BY <2>1, <2>2 DEF Mount, D
<1>6. Temporaries' = Temporaries /\ Shapes'
  BY <1>1 DEF Temporaries, FilesInv, Shapes
<1>7. ASSUME NEW t \in Threads PROVE Placed(t)'
  <2>1. Placed(t)
    BY <1>7 DEF FilesInv
  <2>2. /\ object'[t] = object[t] /\ frame'[t] = frame[t] /\ pc'[t] = pc[t]
    BY <1>1
  <2>3. Current(t)' = Current(t) /\ Cluster(t)' = Cluster(t) /\ Slot(t)' = Slot(t)
    BY <2>2 DEF Current, Cluster, Slot
  <2>4. \A o : Live(t, o)' = Live(t, o)
    BY <2>2 DEF Live
  <2>5. QED BY <2>1, <2>2, <2>3, <2>4 DEF Placed, Lookup
<1>8. QED BY <1>1, <1>5, <1>6, <1>7 DEF FilesInv

\* A lookup begins: currentEntry is the root, and the path has a block.
LEMMA GetEntryInfoKeeps ==
  ASSUME FilesInv, NEW t \in Threads, NEW o \in Objects[t], NEW path, GetEntryInfo(t, o, path),
         ~UNCHANGED <<heap, object, pc, frame>>
  PROVE  Kept(t)
<1> DEFINE found == PortOf(path.drive)
           current == Root(heap, t, path.drive, Volumes[found])
           block == Fresh(heap, t, "path")
           cell == Fresh(heap, t, "count")
           tmp == Others(t) \cup Taken(frame[t])
           e == Entries(object)
           c == <<t, "current">>
           g == [NoFrame EXCEPT !.path = block, !.info = o, !.volume = found,
                                !.names = path.names]
<1>1. /\ pc[t] = "idle" /\ object[t][o].cell # nullptr /\ found # 0
      /\ heap' = With(With(heap, current.cell, 1), block, 0)
      /\ object' = Updated(object, t, "current", current)
      /\ frame' = [frame EXCEPT ![t] = g]
      /\ pc' = [pc EXCEPT ![t] = "open"]
  BY DEF GetEntryInfo, Idle, Live, Updated
<1>2. found \in DOMAIN Volumes
  BY <1>1, PortFound DEF FilesInv
<1>3. /\ current.cell = cell /\ current.name = nullptr /\ current.dir = TRUE
      /\ current.cluster = Volumes[found].root
  BY DEF Root, NoObject
<1>4. current.cluster \in DOMAIN Volumes[found].clusters
  <2> HIDE DEF found
  <2>1. QED BY <1>2, <1>3, VolumesAssumption
<1> HIDE DEF found, current
<1>5. Owned(heap, e, tmp) /\ IsFiniteSet(DOMAIN heap) /\ nullptr \notin tmp
  BY OwnedBefore
<1>6. /\ cell \notin DOMAIN heap /\ Took(t, "count", cell)
      /\ block \notin DOMAIN heap /\ Took(t, "path", block)
  BY <1>5, FreshIsFree
<1>7. cell # block /\ cell # nullptr /\ block # nullptr
  <2> HIDE DEF cell, block
  <2>1. QED BY <1>6 DEF Took
<1>8. DOMAIN object = Threads /\ DOMAIN frame = Threads /\ DOMAIN pc = Threads
      /\ \A u \in Threads : DOMAIN object[u] = Variables(u)
  BY DEF FilesInv, Shapes
<1>9. "current" \in Variables(t) /\ o \in Variables(t) /\ o # "current"
  BY ObjectsAssumption DEF Variables
<1>10. /\ Entries(object') = [e EXCEPT ![c] = current]
       /\ DOMAIN object' = Threads
       /\ \A u \in Threads : DOMAIN object'[u] = Variables(u)
       /\ object'[t]["current"] = current
       /\ object'[t][o] = object[t][o]
       /\ \A u \in Threads : u # t => object'[u] = object[u]
  BY <1>1, <1>8, <1>9, EntriesChanged
<1>11. c \in DOMAIN e /\ e[c] = object[t]["current"]
  BY <1>9, EntryOf
<1>12. Void(e[c]) /\ frame[t] = NoFrame
  BY <1>1, <1>5, <1>11 DEF FilesInv, Placed, Live, Owned, Void
<1>13. Owned(With(heap, cell, 1), [e EXCEPT ![c] = current], tmp)
  <2> HIDE DEF e, c, tmp, cell
  <2>1. Owned(With(heap, current.cell, 1), [e EXCEPT ![c] = current], tmp \ {current.name})
    BY <1>3, <1>5, <1>6, <1>7, <1>11, <1>12, NewKeeps
  <2>2. tmp \ {current.name} = tmp
    BY <1>3, <1>5
  <2>3. QED BY <1>3, <2>1, <2>2
<1>14. Owned(heap', Entries(object'), tmp \cup {block})
  <2> HIDE DEF e, c, tmp, cell, block
  <2>1. block \notin DOMAIN With(heap, cell, 1)
    BY <1>6, <1>7 DEF With
  <2>2. QED BY <1>1, <1>3, <1>7, <1>10, <1>13, <2>1, TakeKeeps
<1>15. /\ DOMAIN g = FrameFields /\ g.path = block /\ g.info = o /\ g.volume = found
       /\ g.ffname = nullptr /\ g.buffer = nullptr /\ g.list = nullptr
  <2> HIDE DEF block
  <2>1. QED BY DEF NoFrame, FrameFields
<1>16. pc'[t] = "open" /\ frame'[t] = g /\ DOMAIN pc' = Threads /\ DOMAIN frame' = Threads
       /\ \A u \in Threads \ {t} : pc'[u] = pc[u] /\ frame'[u] = frame[u]
  BY <1>1, <1>8
<1> HIDE DEF g
<1>17. Taken(frame'[t]) = {block} /\ Taken(frame[t]) = {}
  <2> HIDE DEF block
  <2>1. QED BY <1>7, <1>12, <1>15, <1>16, NoFrameFields DEF Taken
<1>18. Placed(t)'
  <2>1. Live(t, o)' /\ Live(t, "current")' /\ Current(t)' = current
    BY <1>1, <1>3, <1>7, <1>10 DEF Live, Current
  <2> HIDE DEF block, cell
  <2>2. Lookup(t)'
    BY <1>2, <1>4, <1>6, <1>15, <1>16, <2>1 DEF Lookup
  <2>3. QED BY <1>16, <2>2 DEF Placed, Labels
<1>19. Shapes'
  BY <1>10, <1>16 DEF Shapes
<1>20. Owned(heap', Entries(object'), Others(t) \cup Taken(frame'[t]))
  BY <1>14, <1>17
<1>21. QED BY <1>10, <1>16, <1>18, <1>19, <1>20 DEF Kept

-----------------------------------------------------------------------------
(* The invariant, and what follows from it. *)

\* In the beginning nobody owns anything.
LEMMA FilesInit == Init => FilesInv
<1> SUFFICES ASSUME Init PROVE FilesInv
  OBVIOUS
<1>1. /\ DOMAIN heap = {} /\ port = 1 /\ drives = <<>> /\ nextDriveID = 0
      /\ DOMAIN object = Threads /\ DOMAIN pc = Threads /\ DOMAIN frame = Threads
      /\ \A t \in Threads : /\ DOMAIN object[t] = Variables(t)
                            /\ \A o \in Variables(t) : object[t][o] = NoObject
                            /\ pc[t] = "idle" /\ frame[t] = NoFrame
  BY DEF Init, Variables
<1>2. Numbered
  <2>1. Len(Volumes) \in Nat
    <3> DEFINE D == 2^16
    <3>1. D = 65536
      OBVIOUS
    <3>2. Len(Volumes) \in 0 .. D /\ D \in Nat
      BY <3>1, VolumesAssumption
    <3> HIDE DEF D
    <3>3. QED BY <3>2
  <2>2. port \in 1 .. Len(Volumes) + 1
    BY <1>1, <2>1
  <2>3. drives \in Seq([id : Nat, port : DOMAIN Volumes]) /\ Len(drives) = 0
        /\ DOMAIN drives = {}
    BY <1>1
  <2>4. 0 % 2^16 = 0
    OBVIOUS
  <2>5. QED BY <1>1, <2>2, <2>3, <2>4 DEF Numbered
<1>3. \A t \in Threads : Placed(t)
  BY <1>1 DEF Placed, Labels, Live, NoObject, Variables
<1>4. Temporaries = {}
  BY <1>1 DEF Temporaries, Taken, NoFrame
<1>5. DOMAIN Entries(object) = Pairs \cup {nullptr}
      /\ \A s \in Pairs \cup {nullptr} : Entries(object)[s] = NoObject
  <2>1. \A s \in Pairs : object[s[1]][s[2]] = NoObject
    <3>1. SUFFICES ASSUME NEW t \in Threads, NEW o \in Variables(t)
                   PROVE  object[t][o] = NoObject
      BY DEF Pairs
    <3>2. QED BY <1>1
  <2>2. QED BY <2>1 DEF Entries
<1>6. Owned(heap, Entries(object), {})
  <2>1. NoObject.cell = nullptr /\ NoObject.name = nullptr
    BY DEF NoObject
  <2>2. IsFiniteSet({})
    BY FS_EmptySet
  <2>3. QED BY <1>1, <1>5, <2>1, <2>2, SlotsFinite DEF Owned
<1>7. QED BY <1>1, <1>2, <1>3, <1>4, <1>6 DEF FilesInv, Shapes

\* No step disturbs it.
LEMMA FilesStep == FilesInv /\ [Next]_vars => FilesInv'
<1> SUFFICES ASSUME FilesInv, [Next]_vars PROVE FilesInv'
  OBVIOUS
<1>1. ASSUME UNCHANGED <<heap, object, pc, frame, port, drives, nextDriveID>>
      PROVE  FilesInv'
  <2>1. Temporaries' = Temporaries /\ Shapes' /\ Numbered'
    BY <1>1 DEF Temporaries, FilesInv, Shapes, Numbered
  <2>2. \A t \in Threads : Placed(t)'
    BY <1>1 DEF FilesInv, Placed, Lookup, Live, Current, Cluster, Slot
  <2>3. QED BY <1>1, <2>1, <2>2 DEF FilesInv
<1>2. ASSUME NEW t \in Threads, Kept(t), UNCHANGED <<port, drives, nextDriveID>>
      PROVE  FilesInv'
  <2>1. Numbered'
    BY <1>2 DEF FilesInv, Numbered
  <2>2. QED BY <1>2, <2>1, KeptTogether
<1>3. CASE UNCHANGED vars
  BY <1>1, <1>3 DEF vars
<1>4. CASE Mount
  BY <1>4, MountKeeps
<1>5. ASSUME NEW t \in Threads, NEW o \in Objects[t],
             \/ Construct(t, o) \/ Destruct(t, o)
             \/ \E right \in Objects[t] : Assign(t, o, right)
             \/ \E n \in Sizes : ReadFile(t, o, n)
             \/ \E path \in Paths[t] : GetEntryInfo(t, o, path)
      PROVE  FilesInv'
  <2>1. CASE Construct(t, o)
    BY <1>2, <2>1, ConstructKeeps DEF Construct, Client
  <2>2. CASE Destruct(t, o)
    BY <1>2, <2>2, DestructKeeps DEF Destruct, Client
  <2>3. ASSUME NEW right \in Objects[t], Assign(t, o, right)
        PROVE  FilesInv'
    BY <1>2, <2>3, CallerAssignKeeps DEF Assign, Client
  <2>4. ASSUME NEW n \in Sizes, ReadFile(t, o, n)
        PROVE  FilesInv'
    BY <1>1, <2>4 DEF ReadFile
  <2>5. ASSUME NEW path, GetEntryInfo(t, o, path)
        PROVE  FilesInv'
    <3>1. UNCHANGED <<port, drives, nextDriveID>>
      BY <2>5 DEF GetEntryInfo
    <3>2. CASE UNCHANGED <<heap, object, pc, frame>>
      BY <1>1, <3>1, <3>2
    <3>3. CASE ~UNCHANGED <<heap, object, pc, frame>>
      BY <1>2, <2>5, <3>1, <3>3, GetEntryInfoKeeps
    <3>4. QED BY <3>2, <3>3
  <2>6. QED BY <1>5, <2>1, <2>2, <2>3, <2>4, <2>5
<1>6. ASSUME NEW t \in Threads, Step(t)
      PROVE  FilesInv'
  <2>1. UNCHANGED <<port, drives, nextDriveID>>
    BY <1>6 DEF Step, FindEntry, ReadCluster, Scan, BeginConvert, EndConvert, Compare, Writes,
                Unchanged
  <2>2. Kept(t)
    BY <1>6, FindEntryKeeps, ReadClusterKeeps, ScanKeeps, ConvertKeeps, CompareKeeps DEF Step
  <2>3. QED BY <1>2, <2>1, <2>2
<1>7. QED BY <1>3, <1>4, <1>5, <1>6 DEF Next

\* FilesInv is an invariant of the driver.
LEMMA FilesAlways == Spec => []FilesInv
<1>1. QED BY FilesInit, FilesStep, PTL DEF Spec

\* Counts are counts, drives have numbers of their own, and a thread in a
\* directory is at one of its slots.
THEOREM TypeCorrect == Spec => []TypeOK
<1>1. FilesInv => TypeOK
  <2> SUFFICES ASSUME FilesInv PROVE TypeOK
    OBVIOUS
  <2>1. \A i, j \in DOMAIN drives : drives[i].id = drives[j].id => i = j
    <3>1. SUFFICES ASSUME NEW i \in DOMAIN drives, NEW j \in DOMAIN drives,
                          drives[i].id = drives[j].id
                   PROVE  i = j
      OBVIOUS
    <3>2. i \in Nat /\ j \in Nat /\ i - 1 = j - 1
      BY <3>1 DEF FilesInv, Numbered
    <3>3. QED BY <3>2
  <2>2. \A p \in DOMAIN heap : heap[p] \in Nat
    BY DEF FilesInv, Owned
  <2>3. ASSUME NEW t \in Threads
        PROVE  /\ pc[t] \in Labels
               /\ pc[t] = "idle" <=> frame[t] = NoFrame
               /\ pc[t] \in {"scan", "convert", "compare"} => frame[t].x \in DOMAIN Cluster(t)
    <3>1. Placed(t)
      BY DEF FilesInv
    <3>2. pc[t] # "idle" => frame[t].path # nullptr
      BY <3>1 DEF Placed, Lookup, Took
    <3>3. QED BY <3>1, <3>2, NoFrameFields DEF Placed, Lookup
  <2>4. QED BY <2>1, <2>2, <2>3 DEF TypeOK
<1>2. QED BY <1>1, FilesAlways, PTL

\* Every block of the heap has its owner: entries share their counts and names
\* as often as the counts say, and every other block belongs to a lookup that
\* is under way, so FindEntry and GetEntryInfo leave none behind.
THEOREM BlocksOwnedHolds == Spec => []BlocksOwned
<1>1. FilesInv => BlocksOwned
  <2> SUFFICES ASSUME FilesInv PROVE BlocksOwned
    OBVIOUS
  <2> DEFINE objects == {object[t][o] : t \in Threads, o \in {"current"}} \cup
                        UNION {{object[t][o] : o \in Objects[t]} : t \in Threads}
             Sharing(p) == UNION {{<<t, o>> : o \in {o \in DOMAIN object[t] :
                                       object[t][o].cell = p}} : t \in Threads}
             temporary == UNION {{frame[t].path, frame[t].ffname, frame[t].buffer,
                                  frame[t].list} : t \in Threads}
             pointers == temporary \cup {o.cell : o \in objects} \cup {o.name : o \in objects}
             e == Entries(object)
  <2>1. Owned(heap, e, Temporaries)
    BY DEF FilesInv
  <2>2. \A x \in objects : \E s \in DOMAIN e : e[s] = x
    <3>1. \A t \in Threads : \A o \in Variables(t) :
             <<t, o>> \in DOMAIN e /\ e[<<t, o>>] = object[t][o]
      BY EntryOf
    <3>2. \A x \in objects : \E t \in Threads : \E o \in Variables(t) : x = object[t][o]
      BY DEF Variables
    <3> HIDE DEF e, objects
    <3>3. SUFFICES ASSUME NEW x \in objects PROVE \E s \in DOMAIN e : e[s] = x
      OBVIOUS
    <3>4. PICK t \in Threads : \E o \in Variables(t) : x = object[t][o]
      BY <3>2
    <3>5. PICK o \in Variables(t) : x = object[t][o]
      BY <3>4
    <3>6. <<t, o>> \in DOMAIN e /\ e[<<t, o>>] = x
      BY <3>1, <3>5
    <3>7. QED BY <3>6
  <2>3. \A s \in DOMAIN e : e[s] \in objects \/ e[s] = NoObject
    <3>1. ASSUME NEW t \in Threads, NEW o \in Variables(t)
          PROVE  object[t][o] \in objects
      BY DEF Variables
    <3>2. \A s \in Pairs : object[s[1]][s[2]] \in objects
      <4> HIDE DEF objects
      <4>1. QED BY <3>1 DEF Pairs
    <3>3. DOMAIN e = Pairs \cup {nullptr}
          /\ \A s \in DOMAIN e : e[s] = NoObject \/ (s \in Pairs /\ e[s] = object[s[1]][s[2]])
      BY DEF Entries
    <3> HIDE DEF e, objects
    <3>4. QED BY <3>2, <3>3
  <2>4. temporary \ {nullptr} = Temporaries
    BY DEF Temporaries, Taken
  <2>5. NoObject.cell = nullptr /\ NoObject.name = nullptr
    BY DEF NoObject
  <2>6. \A p : p # nullptr => Sharing(p) = Sharers(e, p)
    <3>1. SUFFICES ASSUME NEW p, p # nullptr PROVE Sharing(p) = Sharers(e, p)
      OBVIOUS
    <3>2. \A t \in Threads : DOMAIN object[t] = Variables(t)
      BY DEF FilesInv, Shapes
    <3>3. ASSUME NEW s \in Sharing(p) PROVE s \in Sharers(e, p)
      <4>1. PICK t \in Threads : \E o \in Variables(t) : s = <<t, o>> /\ object[t][o].cell = p
        BY <3>2, <3>3
      <4>2. PICK o \in Variables(t) : s = <<t, o>> /\ object[t][o].cell = p
        BY <4>1
      <4>3. s \in DOMAIN e /\ e[s] = object[t][o]
        BY <4>2, EntryOf
      <4> HIDE DEF e
      <4>4. QED BY <4>2, <4>3 DEF Sharers
    <3>4. ASSUME NEW s \in Sharers(e, p) PROVE s \in Sharing(p)
      <4>1. s \in Pairs /\ object[s[1]][s[2]].cell = p
        BY <2>5, <3>1, <3>4 DEF Sharers, Entries
      <4>2. PICK t \in Threads : \E o \in Variables(t) : s = <<t, o>>
        BY <4>1 DEF Pairs
      <4>3. PICK o \in Variables(t) : s = <<t, o>>
        BY <4>2
      <4>4. object[t][o].cell = p /\ o \in DOMAIN object[t]
        BY <3>2, <4>1, <4>3
      <4>5. QED BY <4>3, <4>4
    <3>5. QED BY <3>3, <3>4
  <2>7. DOMAIN heap = pointers \ {nullptr}
    <3> HIDE DEF e, objects, temporary
    <3>1. ASSUME NEW p \in DOMAIN heap PROVE p \in pointers \ {nullptr}
      <4>1. p # nullptr
        BY <2>1, <3>1 DEF Owned
      <4>2. CASE p \in Temporaries
        BY <2>4, <4>1, <4>2
      <4>3. CASE p \notin Temporaries
        <5>1. PICK s \in DOMAIN e : p \in {e[s].cell, e[s].name}
          BY <2>1, <3>1, <4>3 DEF Owned
        <5>2. e[s] \in objects
          BY <2>3, <2>5, <4>1, <5>1
        <5>3. QED BY <4>1, <5>1, <5>2
      <4>4. QED BY <4>2, <4>3
    <3>2. ASSUME NEW p \in pointers, p # nullptr PROVE p \in DOMAIN heap
      <4>1. CASE p \in temporary
        BY <2>1, <2>4, <3>2, <4>1 DEF Owned
      <4>2. CASE p \notin temporary
        <5>1. PICK x \in objects : p \in {x.cell, x.name}
          BY <4>2
        <5>2. PICK s \in DOMAIN e : e[s] = x
          BY <2>2
        <5>3. QED BY <2>1, <3>2, <5>1, <5>2 DEF Owned
      <4>3. QED BY <4>1, <4>2
    <3>3. QED BY <3>1, <3>2
  <2>8. \A p \in {o.cell : o \in objects} \ {nullptr} : heap[p] = Cardinality(Sharing(p))
    <3> HIDE DEF e, objects, Sharing
    <3>1. SUFFICES ASSUME NEW x \in objects, x.cell # nullptr
                   PROVE  heap[x.cell] = Cardinality(Sharing(x.cell))
      OBVIOUS
    <3>2. PICK s \in DOMAIN e : e[s] = x
      BY <2>2
    <3>3. heap[e[s].cell] = Cardinality(Sharers(e, e[s].cell))
      BY <2>1, <3>1, <3>2 DEF Owned
    <3>4. Sharing(x.cell) = Sharers(e, x.cell)
      BY <2>6, <3>1
    <3>5. QED BY <3>2, <3>3, <3>4
  <2>9. \A o1, o2 \in objects : o1.name = o2.name /\ o1.name # nullptr => o1.cell = o2.cell
    <3> HIDE DEF e, objects
    <3>1. SUFFICES ASSUME NEW o1 \in objects, NEW o2 \in objects,
                          o1.name = o2.name, o1.name # nullptr
                   PROVE  o1.cell = o2.cell
      OBVIOUS
    <3>2. PICK r \in DOMAIN e : e[r] = o1
      BY <2>2
    <3>3. PICK s \in DOMAIN e : e[s] = o2
      BY <2>2
    <3>4. QED BY <2>1, <3>1, <3>2, <3>3 DEF Owned
  <2>10. QED BY <2>7, <2>8, <2>9 DEF BlocksOwned
<1>2. QED BY <1>1, FilesAlways, PTL

-----------------------------------------------------------------------------
(***************************************************************************)
(* What lookups find.  Names are followed one after the other: Depth(t)    *)
(* names of the path lie behind t, and currentEntry is what they lead to.  *)
(***************************************************************************)
\* PortOf and Resolve, for given drives.
PortIn(ds, id) ==
    LET found == SelectInSeq(ds, LAMBDA d : d.id = id)
    IN  IF found = 0 THEN 0 ELSE ds[found].port

Leads(ds, path) == Along(Volumes[PortIn(ds, path.drive)], path.names)[Len(path.names)]

Meaning(o) == [dir |-> o.dir, cluster |-> o.cluster, size |-> o.size]

Depth(t) == Len(result[t].path.names) - Len(frame[t].names)

\* The long name that the slots before x leave for slot x.
LongBefore(slots, x) ==
    IF x > 1 /\ slots[x - 1].kind = "lfn" THEN slots[x - 1].name ELSE NoName

\* None of the slots before x ends the directory or is called name.
Passed(slots, x, name) ==
    \A i \in 1 .. x - 1 : /\ slots[i].kind # "end"
                          /\ slots[i].kind = "entry" => TrueName(slots, i) # name

\* The path that t looks up, and what is left of it.
Following(t) ==
    LET path == result[t].path
        f == frame[t]
    IN  /\ result[t].call = "pending" /\ path \in Paths[t]
        /\ f.volume = PortIn(drives, path.drive)
        /\ f.names \in Seq(STRING) /\ Len(f.names) \in 1 .. Len(path.names)
        /\ \A i \in 1 .. Len(f.names) : f.names[i] = path.names[Depth(t) + i]
        /\ Current(t).dir => Current(t).cluster = 0 \/ Chained(Volumes[f.volume], Current(t).cluster)

\* How far t is in the directory that it searches.
Scanned(t) ==
    LET f == frame[t] IN
    /\ Meaning(Current(t)) = Along(Volumes[f.volume], result[t].path.names)[Depth(t)]
    /\ pc[t] \in {"open", "read"} => f.long = NoName
    /\ pc[t] # "open" => Current(t).cluster # 0
    /\ pc[t] \in {"scan", "convert", "compare"} =>
         f.long = LongBefore(Cluster(t), f.x) /\ Passed(Cluster(t), f.x, Head(f.names))
    /\ pc[t] \in {"convert", "compare"} => f.long = NoName
    /\ pc[t] = "convert" => cstrbuffer.by = t
    /\ pc[t] = "compare" => cstrbuffer.name = Slot(t).name

\* What a lookup has returned, and what was read of it.
IsEntry(v, d) ==
    \E c \in DOMAIN v.clusters : \E x \in DOMAIN v.clusters[c] :
        v.clusters[c][x].kind = "entry" /\ d = Meaning(v.clusters[c][x])

Returned(t) ==
    LET r == result[t]
        v == Volumes[PortIn(drives, r.path.drive)]
    IN  r.status = "Ok" =>
           /\ PortIn(drives, r.path.drive) \in DOMAIN Volumes
           /\ Leads(drives, r.path) = Meaning(object[t][r.info]) /\ IsEntry(v, Leads(drives, r.path))

Lost(t) ==
    LET r == result[t] IN
    /\ r.status \in {"NotFound", "Error"} => Leads(drives, r.path) = Missing
    /\ r.status = "BadVolume" => \A i \in DOMAIN drives : drives[i].id # r.path.drive

ReadRight(t) ==
    LET r == result[t]
        entry == Leads(drives, r.path)
        chain == Volumes[PortIn(drives, r.path.drive)].chain[entry.cluster]
        length == Min({entry.size, r.bytes})
    IN  r.status = "Ok" => \/ r.data = SubSeq(chain, 1, length)
                           \/ \E i \in 1 .. length - 1 : chain[i + 1] # chain[i] + 1

Truth(t) ==
    /\ result[t].call # "none" => Booted
    /\ pc[t] # "idle" => Following(t) /\ (doubt[t] = {} => Scanned(t))
    /\ result[t].call = "lookup" /\ doubt[t] = {} => Returned(t) /\ Lost(t)
    /\ result[t].call = "read" /\ doubt[t] = {} => ReadRight(t)

TruthInv ==
    /\ DOMAIN result = Threads /\ DOMAIN doubt = Threads
    /\ \A t \in Threads : Truth(t)

-----------------------------------------------------------------------------
(* The reference: paths and directories. *)

RootEntry(v) == [dir |-> TRUE, cluster |-> v.root, size |-> 0]

\* The recursive definition of Along has a solution: there is one for the
\* first names, of which one for a name more is made.
LEMMA AlongUnfolds ==
  ASSUME NEW v, NEW names \in Seq(STRING)
  PROVE  Along(v, names) =
           [k \in 0 .. Len(names) |->
              IF k = 0 THEN RootEntry(v)
              ELSE Member(v, Along(v, names)[k - 1], names[k])]
<1> DEFINE E(f, k) == IF k = 0 THEN RootEntry(v) ELSE Member(v, f[k - 1], names[k])
           Solves(f, m) == f = [k \in 0 .. m |-> E(f, k)]
           Bad == {m \in Nat : ~(\E f : Solves(f, m))}
<1>1. Bad = {}
  <2>1. SUFFICES ASSUME Bad # {} PROVE FALSE
    OBVIOUS
  <2>2. PICK m \in Bad : \A y \in Bad : m <= y
    <3>1. Bad \in SUBSET Nat
      OBVIOUS
    <3> HIDE DEF Bad
    <3>2. QED BY <2>1, <3>1, LeastOfNaturals
  <2>3. CASE m = 0
    <3> DEFINE f == [k \in 0 .. 0 |-> RootEntry(v)]
    <3>1. Solves(f, 0)
      BY DEF RootEntry
    <3> HIDE DEF Solves
    <3>2. QED BY <2>2, <2>3, <3>1
  <2>4. CASE m # 0
    <3>1. m \in Nat /\ m - 1 \in Nat /\ m - 1 \notin Bad
      <4>1. m \in Nat /\ \A y \in Bad : m <= y
        BY <2>2
      <4> HIDE DEF Bad
      <4>2. m - 1 \in Nat /\ ~(m <= m - 1)
        BY <2>4, <4>1
      <4>3. QED BY <4>1, <4>2
    <3>2. PICK f : Solves(f, m - 1)
      <4> HIDE DEF Solves
      <4>1. QED BY <3>1
    <3> DEFINE g == [k \in 0 .. m |-> E(f, k)]
    <3>3. \A k \in 0 .. m - 1 : g[k] = f[k]
      <4>1. \A k \in 0 .. m - 1 : f[k] = E(f, k)
        BY <3>2
      <4>2. \A k \in 0 .. m - 1 : k \in 0 .. m
        BY <3>1
      <4> HIDE DEF E
      <4>3. QED BY <4>1, <4>2
    <3>4. \A k \in 0 .. m : E(g, k) = E(f, k)
      <4> TAKE k \in 0 .. m
      <4>1. k # 0 => k - 1 \in 0 .. m - 1
        BY <3>1
      <4> HIDE DEF g
      <4>2. QED BY <3>3, <4>1
    <3>5. Solves(g, m)
      <4> HIDE DEF E
      <4>1. QED BY <3>4
    <3> HIDE DEF Solves, g
    <3>6. QED BY <2>2, <3>5
  <2>5. QED BY <2>3, <2>4
<1>2. Len(names) \in Nat
  OBVIOUS
<1>3. \E f : Solves(f, Len(names))
  <2> HIDE DEF Solves
  <2>1. QED BY <1>1, <1>2
<1>4. Along(v, names) = CHOOSE f : Solves(f, Len(names))
  BY DEF Along, RootEntry
<1>5. Solves(Along(v, names), Len(names))
  <2> HIDE DEF Solves
  <2>1. QED BY <1>3, <1>4
<1>6. QED BY <1>5

LEMMA AlongStep ==
  ASSUME NEW v, NEW names \in Seq(STRING)
  PROVE  /\ Along(v, names)[0] = RootEntry(v)
         /\ \A k \in 1 .. Len(names) :
              Along(v, names)[k] = Member(v, Along(v, names)[k - 1], names[k])
<1>1. Len(names) \in Nat
  OBVIOUS
<1> DEFINE n == Len(names)
           a == Along(v, names)
<1>2. a = [k \in 0 .. n |-> IF k = 0 THEN RootEntry(v) ELSE Member(v, a[k - 1], names[k])]
  BY AlongUnfolds
<1> HIDE DEF a, n
<1>3. /\ a[0] = RootEntry(v)
      /\ \A k \in 1 .. n : a[k] = Member(v, a[k - 1], names[k])
  <2>1. n \in Nat
    BY <1>1 DEF n
  <2>2. 0 \in 0 .. n /\ \A k \in 1 .. n : k \in 0 .. n /\ k # 0
    BY <2>1
  <2>3. QED BY <1>2, <2>2, Zenon
<1>4. QED BY <1>3 DEF a, n

\* Behind a name that is missing everything is.
LEMMA MissingStays ==
  ASSUME NEW v, NEW names \in Seq(STRING), NEW k \in 0 .. Len(names),
         Along(v, names)[k] = Missing
  PROVE  Along(v, names)[Len(names)] = Missing
<1> DEFINE n == Len(names)
           Bad == {m \in k .. n : Along(v, names)[m] # Missing}
<1>1. n \in Nat
  OBVIOUS
<1>2. Bad = {}
  <2>1. SUFFICES ASSUME Bad # {} PROVE FALSE
    OBVIOUS
  <2>2. PICK m \in Bad : \A y \in Bad : m <= y
    <3>1. Bad \in SUBSET Nat
      BY <1>1
    <3> HIDE DEF Bad
    <3>2. QED BY <2>1, <3>1, LeastOfNaturals
  <2>3. m \in 1 .. n /\ m - 1 \in k .. n /\ m - 1 \notin Bad
    BY <1>1, <2>2
  <2>4. Along(v, names)[m - 1] = Missing
    BY <2>3
  <2>5. Along(v, names)[m] = Member(v, Missing, names[m])
    BY <2>3, <2>4, AlongStep
  <2>6. Along(v, names)[m] = Missing
    BY <2>5 DEF Member, Missing
  <2>7. QED BY <2>2, <2>6
<1>3. QED BY <1>1, <1>2

\* The same of FlattenSeq, whose result begins with the first sequence.
LEMMA FlattenUnfolds ==
  ASSUME NEW S, NEW seqs \in Seq(Seq(S)), Len(seqs) # 0
  PROVE  \E f : /\ f = [k \in 1 .. Len(seqs) |->
                          IF k = 1 THEN seqs[k] ELSE f[k - 1] \o seqs[k]]
                /\ FlattenSeq(seqs) = f[Len(seqs)]
<1> DEFINE E(f, k) == IF k = 1 THEN seqs[k] ELSE f[k - 1] \o seqs[k]
           Solves(f, m) == f = [k \in 1 .. m |-> E(f, k)]
           Bad == {m \in Nat \ {0} : ~(\E f : Solves(f, m))}
<1>1. Bad = {}
  <2>1. SUFFICES ASSUME Bad # {} PROVE FALSE
    OBVIOUS
  <2>2. PICK m \in Bad : \A y \in Bad : m <= y
    <3>1. Bad \in SUBSET Nat
      OBVIOUS
    <3> HIDE DEF Bad
    <3>2. QED BY <2>1, <3>1, LeastOfNaturals
  <2>3. CASE m = 1
    <3> DEFINE f == [k \in 1 .. 1 |-> seqs[1]]
    <3>1. Solves(f, 1)
      OBVIOUS
    <3> HIDE DEF Solves
    <3>2. QED BY <2>2, <2>3, <3>1
  <2>4. CASE m # 1
    <3>1. m \in Nat /\ m - 1 \in Nat \ {0} /\ m - 1 \notin Bad
      <4>1. m \in Nat \ {0} /\ \A y \in Bad : m <= y
        BY <2>2
      <4> HIDE DEF Bad
      <4>2. m - 1 \in Nat \ {0} /\ ~(m <= m - 1)
        BY <2>4, <4>1
      <4>3. QED BY <4>1, <4>2
    <3>2. PICK f : Solves(f, m - 1)
      <4> HIDE DEF Solves
      <4>1. QED BY <3>1
    <3> DEFINE g == [k \in 1 .. m |-> E(f, k)]
    <3>3. \A k \in 1 .. m - 1 : g[k] = f[k]
      <4>1. \A k \in 1 .. m - 1 : f[k] = E(f, k)
        BY <3>2
      <4>2. \A k \in 1 .. m - 1 : k \in 1 .. m
        BY <3>1
      <4> HIDE DEF E
      <4>3. QED BY <4>1, <4>2
    <3>4. \A k \in 1 .. m : E(g, k) = E(f, k)
      <4> TAKE k \in 1 .. m
      <4>1. k # 1 => k - 1 \in 1 .. m - 1
        BY <3>1
      <4> HIDE DEF g
      <4>2. QED BY <3>3, <4>1
    <3>5. Solves(g, m)
      <4> HIDE DEF E
      <4>1. QED BY <3>4
    <3> HIDE DEF Solves, g
    <3>6. QED BY <2>2, <3>5
  <2>5. QED BY <2>3, <2>4
<1>2. Len(seqs) \in Nat \ {0}
  OBVIOUS
<1> DEFINE flatten == CHOOSE f : Solves(f, Len(seqs))
<1>3. \E f : Solves(f, Len(seqs))
  <2> HIDE DEF Solves
  <2>1. QED BY <1>1, <1>2
<1>4. FlattenSeq(seqs) = flatten[Len(seqs)]
  BY DEF FlattenSeq
<1>5. Solves(flatten, Len(seqs))
  <2> HIDE DEF Solves
  <2>1. QED BY <1>3
<1> HIDE DEF flatten
<1>6. QED BY <1>4, <1>5

LEMMA FlattenBegins ==
  ASSUME NEW S, NEW seqs \in Seq(Seq(S)), Len(seqs) # 0
  PROVE  /\ FlattenSeq(seqs) \in Seq(S)
         /\ Len(FlattenSeq(seqs)) >= Len(seqs[1])
         /\ \A i \in 1 .. Len(seqs[1]) : FlattenSeq(seqs)[i] = seqs[1][i]
<1>1. Len(seqs) \in Nat \ {0}
  OBVIOUS
<1>2. PICK f : /\ f = [k \in 1 .. Len(seqs) |->
                         IF k = 1 THEN seqs[k] ELSE f[k - 1] \o seqs[k]]
               /\ FlattenSeq(seqs) = f[Len(seqs)]
  BY FlattenUnfolds
<1>3. f[1] = seqs[1]
  BY <1>1, <1>2
<1>4. \A k \in 2 .. Len(seqs) : f[k] = f[k - 1] \o seqs[k]
  <2> TAKE k \in 2 .. Len(seqs)
  <2>1. k \in 1 .. Len(seqs) /\ k # 1
    BY <1>1
  <2>2. QED BY <1>2, <2>1, Zenon
<1> DEFINE Good(q) == /\ q \in Seq(S) /\ Len(q) >= Len(seqs[1])
                      /\ \A i \in 1 .. Len(seqs[1]) : q[i] = seqs[1][i]
           Bad == {m \in 1 .. Len(seqs) : ~Good(f[m])}
<1>5. \A m \in 1 .. Len(seqs) : seqs[m] \in Seq(S) /\ Len(seqs[m]) \in Nat
  OBVIOUS
<1>6. Bad = {}
  <2>1. SUFFICES ASSUME Bad # {} PROVE FALSE
    OBVIOUS
  <2>2. PICK m \in Bad : \A y \in Bad : m <= y
    <3>1. Bad \in SUBSET Nat
      BY <1>1
    <3> HIDE DEF Bad
    <3>2. QED BY <2>1, <3>1, LeastOfNaturals
  <2>3. Good(f[1])
    BY <1>1, <1>3, <1>5
  <2>4. m # 1
    BY <2>2, <2>3
  <2>5. m \in 2 .. Len(seqs) /\ m - 1 \in 1 .. Len(seqs) /\ ~(m <= m - 1)
    BY <1>1, <2>2, <2>4
  <2>6. Good(f[m - 1])
    BY <2>2, <2>5
  <2>7. f[m] = f[m - 1] \o seqs[m] /\ seqs[m] \in Seq(S) /\ Len(seqs[1]) \in Nat
    <3>1. 1 \in 1 .. Len(seqs) /\ m \in 1 .. Len(seqs)
      BY <1>1, <2>5
    <3>2. f[m] = f[m - 1] \o seqs[m]
      BY <1>4, <2>5
    <3>3. QED BY <1>5, <3>1, <3>2
  <2> DEFINE q == f[m - 1]
  <2>8. /\ q \o seqs[m] \in Seq(S)
        /\ Len(q \o seqs[m]) = Len(q) + Len(seqs[m])
        /\ \A i \in 1 .. Len(q) : (q \o seqs[m])[i] = q[i]
    <3>1. q \in Seq(S)
      BY <2>6
    <3> HIDE DEF q
    <3>2. QED BY <2>7, <3>1, ConcatProperties
  <2>9. Good(q \o seqs[m])
    <3>1. Len(q) \in Nat /\ Len(seqs[m]) \in Nat
      BY <2>6, <2>7, LenProperties
    <3>2. Good(q)
      BY <2>6
    <3> HIDE DEF q
    <3>3. \A i \in 1 .. Len(seqs[1]) : i \in 1 .. Len(q)
      BY <2>7, <3>1, <3>2
    <3>4. Len(q) + Len(seqs[m]) >= Len(seqs[1])
      BY <2>7, <3>1, <3>2
    <3>5. QED BY <2>8, <3>2, <3>3, <3>4
  <2>10. QED BY <2>2, <2>7, <2>9
<1>7. Good(f[Len(seqs)])
  BY <1>1, <1>6
<1>8. QED BY <1>2, <1>7

\* The first cluster of a directory is where its slots begin.
LEMMA AllSlotsBegin ==
  ASSUME NEW v, NEW c, Chained(v, c),
         \A d \in DOMAIN v.clusters : v.clusters[d] \in Seq(SlotRecord)
  PROVE  /\ AllSlots(v, c) \in Seq(SlotRecord)
         /\ Len(AllSlots(v, c)) >= Len(v.clusters[c])
         /\ \A i \in 1 .. Len(v.clusters[c]) : AllSlots(v, c)[i] = v.clusters[c][i]
<1> DEFINE chain == v.chain[c]
           seqs == [i \in DOMAIN chain |-> v.clusters[chain[i]]]
<1>1. chain \in Seq(DOMAIN v.clusters) /\ chain # <<>> /\ chain[1] = c
  BY DEF Chained
<1> HIDE DEF chain
<1>2. DOMAIN chain = 1 .. Len(chain) /\ Len(chain) \in Nat \ {0}
  BY <1>1, EmptySeq
<1>3. seqs \in Seq(Seq(SlotRecord)) /\ Len(seqs) = Len(chain)
  <2>1. \A i \in 1 .. Len(chain) : chain[i] \in DOMAIN v.clusters
    BY <1>1, <1>2
  <2>2. seqs \in [1 .. Len(chain) -> Seq(SlotRecord)]
    BY <1>2, <2>1
  <2> HIDE DEF seqs
  <2>3. QED BY <1>2, <2>2
<1>4. seqs[1] = v.clusters[c]
  BY <1>1, <1>2
<1>5. AllSlots(v, c) = FlattenSeq(seqs)
  BY DEF AllSlots, chain
<1> HIDE DEF seqs
<1>6. QED BY <1>2, <1>3, <1>4, <1>5, FlattenBegins

\* The slots of a directory up to its end mark: those that t passes.
LEMMA SlotsBegin ==
  ASSUME NEW v, NEW c, Chained(v, c),
         \A d \in DOMAIN v.clusters : v.clusters[d] \in Seq(SlotRecord),
         NEW x \in DOMAIN v.clusters[c],
         \A i \in 1 .. x - 1 : v.clusters[c][i].kind # "end"
  PROVE  /\ Slots(v, c) \in Seq(SlotRecord)
         /\ \A i \in 1 .. x - 1 : i \in DOMAIN Slots(v, c) /\ Slots(v, c)[i] = v.clusters[c][i]
         /\ v.clusters[c][x].kind # "end" =>
              x \in DOMAIN Slots(v, c) /\ Slots(v, c)[x] = v.clusters[c][x]
         /\ v.clusters[c][x].kind = "end" => \A i \in DOMAIN Slots(v, c) : i \in 1 .. x - 1
<1> DEFINE all == AllSlots(v, c)
           Ends == {i \in 1 .. Len(all) : all[i].kind = "end"}
           end == IF Ends # {} THEN Min(Ends) ELSE 0
<1>1. /\ all \in Seq(SlotRecord) /\ Len(all) \in Nat /\ DOMAIN all = 1 .. Len(all)
      /\ \A i \in 1 .. Len(v.clusters[c]) : i \in 1 .. Len(all) /\ all[i] = v.clusters[c][i]
  <2>1. c \in DOMAIN v.clusters
    <3>1. v.chain[c] \in Seq(DOMAIN v.clusters) /\ v.chain[c] # <<>> /\ v.chain[c][1] = c
      BY DEF Chained
    <3>2. QED BY <3>1, EmptySeq
  <2>2. Len(v.clusters[c]) \in Nat
    BY <2>1
  <2>3. all \in Seq(SlotRecord) /\ Len(all) >= Len(v.clusters[c])
    BY AllSlotsBegin
  <2>4. \A i \in 1 .. Len(v.clusters[c]) : all[i] = v.clusters[c][i]
    BY AllSlotsBegin
  <2> HIDE DEF all
  <2>5. Len(all) \in Nat /\ DOMAIN all = 1 .. Len(all)
    BY <2>3
  <2>6. QED BY <2>2, <2>3, <2>4, <2>5
<1>2. x \in 1 .. Len(v.clusters[c]) /\ Len(v.clusters[c]) \in Nat
  <2>1. c \in DOMAIN v.clusters
    <3>1. v.chain[c] \in Seq(DOMAIN v.clusters) /\ v.chain[c] # <<>> /\ v.chain[c][1] = c
      BY DEF Chained
    <3>2. QED BY <3>1, EmptySeq
  <2>2. QED BY <2>1
<1>3. Slots(v, c) = IF end = 0 THEN all ELSE SubSeq(all, 1, end - 1)
  BY DEF Slots, SelectInSeq
<1>4. Ends # {} => end \in Ends /\ \A y \in Ends : end <= y
  <2>1. Ends \in SUBSET Nat
    BY <1>1
  <2> HIDE DEF Ends
  <2>2. ASSUME Ends # {} PROVE \E z \in Ends : \A y \in Ends : z <= y
    BY <2>1, <2>2, LeastOfNaturals
  <2>3. QED BY <2>2 DEF Min
<1> HIDE DEF all, end
<1>5. \A i \in 1 .. x - 1 : i \in 1 .. Len(all) /\ i \notin Ends /\ all[i] = v.clusters[c][i]
  <2>1. \A i \in 1 .. x - 1 : i \in 1 .. Len(v.clusters[c])
    BY <1>2
  <2>2. QED BY <1>1, <2>1
<1>6. x \in 1 .. Len(all) /\ all[x] = v.clusters[c][x]
  BY <1>1, <1>2
<1>7. CASE end = 0
  <2>1. Ends = {}
    BY <1>4, <1>7 DEF Ends
  <2>2. all[x].kind # "end"
    BY <1>6, <2>1
  <2>3. QED BY <1>1, <1>3, <1>5, <1>6, <1>7, <2>2
<1>8. CASE end # 0
  <2>1. end \in Ends /\ end \in 1 .. Len(all) /\ \A y \in Ends : end <= y
    <3>1. Ends # {}
      BY <1>8 DEF end
    <3>2. QED BY <1>4, <3>1
  <2>2. end >= x
    <3>1. ~(end \in 1 .. x - 1)
      BY <1>5, <2>1
    <3>2. QED BY <1>1, <1>2, <2>1, <3>1
  <2>3. all[x].kind = "end" => end = x
    <3>1. ASSUME all[x].kind = "end" PROVE x \in Ends
      BY <1>6, <3>1
    <3> HIDE DEF Ends
    <3>2. QED BY <1>1, <1>2, <2>1, <2>2, <3>1
  <2>4. all[x].kind # "end" => end > x
    <3>1. all[x].kind # "end" => end # x
      BY <2>1
    <3>2. QED BY <1>1, <1>2, <2>1, <2>2, <3>1
  <2> DEFINE s == SubSeq(all, 1, end - 1)
  <2>5. /\ s \in Seq(SlotRecord) /\ DOMAIN s = 1 .. end - 1
        /\ \A i \in 1 .. end - 1 : s[i] = all[i]
    <3>1. end \in 1 .. Len(all) /\ Len(all) \in Nat /\ all \in Seq(SlotRecord)
      BY <1>1, <2>1
    <3>2. QED BY <3>1
  <2> HIDE DEF s, Ends
  <2>6. Slots(v, c) = s
    BY <1>3, <1>8 DEF s
  <2>7. end \in Nat
    BY <1>1, <2>1
  <2>8. \A i \in 1 .. x - 1 : i \in 1 .. end - 1
    BY <1>2, <2>2, <2>7
  <2>9. all[x].kind # "end" => x \in 1 .. end - 1
    BY <1>2, <2>4, <2>7
  <2>10. all[x].kind = "end" => DOMAIN s = 1 .. x - 1
    BY <2>3, <2>5
  <2>11. QED BY <1>5, <1>6, <2>5, <2>6, <2>8, <2>9, <2>10
<1>9. QED BY <1>7, <1>8

\* A search for name in directory d, whose first cluster is c, is at slot x.
Searches(v, d, c, x, name) ==
    /\ d.dir /\ d.cluster = c /\ c # 0 /\ Chained(v, c)
    /\ \A e \in DOMAIN v.clusters : v.clusters[e] \in Seq(SlotRecord)
    /\ x \in DOMAIN v.clusters[c] /\ Passed(v.clusters[c], x, name)

\* What t looks at next: the entry that is called name, or the end of the
\* directory, when everything before was passed.
LEMMA MemberFound ==
  ASSUME NEW v, NEW d, NEW c, NEW x, NEW name, Searches(v, d, c, x, name),
         v.clusters[c][x].kind = "entry",
         TrueName(v.clusters[c], x) = name
  PROVE  Member(v, d, name) = Meaning(v.clusters[c][x])
<1> DEFINE q == v.clusters[c]
           slots == Slots(v, c)
           named == {i \in DOMAIN slots : slots[i].kind = "entry" /\ TrueName(slots, i) = name}
<1>0. /\ d.dir /\ d.cluster = c /\ c # 0 /\ Chained(v, c)
      /\ \A e \in DOMAIN v.clusters : v.clusters[e] \in Seq(SlotRecord)
      /\ x \in DOMAIN q /\ Passed(q, x, name)
  BY DEF Searches
<1>1. \A i \in 1 .. x - 1 : q[i].kind # "end"
  BY <1>0 DEF Passed
<1>2. /\ slots \in Seq(SlotRecord) /\ x \in DOMAIN slots /\ slots[x] = q[x]
      /\ \A i \in 1 .. x - 1 : i \in DOMAIN slots /\ slots[i] = q[i]
  BY <1>0, <1>1, SlotsBegin
<1>3. Member(v, d, name) = IF named = {} THEN Missing ELSE Meaning(slots[Min(named)])
  BY <1>0 DEF Member, Meaning
<1> HIDE DEF slots
<1>4. DOMAIN slots = 1 .. Len(slots) /\ Len(slots) \in Nat /\ x \in Nat
  BY <1>2
<1>5. \A i \in 1 .. x : i > 1 => i - 1 \in 1 .. x - 1
  BY <1>4
<1>6. \A i \in 1 .. x : slots[i] = q[i] /\ TrueName(slots, i) = TrueName(q, i)
  <2> TAKE i \in 1 .. x
  <2>1. i = x \/ i \in 1 .. x - 1
    BY <1>4
  <2>2. slots[i] = q[i] /\ (i > 1 => slots[i - 1] = q[i - 1])
    BY <1>2, <1>5, <2>1
  <2>3. QED BY <2>2 DEF TrueName
<1>7. x \in named
  <2>1. x \in 1 .. x
    BY <1>2, <1>4
  <2>2. QED BY <1>2, <1>6, <2>1
<1>8. \A i \in named : x <= i
  <2> SUFFICES ASSUME NEW i \in named, ~(x <= i) PROVE FALSE
    OBVIOUS
  <2>1. i \in 1 .. x - 1 /\ i \in 1 .. x
    BY <1>4
  <2>2. q[i].kind = "entry" => TrueName(q, i) # name
    BY <1>0, <2>1 DEF Passed
  <2>3. QED BY <1>6, <2>1, <2>2
<1>9. Min(named) = x
  <2>1. \A i \in named : i \in Nat
    BY <1>4
  <2> HIDE DEF named
  <2>2. \A y \in named : (\A i \in named : y <= i) => y = x
    BY <1>4, <1>7, <1>8, <2>1
  <2>3. QED BY <1>7, <1>8, <2>2 DEF Min
<1>10. QED BY <1>2, <1>3, <1>7, <1>9

LEMMA MemberMissing ==
  ASSUME NEW v, NEW d, NEW c, NEW x, NEW name, Searches(v, d, c, x, name),
         v.clusters[c][x].kind = "end"
  PROVE  Member(v, d, name) = Missing
<1> DEFINE q == v.clusters[c]
           slots == Slots(v, c)
           named == {i \in DOMAIN slots : slots[i].kind = "entry" /\ TrueName(slots, i) = name}
<1>0. /\ d.dir /\ d.cluster = c /\ c # 0 /\ Chained(v, c)
      /\ \A e \in DOMAIN v.clusters : v.clusters[e] \in Seq(SlotRecord)
      /\ x \in DOMAIN q /\ Passed(q, x, name)
  BY DEF Searches
<1>1. \A i \in 1 .. x - 1 : q[i].kind # "end"
  BY <1>0 DEF Passed
<1>2. /\ slots \in Seq(SlotRecord) /\ \A i \in DOMAIN slots : i \in 1 .. x - 1
      /\ \A i \in 1 .. x - 1 : slots[i] = q[i]
  <2>1. slots \in Seq(SlotRecord)
    BY <1>0, <1>1, SlotsBegin
  <2>2. \A i \in 1 .. x - 1 : slots[i] = q[i]
    BY <1>0, <1>1, SlotsBegin
  <2>3. \A i \in DOMAIN slots : i \in 1 .. x - 1
    BY <1>0, <1>1, SlotsBegin
  <2>4. QED BY <2>1, <2>2, <2>3
<1>3. named = {} => Member(v, d, name) = Missing
  BY <1>0 DEF Member
<1> HIDE DEF slots
<1>4. x \in Nat
  <2>1. q \in Seq(SlotRecord)
    <3>1. v.chain[c] \in Seq(DOMAIN v.clusters) /\ v.chain[c] # <<>>
          /\ v.chain[c][1] = c
      BY <1>0 DEF Chained
    <3>2. QED BY <1>0, <3>1, EmptySeq
  <2>2. QED BY <1>0, <2>1
<1>5. \A i \in 1 .. x - 1 : slots[i].kind = "entry" => TrueName(slots, i) # name
  <2> TAKE i \in 1 .. x - 1
  <2>1. i > 1 => i - 1 \in 1 .. x - 1
    BY <1>4
  <2>2. TrueName(slots, i) = TrueName(q, i)
    BY <1>2, <2>1 DEF TrueName
  <2>3. QED BY <1>0, <1>2, <2>2 DEF Passed
<1>6. QED BY <1>2, <1>3, <1>5

-----------------------------------------------------------------------------
(* What changes, and what does not. *)

LEMMA PortOfIn == \A id : PortOf(id) = PortIn(drives, id)
BY DEF PortOf, PortIn

LEMMA Written ==
  ASSUME NEW p \in DOMAIN Volumes, NEW v, v = Volumes[p]
  PROVE  /\ Chained(v, v.root)
         /\ \A c \in DOMAIN v.clusters :
            /\ v.clusters[c] \in Seq(SlotRecord)
            /\ \A x \in DOMAIN v.clusters[c] :
               LET s == v.clusters[c][x] IN
               /\ s.kind \in {"lfn", "entry"} => s.name \notin {NoName, Torn}
               /\ s.kind = "lfn" /\ x < Len(v.clusters[c]) =>
                     v.clusters[c][x + 1].kind = "entry"
               /\ s.kind = "entry" /\ s.dir => s.cluster = 0 \/ Chained(v, s.cluster)
               /\ s.kind = "entry" /\ s.size > 0 =>
                     /\ s.cluster \in DOMAIN v.chain
                     /\ v.chain[s.cluster] \in Seq(Nat)
                     /\ Len(v.chain[s.cluster]) >= s.size
                     /\ v.chain[s.cluster][1] = s.cluster
<1> DEFINE W(u) == /\ Chained(u, u.root)
                   /\ \A c \in DOMAIN u.clusters :
                      /\ u.clusters[c] \in Seq(SlotRecord)
                      /\ \A x \in DOMAIN u.clusters[c] :
                         LET s == u.clusters[c][x] IN
                         /\ s.kind \in {"lfn", "entry"} => s.name \notin {NoName, Torn}
                         /\ s.kind = "lfn" /\ x < Len(u.clusters[c]) =>
                               u.clusters[c][x + 1].kind = "entry"
                         /\ s.kind = "entry" /\ s.dir => s.cluster = 0 \/ Chained(u, s.cluster)
                         /\ s.kind = "entry" /\ s.size > 0 =>
                               /\ s.cluster \in DOMAIN u.chain
                               /\ u.chain[s.cluster] \in Seq(Nat)
                               /\ Len(u.chain[s.cluster]) >= s.size
                               /\ u.chain[s.cluster][1] = s.cluster
<1>1. W(Volumes[p])
  BY DirectoriesAssumption
<1>2. W(v)
  <2> HIDE DEF W
  <2>1. QED BY <1>1
<1>3. QED BY <1>2, Zenon

\* A thread keeps what it knows through a step of another, which may at most
\* write into the buffer and then leaves a doubt.
LEMMA TruthStays ==
  ASSUME NEW t, Truth(t), drives' = drives, Booted => Booted',
         pc'[t] = pc[t], frame'[t] = frame[t], result'[t] = result[t], object'[t] = object[t],
         \/ doubt'[t] = doubt[t] /\ cstrbuffer' = cstrbuffer
         \/ doubt'[t] = doubt[t] /\ pc[t] \notin {"convert", "compare"}
         \/ doubt'[t] # {} /\ pc[t] \in {"convert", "compare"}
  PROVE  Truth(t)'
<1>1. (result[t].call # "none" => Booted)'
  BY DEF Truth
<1>2. Following(t) => Following(t)'
  BY DEF Following, Depth, Current
<1>3. Scanned(t) /\ doubt'[t] = {} => Scanned(t)'
  BY DEF Scanned, Depth, Current, Cluster, Slot
<1>4. Returned(t) => Returned(t)'
  BY DEF Returned
<1>5. Lost(t) => Lost(t)'
  BY DEF Lost
<1>6. ReadRight(t) => ReadRight(t)'
  BY DEF ReadRight
<1>7. (pc[t] # "idle" => Following(t) /\ (doubt[t] = {} => Scanned(t)))'
  BY <1>2, <1>3 DEF Truth
<1>8. (result[t].call = "lookup" /\ doubt[t] = {} => Returned(t) /\ Lost(t))'
  <2>1. CASE doubt'[t] = doubt[t]
    BY <1>4, <1>5, <2>1 DEF Truth
  <2>2. CASE doubt'[t] # {}
    BY <2>2
  <2>3. QED BY <2>1, <2>2
<1>9. (result[t].call = "read" /\ doubt[t] = {} => ReadRight(t))'
  <2>1. CASE doubt'[t] = doubt[t]
    BY <1>6, <2>1 DEF Truth
  <2>2. CASE doubt'[t] # {}
    BY <2>2
  <2>3. QED BY <2>1, <2>2
<1>10. QED BY <1>1, <1>7, <1>8, <1>9 DEF Truth

\* What is known of a lookup that searches a directory.
LEMMA Searching ==
  ASSUME FilesInv, NEW t \in Threads, Truth(t), pc[t] \in {"scan", "convert", "compare"},
         doubt[t] = {}, NEW v, v = Volumes[frame[t].volume], NEW c, c = Current(t).cluster
  PROVE  /\ frame[t].volume \in DOMAIN Volumes /\ Current(t).dir
         /\ c # 0 /\ c \in DOMAIN v.clusters /\ Chained(v, c)
         /\ Cluster(t) = v.clusters[c] /\ v.clusters[c] \in Seq(SlotRecord)
         /\ frame[t].x \in 1 .. Len(v.clusters[c]) /\ frame[t].x \in DOMAIN v.clusters[c]
         /\ Slot(t) = v.clusters[c][frame[t].x]
<1>1. Placed(t) /\ Following(t) /\ Scanned(t)
  BY DEF FilesInv, Truth
<1>2. Lookup(t)
  BY <1>1 DEF Placed
<1>3. /\ frame[t].volume \in DOMAIN Volumes /\ Current(t).dir
      /\ c \in DOMAIN v.clusters /\ frame[t].x \in DOMAIN Cluster(t)
  BY <1>2 DEF Lookup
<1>4. c # 0 /\ Chained(v, c)
  BY <1>1, <1>3 DEF Following, Scanned
<1>5. Cluster(t) = v.clusters[c] /\ Slot(t) = v.clusters[c][frame[t].x]
  BY DEF Cluster, Slot
<1>6. v.clusters[c] \in Seq(SlotRecord)
  BY <1>3, Written
<1>7. DOMAIN v.clusters[c] = 1 .. Len(v.clusters[c])
  BY <1>6
<1>8. QED BY <1>3, <1>4, <1>5, <1>6, <1>7

\* How far t is in its path.
LEMMA OnItsWay ==
  ASSUME FilesInv, NEW t \in Threads, Truth(t), pc[t] # "idle",
         NEW names, names = result[t].path.names
  PROVE  /\ Following(t) /\ Lookup(t) /\ names \in Seq(STRING)
         /\ Depth(t) \in 0 .. Len(names) - 1
         /\ Len(frame[t].names) \in Nat \ {0} /\ Len(names) \in Nat
         /\ Len(frame[t].names) + Depth(t) = Len(names)
         /\ Head(frame[t].names) = names[Depth(t) + 1]
<1>1. Following(t) /\ Lookup(t)
  BY DEF Truth, FilesInv, Placed
<1>2. names \in Seq(STRING) /\ Len(names) \in Nat
  <2>1. names \in Seq(STRING)
    BY <1>1, DirectoriesAssumption DEF Following
  <2>2. QED BY <2>1
<1>3. frame[t].names \in Seq(STRING) /\ Len(frame[t].names) \in 1 .. Len(names)
  BY <1>1 DEF Following
<1>4. Head(frame[t].names) = frame[t].names[1]
  BY <1>2, <1>3
<1>5. frame[t].names[1] = names[Depth(t) + 1]
  BY <1>1, <1>2, <1>3 DEF Following
<1>6. Depth(t) = Len(names) - Len(frame[t].names)
  BY DEF Depth
<1> DEFINE l == Len(frame[t].names)
           n == Len(names)
<1>7. l \in 1 .. n /\ n \in Nat
  BY <1>2, <1>3
<1>8. Depth(t) = n - l
  BY <1>6
<1> HIDE DEF l, n
<1>9. l \in Nat \ {0} /\ n - l \in 0 .. n - 1 /\ l + (n - l) = n
  BY <1>7
<1>10. /\ Depth(t) \in 0 .. n - 1 /\ l \in Nat \ {0} /\ l + Depth(t) = n
  BY <1>8, <1>9
<1>11. QED BY <1>1, <1>2, <1>4, <1>5, <1>10 DEF l, n

\* FindEntry returns: what it returns with is what the next name leads to.
LEMMA LeaveTruth ==
  ASSUME FilesInv, NEW t \in Threads, Truth(t), pc[t] # "idle", drives' = drives, port' = port,
         DOMAIN result = Threads,
         NEW h, NEW current, NEW status, Leave(t, h, current, status),
         status \in {"Ok", "Error", "NotFound", "ReadError"},
         NEW v, v = Volumes[frame[t].volume],
         current.dir => current.cluster = 0 \/ Chained(v, current.cluster),
         NEW names, names = result[t].path.names,
         doubt'[t] = {} =>
            /\ status = "Ok" => /\ Along(v, names)[Depth(t) + 1] = Meaning(current)
                                /\ IsEntry(v, Meaning(current))
            /\ status \in {"NotFound", "Error"} => Along(v, names)[Depth(t) + 1] = Missing
  PROVE  Truth(t)'
<1> DEFINE f == frame[t]
           path == result[t].path
           k == Depth(t)
           l == Len(f.names)
           n == Len(names)
<1>1. /\ Following(t) /\ Lookup(t) /\ names \in Seq(STRING) /\ k \in 0 .. Len(names) - 1
      /\ Len(f.names) \in Nat \ {0} /\ Len(names) \in Nat /\ Len(f.names) + k = Len(names)
  BY OnItsWay
<1>a. k \in 0 .. n - 1 /\ l \in Nat \ {0} /\ n \in Nat /\ l + k = n
  BY <1>1
<1> HIDE DEF k, l, n
<1>b. n - (l - 1) = k + 1 /\ (l = 1 => k + 1 = n) /\ k + 1 \in 0 .. n
      /\ (l # 1 => l - 1 \in 1 .. n) /\ k \in Nat
  BY <1>a
<1>2. /\ result[t].call = "pending" /\ path \in Paths[t] /\ f.volume = PortIn(drives, path.drive)
      /\ f.names \in Seq(STRING)
      /\ \A i \in 1 .. l : f.names[i] = names[k + i]
  BY <1>1 DEF Following, k, l
<1>3. Booted /\ Booted'
  <2>1. Booted
    BY <1>2 DEF Truth
  <2>2. QED BY <2>1 DEF Booted
<1>4. /\ DOMAIN object = Threads /\ DOMAIN pc = Threads /\ DOMAIN frame = Threads
      /\ DOMAIN object[t] = Variables(t)
  BY DEF FilesInv, Shapes
<1>5. f.info \in Objects[t] /\ f.info # "current" /\ f.volume \in DOMAIN Volumes
  BY <1>1, ObjectsAssumption DEF Lookup
<1>6. CASE status = "Ok" /\ ~LastName(t)
  <2>1. /\ object' = [object EXCEPT ![t]["current"] = current]
        /\ frame' = [frame EXCEPT ![t] =
               [NoFrame EXCEPT !.path = f.path, !.info = f.info, !.volume = f.volume,
                               !.names = Tail(f.names)]]
        /\ pc' = [pc EXCEPT ![t] = "open"]
        /\ result' = result
    BY <1>6 DEF Leave
  <2>2. object'[t]["current"] = current
    BY <1>4, <2>1 DEF Variables
  <2>3. /\ frame'[t].volume = f.volume /\ frame'[t].names = Tail(f.names)
        /\ frame'[t].long = NoName /\ pc'[t] = "open" /\ result'[t] = result[t]
    BY <1>4, <2>1 DEF NoFrame
  <2>4. l # 1
    BY <1>6 DEF LastName, l
  <2> DEFINE q == Tail(f.names)
  <2>5. q \in Seq(STRING) /\ Len(q) = l - 1 /\ \A i \in 1 .. l - 1 : q[i] = f.names[i + 1]
    <3>1. f.names # <<>>
      BY <1>a DEF l
    <3>2. /\ q \in Seq(STRING) /\ Len(q) = Len(f.names) - 1
          /\ \A i \in 1 .. Len(q) : q[i] = f.names[i + 1]
      BY <1>2, <3>1, HeadTailProperties
    <3>3. QED BY <3>2 DEF l
  <2> HIDE DEF q
  <2>6. Depth(t)' = k + 1
    <3>1. Depth(t)' = Len(result'[t].path.names) - Len(frame'[t].names)
      BY DEF Depth
    <3>2. Depth(t)' = n - (l - 1)
      BY <2>3, <2>5, <3>1 DEF n, q
    <3>3. QED BY <1>b, <3>2
  <2>7. \A i \in 1 .. l - 1 : q[i] = names[k + 1 + i]
    <3> TAKE i \in 1 .. l - 1
    <3>1. i + 1 \in 1 .. l /\ k + (i + 1) = k + 1 + i
      BY <1>a, <1>b
    <3>2. f.names[i + 1] = names[k + (i + 1)]
      BY <1>2, <3>1
    <3>3. QED BY <2>5, <3>1, <3>2
  <2>8. l - 1 \in 1 .. n
    BY <1>b, <2>4
  <2>9. Following(t)'
    BY <1>2, <2>2, <2>3, <2>5, <2>6, <2>7, <2>8 DEF Following, Current, q, n
  <2>10. doubt'[t] = {} => Scanned(t)'
    BY <1>2, <1>6, <2>2, <2>3, <2>6 DEF Scanned, Current, k
  <2>11. result'[t].call = "pending"
    BY <1>2, <2>3
  <2>12. QED BY <1>3, <2>9, <2>10, <2>11 DEF Truth
<1>7. CASE ~(status = "Ok" /\ ~LastName(t))
  <2>1. /\ object' = [object EXCEPT ![t]["current"] = NoObject,
                          ![t][f.info] = IF LastName(t) THEN current ELSE @]
        /\ pc' = [pc EXCEPT ![t] = "idle"]
        /\ Looked(t, path, status, f.info)
    BY <1>7 DEF Leave
  <2>2. pc'[t] = "idle"
    BY <1>4, <2>1
  <2>3. result'[t] = [call |-> "lookup", path |-> path, status |-> status, info |-> f.info]
    BY <2>1 DEF Looked
  <2>4. LastName(t) => object'[t][f.info] = current
    BY <1>4, <1>5, <2>1 DEF Variables
  <2>5. status = "Ok" => LastName(t) /\ k + 1 = n
    BY <1>7, <1>b DEF LastName, l
  <2>6. PortIn(drives', path.drive) = f.volume
    BY <1>2
  <2>7. Leads(drives', path) = Along(v, names)[n]
    BY <2>6 DEF Leads, n
  <2>8. ASSUME doubt'[t] = {} PROVE Returned(t)'
    BY <1>5, <2>3, <2>4, <2>5, <2>6, <2>7, <2>8 DEF Returned, k
  <2>9. ASSUME doubt'[t] = {} PROVE Lost(t)'
    <3>1. status \in {"NotFound", "Error"} => Along(v, names)[n] = Missing
      BY <1>1, <1>b, <2>9, MissingStays DEF k, n
    <3>2. status # "BadVolume"
      OBVIOUS
    <3>3. QED BY <2>3, <2>7, <3>1, <3>2 DEF Lost
  <2>10. QED BY <1>3, <2>2, <2>3, <2>8, <2>9 DEF Truth
<1>8. QED BY <1>6, <1>7

\* What the name that t looks for leads to.
LEMMA NextName ==
  ASSUME FilesInv, NEW t \in Threads, Truth(t), pc[t] # "idle", Scanned(t),
         NEW v, v = Volumes[frame[t].volume], NEW names, names = result[t].path.names
  PROVE  Along(v, names)[Depth(t) + 1] = Member(v, Meaning(Current(t)), Head(frame[t].names))
<1>1. /\ names \in Seq(STRING) /\ Depth(t) \in 0 .. Len(names) - 1 /\ Len(names) \in Nat
      /\ Head(frame[t].names) = names[Depth(t) + 1]
  BY OnItsWay
<1>2. Depth(t) + 1 \in 1 .. Len(names) /\ Depth(t) + 1 - 1 = Depth(t)
  BY <1>1
<1>3. Along(v, names)[Depth(t)] = Meaning(Current(t))
  BY DEF Scanned
<1>4. QED BY <1>1, <1>2, <1>3, AlongStep

\* Slot x leaves its long name to the slot after it.
LEMMA LongAfter ==
  ASSUME NEW q, NEW x \in Nat \ {0}
  PROVE  LongBefore(q, x + 1) = IF q[x].kind = "lfn" THEN q[x].name ELSE NoName
<1> DEFINE y == x + 1
<1>1. y > 1 /\ y - 1 = x
  OBVIOUS
<1> HIDE DEF y
<1>2. LongBefore(q, y) = IF q[x].kind = "lfn" THEN q[x].name ELSE NoName
  BY <1>1, Zenon DEF LongBefore
<1>3. QED BY <1>2 DEF y

\* FindEntry goes on with the next slot.
LEMMA AdvanceTruth ==
  ASSUME FilesInv, NEW t \in Threads, Truth(t), pc[t] \in {"scan", "compare"},
         drives' = drives, port' = port, NEW long, NEW exact, Advance(t, long, exact),
         doubt'[t] = {} =>
            /\ doubt[t] = {} /\ Slot(t).kind # "end"
            /\ Slot(t).kind = "lfn" => AfterSlot(t) = "scan"
            /\ Slot(t).kind = "entry" => TrueName(Cluster(t), frame[t].x) # Head(frame[t].names)
            /\ long = LongBefore(Cluster(t), frame[t].x + 1)
  PROVE  Truth(t)'
<1> DEFINE f == frame[t]
           v == Volumes[f.volume]
           c == Current(t).cluster
           q == v.clusters[c]
<1>1. Following(t) /\ Lookup(t) /\ result[t].call = "pending" /\ Booted /\ Booted'
  BY DEF FilesInv, Placed, Truth, Following, Booted
<1>2. /\ DOMAIN pc = Threads /\ DOMAIN frame = Threads
      /\ DOMAIN f = FrameFields
  BY <1>1 DEF FilesInv, Shapes, Lookup
<1>3. /\ frame' = [frame EXCEPT ![t].x = @ + 1, ![t].long = long, ![t].exact = exact]
      /\ pc' = [pc EXCEPT ![t] = AfterSlot(t)]
      /\ object' = object /\ result' = result
  BY DEF Advance
<1>4. /\ frame'[t].x = f.x + 1 /\ frame'[t].long = long
      /\ frame'[t].names = f.names /\ frame'[t].volume = f.volume
  BY <1>2, <1>3 DEF FrameFields
<1>5. pc'[t] = IF f.x < Len(Cluster(t)) THEN "scan" ELSE "read"
  BY <1>2, <1>3 DEF AfterSlot
<1>6. Following(t)'
  BY <1>1, <1>3, <1>4 DEF Following, Depth, Current
<1>7. ASSUME doubt'[t] = {} PROVE Scanned(t)'
  <2>1. /\ doubt[t] = {} /\ Scanned(t) /\ Slot(t).kind # "end"
        /\ Slot(t).kind = "lfn" => AfterSlot(t) = "scan"
        /\ Slot(t).kind = "entry" => TrueName(Cluster(t), f.x) # Head(f.names)
        /\ long = LongBefore(Cluster(t), f.x + 1)
    BY <1>7 DEF Truth
  <2>2. /\ f.volume \in DOMAIN Volumes /\ c # 0 /\ c \in DOMAIN v.clusters
        /\ Cluster(t) = q /\ q \in Seq(SlotRecord)
        /\ f.x \in 1 .. Len(q) /\ f.x \in DOMAIN q /\ Slot(t) = q[f.x]
    BY <2>1, Searching
  <2>3. Cluster(t)' = q /\ (Current(t).cluster # 0)'
    BY <1>3, <1>4, <2>2 DEF Cluster, Current
  <2>4. (Meaning(Current(t)) = Along(Volumes[frame[t].volume], result[t].path.names)[Depth(t)])'
    BY <1>3, <1>4, <2>1 DEF Scanned, Current, Depth
  <2> DEFINE x == f.x
  <2>5. /\ Passed(q, x, Head(f.names)) /\ x \in 1 .. Len(q)
        /\ Slot(t) = q[x] /\ Cluster(t) = q
    BY <2>1, <2>2 DEF Scanned
  <2>6. AfterSlot(t) = IF x < Len(Cluster(t)) THEN "scan" ELSE "read"
    BY DEF AfterSlot
  <2>7. q \in Seq(SlotRecord)
    BY <2>2
  <2>8. /\ Slot(t).kind # "end" /\ (Slot(t).kind = "lfn" => AfterSlot(t) = "scan")
        /\ Slot(t).kind = "entry" => TrueName(Cluster(t), x) # Head(f.names)
        /\ long = LongBefore(Cluster(t), x + 1)
    BY <2>1
  <2> HIDE DEF x, q
  <2>9. Len(q) \in Nat
    BY <2>7
  <2>10. /\ q[x].kind # "end" /\ (q[x].kind = "lfn" => x < Len(q))
         /\ q[x].kind = "entry" => TrueName(q, x) # Head(f.names)
         /\ long = IF q[x].kind = "lfn" THEN q[x].name ELSE NoName
    <3>1. long = LongBefore(q, x + 1)
      BY <2>5, <2>8
    <3>2. x \in Nat \ {0}
      BY <2>5, <2>9
    <3>3. long = IF q[x].kind = "lfn" THEN q[x].name ELSE NoName
      BY <3>1, <3>2, LongAfter
    <3>4. QED BY <2>5, <2>6, <2>8, <3>3, Zenon
  <2>11. CASE x < Len(q)
    <3>1. pc'[t] = "scan"
      BY <1>5, <2>5, <2>11 DEF x
    <3>2. Passed(q, x + 1, Head(f.names))
      <4>1. \A i \in 1 .. (x + 1) - 1 : /\ q[i].kind # "end"
                                        /\ q[i].kind = "entry" => TrueName(q, i) # Head(f.names)
        <5> TAKE i \in 1 .. (x + 1) - 1
        <5>1. i = x \/ i \in 1 .. x - 1
          BY <2>5, <2>9
        <5>2. CASE i = x
          BY <2>10, <5>2, Zenon
        <5>3. CASE i \in 1 .. x - 1
          BY <2>5, <5>3, Zenon DEF Passed
        <5>4. QED BY <5>1, <5>2, <5>3, Zenon
      <4>2. QED BY <4>1, Zenon DEF Passed
    <3>3. long = LongBefore(q, x + 1)
      BY <2>5, <2>8
    <3>4. QED BY <1>4, <2>3, <2>4, <3>1, <3>2, <3>3 DEF Scanned, x
  <2>12. CASE ~(x < Len(q))
    <3>1. pc'[t] = "read"
      BY <1>5, <2>5, <2>12 DEF x
    <3>2. long = NoName
      <4>1. q[x].kind # "lfn"
        BY <2>10, <2>12, Zenon
      <4>2. QED BY <2>10, <4>1, Zenon
    <3>3. QED BY <1>4, <2>3, <2>4, <3>1, <3>2 DEF Scanned
  <2>13. QED BY <2>11, <2>12
<1>8. pc'[t] # "idle" /\ result'[t].call = "pending"
  BY <1>1, <1>3, <1>5
<1>9. QED BY <1>1, <1>6, <1>7, <1>8 DEF Truth

\* FindEntry takes the slot.
LEMMA FoundTruth ==
  ASSUME FilesInv, NEW t \in Threads, Truth(t), pc[t] \in {"scan", "compare"},
         drives' = drives, port' = port, DOMAIN result = Threads,
         NEW name, Found(t, name), Slot(t).kind = "entry",
         doubt'[t] = {} =>
            doubt[t] = {} /\ TrueName(Cluster(t), frame[t].x) = Head(frame[t].names)
  PROVE  Truth(t)'
<1> DEFINE f == frame[t]
           v == Volumes[f.volume]
           c == Current(t).cluster
           q == v.clusters[c]
           s == q[f.x]
           names == result[t].path.names
<1>1. PICK h, entry : /\ entry = FromDirectoryEntry(h, t, Current(t).drive, Slot(t), name)
                      /\ Leave(t, Replaced(h, Current(t), entry), entry, "Ok")
  BY DEF Found
<1>2. Lookup(t)
  BY DEF FilesInv, Placed
<1>3. /\ f.volume \in DOMAIN Volumes /\ c \in DOMAIN v.clusters
      /\ f.x \in DOMAIN q /\ Slot(t) = s
  BY <1>2 DEF Lookup, Cluster, Slot
<1>4. entry.dir = s.dir /\ entry.cluster = s.cluster /\ entry.size = s.size
  BY <1>1, <1>3 DEF FromDirectoryEntry
<1>5. Meaning(entry) = Meaning(s)
  BY <1>4 DEF Meaning
<1>6. entry.dir => entry.cluster = 0 \/ Chained(v, entry.cluster)
  <2>1. s.kind = "entry"
    BY <1>3
  <2>2. s.kind = "entry" /\ s.dir => s.cluster = 0 \/ Chained(v, s.cluster)
    BY <1>3, Written
  <2> HIDE DEF s, v
  <2>3. QED BY <1>4, <2>1, <2>2
<1>7. IsEntry(v, Meaning(entry))
  BY <1>3, <1>5 DEF IsEntry
<1>8. ASSUME doubt'[t] = {} PROVE Along(v, names)[Depth(t) + 1] = Meaning(entry)
  <2>1. doubt[t] = {} /\ Scanned(t) /\ TrueName(Cluster(t), f.x) = Head(f.names)
    BY <1>8 DEF Truth
  <2>2. /\ f.volume \in DOMAIN Volumes /\ Current(t).dir
        /\ c # 0 /\ c \in DOMAIN v.clusters /\ Chained(v, c) /\ Cluster(t) = q
    BY <2>1, Searching
  <2>3. Along(v, names)[Depth(t) + 1] = Member(v, Meaning(Current(t)), Head(f.names))
    BY <2>1, NextName
  <2>4. Passed(q, f.x, Head(f.names)) /\ TrueName(q, f.x) = Head(f.names)
    BY <2>1, <2>2 DEF Scanned
  <2> DEFINE d == Meaning(Current(t))
  <2>5. d.dir /\ d.cluster = c
    BY <2>2 DEF Meaning
  <2>6. \A e \in DOMAIN v.clusters : v.clusters[e] \in Seq(SlotRecord)
    BY <2>2, Written
  <2> HIDE DEF d, v, c
  <2>7. Searches(v, d, c, f.x, Head(f.names))
    BY <1>3, <2>2, <2>4, <2>5, <2>6 DEF Searches
  <2>8. q[f.x].kind = "entry"
    BY <1>3
  <2>9. TrueName(v.clusters[c], f.x) = Head(f.names)
    BY <2>4
  <2>10. Member(v, d, Head(f.names)) = Meaning(q[f.x])
    <3> HIDE DEF f
    <3>1. QED BY <2>7, <2>8, <2>9, MemberFound
  <2>11. QED BY <1>5, <2>3, <2>10 DEF d
<1>9. QED
  <2> HIDE DEF v, names
  <2>1. Along(v, names)[Depth(t) + 1] = Meaning(entry) \/ doubt'[t] # {}
    BY <1>8
  <2>2. QED BY <1>1, <1>6, <1>7, <2>1, LeaveTruth DEF v, names

\* FindEntry meets the end mark, or what it searches is no directory.
LEMMA EndTruth ==
  ASSUME FilesInv, NEW t \in Threads, Truth(t), pc[t] = "scan", DOMAIN result = Threads,
         drives' = drives, port' = port, doubt' = doubt, AtEnd(t)
  PROVE  Truth(t)'
<1> DEFINE f == frame[t]
           v == Volumes[f.volume]
           c == Current(t).cluster
           q == v.clusters[c]
           names == result[t].path.names
<1>1. Slot(t).kind = "end" /\ Leave(t, Closed(t), Current(t), "NotFound")
  BY DEF AtEnd
<1>2. Following(t)
  BY DEF Truth
<1>3. Current(t).dir => Current(t).cluster = 0 \/ Chained(v, Current(t).cluster)
  BY <1>2 DEF Following
<1>4. ASSUME doubt'[t] = {} PROVE Along(v, names)[Depth(t) + 1] = Missing
  <2>1. doubt[t] = {} /\ Scanned(t)
    BY <1>4 DEF Truth
  <2>2. /\ f.volume \in DOMAIN Volumes /\ Current(t).dir
        /\ c # 0 /\ c \in DOMAIN v.clusters /\ Chained(v, c) /\ Cluster(t) = q
        /\ f.x \in DOMAIN q /\ Slot(t) = q[f.x]
    BY <2>1, Searching
  <2>3. Along(v, names)[Depth(t) + 1] = Member(v, Meaning(Current(t)), Head(f.names))
    BY <2>1, NextName
  <2>4. Passed(q, f.x, Head(f.names))
    BY <2>1, <2>2 DEF Scanned
  <2> DEFINE d == Meaning(Current(t))
  <2>5. d.dir /\ d.cluster = c
    BY <2>2 DEF Meaning
  <2>6. \A e \in DOMAIN v.clusters : v.clusters[e] \in Seq(SlotRecord)
    BY <2>2, Written
  <2> HIDE DEF d, v, c
  <2>7. Searches(v, d, c, f.x, Head(f.names))
    BY <2>2, <2>4, <2>5, <2>6 DEF Searches
  <2>8. q[f.x].kind = "end"
    BY <1>1, <2>2
  <2>9. Member(v, d, Head(f.names)) = Missing
    <3> HIDE DEF f
    <3>1. QED BY <2>7, <2>8, MemberMissing
  <2>10. QED BY <2>3, <2>9 DEF d
<1>5. QED
  <2> HIDE DEF v, names
  <2>1. Along(v, names)[Depth(t) + 1] = Missing \/ doubt'[t] # {}
    BY <1>4
  <2>2. QED BY <1>1, <1>3, <2>1, LeaveTruth DEF v, names

LEMMA FindEntryTruth ==
  ASSUME FilesInv, NEW t \in Threads, Truth(t), DOMAIN result = Threads, DOMAIN doubt = Threads,
         FindEntry(t)
  PROVE  Truth(t)'
<1> DEFINE f == frame[t]
           v == Volumes[f.volume]
           names == result[t].path.names
<1>1. pc[t] = "open" /\ drives' = drives /\ port' = port /\ cstrbuffer' = cstrbuffer
  BY DEF FindEntry, Unchanged
<1>2. Following(t) /\ Lookup(t) /\ Booted /\ Booted' /\ result[t].call = "pending"
  BY <1>1 DEF FilesInv, Placed, Truth, Following, Booted
<1>3. CASE ~Current(t).dir
  <2>1. Leave(t, heap, Current(t), "Error") /\ doubt' = doubt
    BY <1>3 DEF FindEntry
  <2>2. ASSUME doubt'[t] = {} PROVE Along(v, names)[Depth(t) + 1] = Missing
    <3>1. Scanned(t)
      BY <1>1, <2>1, <2>2 DEF Truth
    <3>2. Along(v, names)[Depth(t) + 1] = Member(v, Meaning(Current(t)), Head(f.names))
      BY <1>1, <3>1, NextName
    <3>3. ~Meaning(Current(t)).dir
      BY <1>3 DEF Meaning
    <3>4. QED BY <3>2, <3>3 DEF Member
  <2>3. QED
    <3> HIDE DEF v, names
    <3>1. Along(v, names)[Depth(t) + 1] = Missing \/ doubt'[t] # {}
      BY <2>2
    <3>2. QED BY <1>1, <1>3, <2>1, <3>1, LeaveTruth DEF v, names
<1>4. CASE Current(t).dir
  <2>1. PICK buffer, list, ffname :
          /\ frame' = [frame EXCEPT ![t].buffer = buffer, ![t].list = list, ![t].ffname = ffname]
          /\ pc' = [pc EXCEPT ![t] = "read"]
          /\ doubt' = [doubt EXCEPT ![t] =
                 IF Current(t).cluster = 0 THEN @ \cup {"cluster 0"} ELSE @]
          /\ UNCHANGED <<object, result>>
    <3> DEFINE ffname == IF LastName(t) THEN nullptr ELSE Fresh(heap, t, "name")
    <3>1. /\ frame' = [frame EXCEPT ![t].buffer = Fresh(heap, t, "buffer"),
                 ![t].list = Fresh(heap, t, "list"), ![t].ffname = ffname]
          /\ pc' = [pc EXCEPT ![t] = "read"]
          /\ doubt' = [doubt EXCEPT ![t] =
                 IF Current(t).cluster = 0 THEN @ \cup {"cluster 0"} ELSE @]
          /\ UNCHANGED <<object, result>>
      BY <1>4 DEF FindEntry
    <3> HIDE DEF ffname
    <3>2. QED BY <3>1
  <2>2. /\ DOMAIN pc = Threads /\ DOMAIN frame = Threads /\ DOMAIN f = FrameFields
    BY <1>2 DEF FilesInv, Shapes, Lookup
  <2>3. /\ frame'[t].names = f.names /\ frame'[t].volume = f.volume /\ frame'[t].long = f.long
        /\ pc'[t] = "read" /\ object' = object /\ result' = result
    BY <2>1, <2>2 DEF FrameFields
  <2>4. doubt'[t] = {} => doubt[t] = {} /\ Current(t).cluster # 0
    BY <2>1
  <2>5. Following(t)'
    BY <1>1, <1>2, <2>3 DEF Following, Depth, Current
  <2>6. doubt'[t] = {} => Scanned(t)'
    <3>1. doubt'[t] = {} => Scanned(t)
      BY <1>1, <2>4 DEF Truth
    <3>2. QED BY <1>1, <2>3, <2>4, <3>1 DEF Scanned, Depth, Current
  <2>7. QED BY <1>2, <2>3, <2>5, <2>6 DEF Truth
<1>5. QED BY <1>3, <1>4

LEMMA ReadClusterTruth ==
  ASSUME FilesInv, NEW t \in Threads, Truth(t), DOMAIN result = Threads, ReadCluster(t)
  PROVE  Truth(t)'
<1>1. /\ pc[t] = "read" /\ drives' = drives /\ port' = port /\ cstrbuffer' = cstrbuffer
      /\ doubt' = doubt
  BY DEF ReadCluster, Unchanged
<1>2. Following(t) /\ Lookup(t) /\ Booted /\ Booted' /\ result[t].call = "pending"
  BY <1>1 DEF FilesInv, Placed, Truth, Following, Booted
<1>3. /\ DOMAIN pc = Threads /\ DOMAIN frame = Threads /\ DOMAIN frame[t] = FrameFields
  BY <1>2 DEF FilesInv, Shapes, Lookup
<1>4. CASE Leave(t, Closed(t), Current(t), "ReadError")
  <2>1. Current(t).dir =>
          Current(t).cluster = 0 \/ Chained(Volumes[frame[t].volume], Current(t).cluster)
    BY <1>2 DEF Following
  <2>2. QED BY <1>1, <1>4, <2>1, LeaveTruth
<1>5. CASE /\ pc' = [pc EXCEPT ![t] = "scan"]
           /\ frame' = [frame EXCEPT ![t].x = 1, ![t].retried = FALSE]
           /\ UNCHANGED <<heap, object, result>>
  <2>1. /\ frame'[t].names = frame[t].names /\ frame'[t].volume = frame[t].volume
        /\ frame'[t].long = frame[t].long /\ frame'[t].x = 1
        /\ pc'[t] = "scan" /\ object' = object /\ result' = result
    BY <1>3, <1>5 DEF FrameFields
  <2>2. Following(t)'
    BY <1>1, <1>2, <2>1 DEF Following, Depth, Current
  <2>3. ASSUME doubt'[t] = {} PROVE Scanned(t)'
    <3>1. Scanned(t)
      BY <1>1, <2>3 DEF Truth
    <3>2. \A q, name : Passed(q, 1, name) /\ LongBefore(q, 1) = NoName
      BY DEF Passed, LongBefore
    <3>3. QED BY <1>1, <2>1, <3>1, <3>2 DEF Scanned, Depth, Current
  <2>4. QED BY <1>2, <2>1, <2>2, <2>3 DEF Truth
<1>6. CASE frame' = [frame EXCEPT ![t].retried = TRUE] /\ UNCHANGED <<heap, object, pc, result>>
  <2>1. /\ frame'[t].names = frame[t].names /\ frame'[t].volume = frame[t].volume
        /\ frame'[t].long = frame[t].long
        /\ pc'[t] = "read" /\ object' = object /\ result' = result
    BY <1>1, <1>3, <1>6 DEF FrameFields
  <2>2. Following(t)'
    BY <1>1, <1>2, <2>1 DEF Following, Depth, Current
  <2>3. ASSUME doubt'[t] = {} PROVE Scanned(t)'
    <3>1. Scanned(t)
      BY <1>1, <2>3 DEF Truth
    <3>2. QED BY <1>1, <2>1, <3>1 DEF Scanned, Depth, Current
  <2>4. QED BY <1>2, <2>1, <2>2, <2>3 DEF Truth
<1>7. QED BY <1>4, <1>5, <1>6 DEF ReadCluster

\* What the slots before the one that t looks at say of it: a long name, which
\* only an entry follows.
LEMMA NameOfSlot ==
  ASSUME FilesInv, NEW t \in Threads, Truth(t), pc[t] \in {"scan", "convert", "compare"},
         doubt[t] = {}, NEW q, q = Cluster(t), NEW x, x = frame[t].x
  PROVE  /\ Slot(t) = q[x]
         /\ LongBefore(q, x + 1) = IF q[x].kind = "lfn" THEN q[x].name ELSE NoName
         /\ frame[t].long = LongBefore(q, x)
         /\ q[x].kind = "entry" =>
              TrueName(q, x) = IF frame[t].long = NoName THEN q[x].name ELSE frame[t].long
         /\ frame[t].long # NoName => q[x].kind = "entry"
         /\ q[x].kind \in {"lfn", "entry"} => q[x].name # Torn
<1> DEFINE v == Volumes[frame[t].volume]
           c == Current(t).cluster
<1>1. /\ frame[t].volume \in DOMAIN Volumes /\ c \in DOMAIN v.clusters
      /\ q = v.clusters[c] /\ q \in Seq(SlotRecord)
      /\ x \in 1 .. Len(q) /\ x \in DOMAIN q /\ Slot(t) = q[x]
  BY Searching
<1>2. Len(q) \in Nat /\ DOMAIN q = 1 .. Len(q)
  BY <1>1
<1>3. /\ x \in Nat \ {0}
      /\ x > 1 => x - 1 \in DOMAIN q /\ x - 1 < Len(q) /\ x - 1 + 1 = x
  <2>1. x \in 1 .. Len(q)
    BY <1>1
  <2> HIDE DEF c, v
  <2>2. QED BY <1>2, <2>1
<1>4. frame[t].long = LongBefore(q, x)
  BY DEF Truth, Scanned
<1> DEFINE p == frame[t].volume
<1> HIDE DEF p
<1>5. p \in DOMAIN Volumes /\ v = Volumes[p]
  BY <1>1 DEF p
<1> HIDE DEF v, c
<1>6. /\ \A y \in DOMAIN q : q[y].kind \in {"lfn", "entry"} => q[y].name \notin {NoName, Torn}
      /\ \A y \in DOMAIN q : q[y].kind = "lfn" /\ y < Len(q) => q[y + 1].kind = "entry"
  BY <1>1, <1>5, Written
<1>7. x > 1 /\ q[x - 1].kind = "lfn" => q[x].kind = "entry" /\ q[x - 1].name # NoName
  BY <1>3, <1>6
<1>8. frame[t].long = IF x > 1 /\ q[x - 1].kind = "lfn" THEN q[x - 1].name ELSE NoName
  BY <1>4, Zenon DEF LongBefore
<1>9. TrueName(q, x) = IF x > 1 /\ q[x - 1].kind = "lfn" THEN q[x - 1].name ELSE q[x].name
  BY Zenon DEF TrueName
<1>10. TrueName(q, x) = IF frame[t].long = NoName THEN q[x].name ELSE frame[t].long
  BY <1>7, <1>8, <1>9
<1>11. frame[t].long # NoName => q[x].kind = "entry"
  BY <1>7, <1>8
<1>12. q[x].kind \in {"lfn", "entry"} => q[x].name # Torn
  BY <1>1, <1>6
<1>13. LongBefore(q, x + 1) = IF q[x].kind = "lfn" THEN q[x].name ELSE NoName
  BY <1>3, LongAfter
<1>14. QED BY <1>1, <1>4, <1>10, <1>11, <1>12, <1>13

LEMMA ScanTruth ==
  ASSUME FilesInv, NEW t \in Threads, Truth(t), DOMAIN result = Threads, DOMAIN doubt = Threads,
         Scan(t)
  PROVE  Truth(t)'
<1> DEFINE f == frame[t]
           q == Cluster(t)
           x == f.x
           first == Head(f.names)
<1>1. pc[t] = "scan" /\ drives' = drives /\ port' = port
  BY DEF Scan, Unchanged
<1>2. doubt[t] = {} =>
        /\ Slot(t) = q[x] /\ f.long = LongBefore(q, x)
        /\ LongBefore(q, x + 1) = IF q[x].kind = "lfn" THEN q[x].name ELSE NoName
        /\ q[x].kind = "entry" => TrueName(q, x) = IF f.long = NoName THEN q[x].name ELSE f.long
        /\ f.long # NoName => q[x].kind = "entry"
  BY <1>1, NameOfSlot
<1> HIDE DEF q, x
<1>3. doubt[t] = {} =>
        LongBefore(q, x + 1) = IF Slot(t).kind = "lfn" THEN Slot(t).name ELSE NoName
  BY <1>2
<1>4. CASE AtEnd(t)
  BY <1>1, <1>4, EndTruth DEF AtEnd
<1>5. CASE AtDeleted(t)
  <2>1. Slot(t).kind = "deleted" /\ Advance(t, f.long, f.exact) /\ doubt' = doubt
    BY <1>5 DEF AtDeleted
  <2>2. doubt[t] = {} => f.long = LongBefore(q, x + 1)
    BY <1>2, <1>3, <2>1
  <2>3. QED BY <1>1, <2>1, <2>2, AdvanceTruth DEF q, x
<1>6. CASE AtLongName(t)
  <2>1. Slot(t).kind = "lfn" /\ Advance(t, Slot(t).name, Slot(t).exact)
    BY <1>6 DEF AtLongName
  <2>2. doubt[t] = {} => Slot(t).name = LongBefore(q, x + 1)
    BY <1>3, <2>1
  <2>3. doubt'[t] = {} => doubt[t] = {} /\ AfterSlot(t) = "scan"
    BY <1>6 DEF AtLongName, AfterSlot
  <2>4. QED BY <1>1, <2>1, <2>2, <2>3, AdvanceTruth DEF q, x
<1>7. CASE AtEntry(t)
  <2>1. Slot(t).kind = "entry" /\ f.long # NoName
    BY <1>7 DEF AtEntry
  <2>2. doubt'[t] = {} => doubt[t] = {} /\ ~f.exact
    BY <1>7 DEF AtEntry
  <2>3. doubt[t] = {} => TrueName(q, x) = f.long
    BY <1>2, <2>1
  <2>4. CASE f.long = first /\ Found(t, Fresh(heap, t, "long"))
    BY <1>1, <2>1, <2>2, <2>3, <2>4, FoundTruth DEF q, x
  <2>5. CASE (f.long # first \/ f.exact) /\ Advance(t, NoName, FALSE)
    <3>1. doubt[t] = {} => NoName = LongBefore(q, x + 1)
      BY <1>3, <2>1
    <3>2. doubt'[t] = {} => TrueName(q, x) # first
      BY <2>2, <2>3, <2>5
    <3>3. QED BY <1>1, <2>1, <2>2, <2>5, <3>1, <3>2, AdvanceTruth DEF q, x
  <2>6. QED BY <1>7, <2>4, <2>5 DEF AtEntry
<1>8. QED BY <1>4, <1>5, <1>6, <1>7 DEF Scan

\* The buffer holds the short name when nobody wrote to it since BeginConvert.
LEMMA ConvertTruth ==
  ASSUME FilesInv, NEW t \in Threads, Truth(t), BeginConvert(t) \/ EndConvert(t)
  PROVE  Truth(t)'
<1>1. /\ pc[t] \in {"scan", "convert"} /\ drives' = drives /\ port' = port
      /\ object' = object /\ frame' = frame /\ result' = result
      /\ doubt' = [u \in Threads |->
           IF u # t /\ pc[u] \in {"convert", "compare"} THEN doubt[u] \cup {"buffer"}
           ELSE doubt[u]]
  BY DEF BeginConvert, EndConvert, Writes, Unchanged
<1>2. doubt'[t] = doubt[t]
  BY <1>1
<1>3. Following(t) /\ Booted /\ Booted' /\ result[t].call = "pending" /\ DOMAIN pc = Threads
  BY <1>1 DEF FilesInv, Shapes, Truth, Following, Booted
<1>4. Following(t)'
  BY <1>1, <1>3 DEF Following, Depth, Current
<1>5. CASE BeginConvert(t)
  <2>1. /\ pc[t] = "scan" /\ frame[t].long = NoName /\ pc' = [pc EXCEPT ![t] = "convert"]
        /\ cstrbuffer' = [name |-> Torn, by |-> t]
    BY <1>5 DEF BeginConvert, Writes
  <2>2. pc'[t] = "convert" /\ cstrbuffer'.by = t
    BY <1>3, <2>1
  <2>3. ASSUME doubt'[t] = {} PROVE Scanned(t)'
    <3>1. Scanned(t)
      BY <1>1, <1>2, <2>3 DEF Truth
    <3>2. QED BY <1>1, <2>1, <2>2, <3>1 DEF Scanned, Depth, Current, Cluster
  <2>4. QED BY <1>1, <1>3, <1>4, <2>2, <2>3 DEF Truth
<1>6. CASE EndConvert(t)
  <2>1. /\ pc[t] = "convert" /\ pc' = [pc EXCEPT ![t] = "compare"]
        /\ cstrbuffer' = [name |-> IF cstrbuffer.by = t THEN Slot(t).name ELSE Torn, by |-> t]
    BY <1>6 DEF EndConvert, Writes
  <2>2. pc'[t] = "compare"
    BY <1>3, <2>1
  <2>3. Slot(t)' = Slot(t)
    BY <1>1 DEF Slot, Cluster, Current
  <2>4. ASSUME doubt'[t] = {} PROVE Scanned(t)'
    <3>1. Scanned(t)
      BY <1>1, <1>2, <2>4 DEF Truth
    <3>2. cstrbuffer'.name = Slot(t).name
      BY <2>1, <3>1 DEF Scanned
    <3>3. QED BY <1>1, <2>1, <2>2, <2>3, <3>1, <3>2 DEF Scanned, Depth, Current, Cluster
  <2>5. QED BY <1>1, <1>3, <1>4, <2>2, <2>4 DEF Truth
<1>7. QED BY <1>5, <1>6

LEMMA CompareTruth ==
  ASSUME FilesInv, NEW t \in Threads, Truth(t), DOMAIN result = Threads, Compare(t)
  PROVE  Truth(t)'
<1> DEFINE f == frame[t]
           q == Cluster(t)
           x == f.x
           first == Head(f.names)
<1>1. pc[t] = "compare" /\ drives' = drives /\ port' = port /\ doubt' = doubt
  BY DEF Compare, Unchanged
<1>2. Slot(t).kind = "entry"
  BY <1>1 DEF FilesInv, Placed, Lookup
<1>3. ASSUME doubt[t] = {}
      PROVE  /\ TrueName(q, x) = cstrbuffer.name /\ cstrbuffer.name # Torn
             /\ LongBefore(q, x + 1) = NoName
  <2>1. /\ Slot(t) = q[x]
        /\ LongBefore(q, x + 1) = IF q[x].kind = "lfn" THEN q[x].name ELSE NoName
        /\ q[x].kind = "entry" => TrueName(q, x) = IF f.long = NoName THEN q[x].name ELSE f.long
        /\ q[x].kind \in {"lfn", "entry"} => q[x].name # Torn
    BY <1>1, <1>3, NameOfSlot
  <2>2. f.long = NoName /\ cstrbuffer.name = Slot(t).name
    BY <1>1, <1>3 DEF Truth, Scanned
  <2>3. QED BY <1>2, <2>1, <2>2
<1> HIDE DEF q, x
<1>4. CASE cstrbuffer.name \in {first, Torn} /\ Found(t, nullptr)
  <2>1. doubt[t] = {} => TrueName(q, x) = first
    BY <1>3, <1>4
  <2>2. QED BY <1>1, <1>2, <1>4, <2>1, FoundTruth DEF q, x
<1>5. CASE cstrbuffer.name # first /\ Advance(t, NoName, FALSE)
  <2>1. doubt[t] = {} => TrueName(q, x) # first /\ NoName = LongBefore(q, x + 1)
    BY <1>3, <1>5
  <2>2. QED BY <1>1, <1>2, <1>5, <2>1, AdvanceTruth DEF q, x
<1>6. QED BY <1>4, <1>5 DEF Compare

\* Numbers that follow each other are told by the first.
LEMMA RunOfClusters ==
  ASSUME NEW q \in Seq(Nat), NEW n \in 1 .. Len(q), \A i \in 1 .. n - 1 : q[i + 1] = q[i] + 1
  PROVE  SubSeq(q, 1, n) = [i \in 1 .. n |-> q[1] + i - 1]
<1>1. n \in Nat \ {0} /\ Len(q) \in Nat /\ \A i \in 1 .. n : q[i] \in Nat
  OBVIOUS
<1> DEFINE Bad == {m \in 1 .. n : q[m] # q[1] + m - 1}
<1>2. Bad = {}
  <2>1. SUFFICES ASSUME Bad # {} PROVE FALSE
    OBVIOUS
  <2>2. PICK m \in Bad : \A y \in Bad : m <= y
    <3>1. Bad \in SUBSET Nat
      BY <1>1
    <3> HIDE DEF Bad
    <3>2. QED BY <2>1, <3>1, LeastOfNaturals
  <2>3. m \in 1 .. n /\ m # 1
    BY <1>1, <2>2
  <2>4. m - 1 \in 1 .. n - 1 /\ m - 1 \in 1 .. n /\ m - 1 + 1 = m /\ ~(m <= m - 1)
    BY <1>1, <2>3
  <2>5. q[m - 1] = q[1] + (m - 1) - 1
    BY <2>2, <2>4
  <2> DEFINE k == m - 1
  <2>6. q[k + 1] = q[k] + 1 /\ k + 1 = m
    BY <2>4
  <2>7. q[m] = q[m - 1] + 1
    BY <2>6
  <2>8. 1 \in 1 .. n /\ q[1] \in Nat /\ m \in Nat
    BY <1>1, <2>3
  <2>9. q[m] = q[1] + m - 1
    BY <2>5, <2>7, <2>8
  <2>10. QED BY <2>2, <2>9
<1>3. SubSeq(q, 1, n) = [i \in 1 .. n |-> q[i]]
  BY <1>1
<1>4. \A i \in 1 .. n : q[i] = q[1] + i - 1
  BY <1>2
<1>5. QED BY <1>3, <1>4

LEMMA ReadFileTruth ==
  ASSUME FilesInv, NEW t \in Threads, Truth(t), DOMAIN result = Threads,
         NEW o \in Objects[t], NEW n \in Sizes, ReadFile(t, o, n)
  PROVE  Truth(t)'
<1> DEFINE info == object[t][o]
           path == result[t].path
           least == Least(info, n)
           v == Volumes[PortIn(drives, path.drive)]
<1>1. /\ Booted /\ pc[t] = "idle" /\ result[t].call = "lookup" /\ result[t].status = "Ok"
      /\ result[t].info = o /\ drives' = drives /\ port' = port /\ pc' = pc /\ doubt' = doubt
  BY DEF ReadFile, Idle
<1>2. /\ result'[t].call = "read" /\ result'[t].path = path /\ result'[t].bytes = n
      /\ result'[t].status = "Ok" =>
           least # 0 /\ result'[t].data = [i \in 1 .. least |-> info.cluster + i - 1]
  <2> DEFINE none == <<>>
             read == [i \in 1 .. least |-> info.cluster + i - 1]
             Answer(s, d) == [call |-> "read", status |-> s, data |-> d, info |-> o,
                              path |-> path, bytes |-> n]
  <2>1. PICK failures \in 0 .. 2 :
          result' = [result EXCEPT ![t] =
             IF PortOf(info.drive) = 0 THEN Answer("BadVolume", none)
             ELSE IF least = 0 \/ failures = 2 THEN Answer("ReadError", none)
             ELSE Answer("Ok", read)]
    BY DEF ReadFile
  <2> HIDE DEF read, least, none, path
  <2>2. CASE PortOf(info.drive) = 0
    <3>1. result'[t] = Answer("BadVolume", none)
      BY <2>1, <2>2
    <3>2. QED BY <3>1
  <2>3. CASE PortOf(info.drive) # 0 /\ (least = 0 \/ failures = 2)
    <3>1. result'[t] = Answer("ReadError", none)
      BY <2>1, <2>3
    <3>2. QED BY <3>1
  <2>4. CASE PortOf(info.drive) # 0 /\ ~(least = 0 \/ failures = 2)
    <3>1. result'[t] = Answer("Ok", read)
      BY <2>1, <2>4
    <3>2. result'[t].call = "read" /\ result'[t].path = path /\ result'[t].bytes = n
          /\ result'[t].data = read
      BY <3>1
    <3>3. QED BY <2>4, <3>2 DEF read
  <2>5. QED BY <2>2, <2>3, <2>4
<1> DEFINE status == result'[t].status
           data == result'[t].data
<1> HIDE DEF status, data
<1>3. /\ result'[t].call = "read" /\ result'[t].path = path /\ result'[t].bytes = n
      /\ result'[t].status = status /\ result'[t].data = data
  BY <1>2 DEF status, data
<1>4. ASSUME doubt'[t] = {}, status = "Ok" PROVE ReadRight(t)'
  <2> DEFINE entry == Leads(drives, path)
             chain == v.chain[entry.cluster]
             length == Min({entry.size, n})
  <2>1. Returned(t)
    BY <1>1, <1>4 DEF Truth
  <2>2. PortIn(drives, path.drive) \in DOMAIN Volumes /\ entry = Meaning(info) /\ IsEntry(v, entry)
    BY <1>1, <2>1 DEF Returned
  <2>3. PICK c \in DOMAIN v.clusters : \E x \in DOMAIN v.clusters[c] :
          v.clusters[c][x].kind = "entry" /\ entry = Meaning(v.clusters[c][x])
    <3> HIDE DEF v, entry
    <3>1. QED BY <2>2 DEF IsEntry
  <2>4. PICK x \in DOMAIN v.clusters[c] :
          v.clusters[c][x].kind = "entry" /\ entry = Meaning(v.clusters[c][x])
    BY <2>3, Zenon
  <2> DEFINE s == v.clusters[c][x]
  <2>5. s.kind = "entry" /\ entry.cluster = s.cluster /\ entry.size = s.size
    <3>1. s.kind = "entry" /\ entry = Meaning(s)
      BY <2>4, Zenon
    <3> HIDE DEF s, entry
    <3>2. QED BY <3>1 DEF Meaning
  <2>6. s \in SlotRecord
    <3>1. v.clusters[c] \in Seq(SlotRecord)
      BY <2>2, <2>4, Written
    <3> HIDE DEF v
    <3>2. QED BY <2>4, <3>1
  <2>7. s.size > 0 => /\ v.chain[s.cluster] \in Seq(Nat) /\ Len(v.chain[s.cluster]) >= s.size
                      /\ v.chain[s.cluster][1] = s.cluster
    <3> DEFINE p == PortIn(drives, path.drive)
    <3> HIDE DEF p
    <3>1. p \in DOMAIN Volumes /\ v = Volumes[p]
      BY <2>2 DEF p
    <3> HIDE DEF v
    <3>2. s \in SlotRecord /\ (s.kind = "entry" /\ s.size > 0 =>
            /\ s.cluster \in DOMAIN v.chain /\ v.chain[s.cluster] \in Seq(Nat)
            /\ Len(v.chain[s.cluster]) >= s.size /\ v.chain[s.cluster][1] = s.cluster)
      BY <2>4, <2>6, <3>1, DirectoriesAssumption
    <3>3. QED BY <2>5, <3>2
  <2>8. s.size \in Nat /\ s.cluster \in Nat /\ n \in Nat
    BY <2>6, DirectoriesAssumption DEF SlotRecord
  <2>9. info.cluster = entry.cluster /\ info.size = entry.size
    BY <2>2 DEF Meaning
  <2>10. least = (IF n > s.size THEN s.size ELSE n) /\ least # 0
        /\ data = [i \in 1 .. least |-> s.cluster + i - 1]
    <3>1. least # 0 /\ data = [i \in 1 .. least |-> info.cluster + i - 1]
      BY <1>2, <1>4 DEF status, data
    <3>2. info.cluster = s.cluster /\ info.size = s.size
      BY <2>5, <2>9
    <3>3. least = (IF n > info.size THEN info.size ELSE n)
      BY DEF Least
    <3> HIDE DEF info, s, least
    <3>4. QED BY <3>1, <3>2, <3>3
  <2> HIDE DEF v, s, entry, least
  <2>11. length = least
    <3> DEFINE both == {s.size, n}
    <3>1. least \in both /\ \A y \in both : least <= y
      BY <2>8, <2>10
    <3>2. \A y \in both : (\A z \in both : y <= z) => y = least
      BY <2>8, <3>1
    <3> HIDE DEF both
    <3>3. Min(both) = least
      BY <3>1, <3>2 DEF Min
    <3>4. QED BY <2>5, <3>3 DEF both
  <2>12. chain \in Seq(Nat) /\ Len(chain) >= s.size /\ chain[1] = s.cluster
    BY <2>5, <2>7, <2>8, <2>10
  <2>13. least \in 1 .. Len(chain)
    <3>1. Len(chain) \in Nat
      BY <2>12
    <3>2. QED BY <2>8, <2>10, <2>12, <3>1
  <2>14. \/ data = SubSeq(chain, 1, length)
         \/ \E i \in 1 .. length - 1 : chain[i + 1] # chain[i] + 1
    <3>1. SUFFICES ASSUME \A i \in 1 .. least - 1 : chain[i + 1] = chain[i] + 1
                   PROVE  data = SubSeq(chain, 1, least)
      BY <2>11
    <3> HIDE DEF chain
    <3>2. SubSeq(chain, 1, least) = [i \in 1 .. least |-> chain[1] + i - 1]
      BY <2>12, <2>13, <3>1, RunOfClusters
    <3>3. QED BY <2>10, <2>12, <3>2
  <2> HIDE DEF length, chain
  <2>15. /\ PortIn(drives', path.drive) = PortIn(drives, path.drive)
         /\ Leads(drives', path) = entry
    BY <1>1 DEF entry
  <2>16. ReadRight(t)' =
           LET r == result'[t]
               e == Leads(drives', r.path)
               ch == Volumes[PortIn(drives', r.path.drive)].chain[e.cluster]
               l == Min({e.size, r.bytes})
           IN  r.status = "Ok" => \/ r.data = SubSeq(ch, 1, l)
                                  \/ \E i \in 1 .. l - 1 : ch[i + 1] # ch[i] + 1
    BY DEF ReadRight
  <2>17. result'[t].path = path /\ result'[t].bytes = n /\ result'[t].data = data
    BY <1>3
  <2>18. entry.size = s.size /\ Min({entry.size, n}) = length
    BY <2>5 DEF length
  <2>19. Volumes[PortIn(drives', result'[t].path.drive)] = v
    BY <2>15, <2>17 DEF v
  <2>20. Leads(drives', result'[t].path) = entry
    BY <2>15, <2>17
  <2>21. v.chain[entry.cluster] = chain
    BY DEF chain
  <2> HIDE DEF path, info, data
  <2>22. QED BY <2>14, <2>16, <2>17, <2>18, <2>19, <2>20, <2>21, Zenon
<1>5. status # "Ok" => ReadRight(t)'
  BY <1>3 DEF ReadRight
<1>6. Booted'
  BY <1>1 DEF Booted
<1>7. QED BY <1>1, <1>3, <1>4, <1>5, <1>6 DEF Truth

LEMMA GetEntryInfoTruth ==
  ASSUME FilesInv, NEW t \in Threads, Truth(t), DOMAIN result = Threads, DOMAIN doubt = Threads,
         NEW o \in Objects[t], NEW path \in Paths[t], GetEntryInfo(t, o, path)
  PROVE  Truth(t)'
<1> DEFINE found == PortOf(path.drive)
           v == Volumes[found]
           current == Root(heap, t, path.drive, v)
           block == Fresh(heap, t, "path")
<1>1. /\ Booted /\ pc[t] = "idle" /\ drives' = drives /\ port' = port /\ cstrbuffer' = cstrbuffer
      /\ doubt'[t] = {}
  BY DEF GetEntryInfo, Idle
<1>2. Booted'
  BY <1>1 DEF Booted
<1>3. found = PortIn(drives, path.drive)
  BY PortOfIn
<1>4. CASE path.drive = NoDrive \/ found = 0 \/ path.names = <<>>
  <2>1. /\ Looked(t, path, IF path.drive # NoDrive /\ found = 0
                           THEN "BadVolume" ELSE "BadPath", o)
        /\ pc' = pc
    BY <1>4 DEF GetEntryInfo
  <2>2. /\ result'[t].call = "lookup" /\ result'[t].path = path
        /\ result'[t].status = IF path.drive # NoDrive /\ found = 0 THEN "BadVolume" ELSE "BadPath"
    BY <2>1 DEF Looked
  <2>3. found = 0 => \A i \in DOMAIN drives : drives[i].id # path.drive
    <3>1. found = 0 => found \notin DOMAIN Volumes
      BY VolumesAssumption
    <3>2. QED BY <3>1, PortFound DEF FilesInv
  <2> HIDE DEF found
  <2>4. Lost(t)'
    BY <1>1, <2>2, <2>3 DEF Lost
  <2>5. Returned(t)'
    BY <2>2 DEF Returned
  <2>6. QED BY <1>1, <1>2, <2>1, <2>2, <2>4, <2>5 DEF Truth
<1>5. CASE ~(path.drive = NoDrive \/ found = 0 \/ path.names = <<>>)
  <2>1. /\ object' = [object EXCEPT ![t]["current"] = current]
        /\ frame' = [frame EXCEPT ![t] =
               [NoFrame EXCEPT !.path = block, !.info = o, !.volume = found,
                               !.names = path.names]]
        /\ pc' = [pc EXCEPT ![t] = "open"]
        /\ result' = [result EXCEPT ![t] = [call |-> "pending", path |-> path]]
    BY <1>5 DEF GetEntryInfo
  <2>2. /\ DOMAIN object = Threads /\ DOMAIN pc = Threads /\ DOMAIN frame = Threads
        /\ DOMAIN object[t] = Variables(t)
    BY DEF FilesInv, Shapes
  <2>3. object'[t]["current"] = current
    BY <2>1, <2>2 DEF Variables
  <2>4. /\ frame'[t].volume = found /\ frame'[t].names = path.names /\ frame'[t].long = NoName
        /\ pc'[t] = "open" /\ result'[t] = [call |-> "pending", path |-> path]
    BY <2>1, <2>2 DEF NoFrame
  <2>5. path.names \in Seq(STRING) /\ path.names # <<>>
    BY <1>5, DirectoriesAssumption
  <2>6. Len(path.names) \in Nat \ {0}
    BY <2>5, EmptySeq
  <2>7. found \in DOMAIN Volumes
    BY <1>5, PortFound DEF FilesInv
  <2>8. current.dir = TRUE /\ current.cluster = v.root /\ Meaning(current) = RootEntry(v)
    BY DEF Root, NoObject, Meaning, RootEntry
  <2>9. Chained(v, v.root)
    <3> HIDE DEF found
    <3>1. QED BY <2>7, Written
  <2>10. Depth(t)' = 0
    BY <2>4, <2>6 DEF Depth
  <2>11. Along(v, path.names)[0] = RootEntry(v)
    BY <2>5, AlongStep
  <2> HIDE DEF found, v, current
  <2>12. Volumes[found] = v
    BY DEF v
  <2>13. Following(t)'
    BY <1>1, <1>3, <2>3, <2>4, <2>5, <2>6, <2>8, <2>9, <2>10, <2>12 DEF Following, Current
  <2>14. Scanned(t)'
    BY <2>3, <2>4, <2>8, <2>10, <2>11, <2>12 DEF Scanned, Current
  <2>15. QED BY <1>2, <2>4, <2>13, <2>14 DEF Truth
<1>6. QED BY <1>4, <1>5

\* What a step of t leaves alone.
OthersKept(t) ==
    \A u \in Threads \ {t} : pc'[u] = pc[u] /\ frame'[u] = frame[u] /\ result'[u] = result[u]
                             /\ object'[u] = object[u]

LEMMA StepOthers ==
  ASSUME FilesInv, NEW t \in Threads, DOMAIN result = Threads, Step(t)
  PROVE  OthersKept(t) /\ DOMAIN result' = Threads
<1>1. /\ DOMAIN object = Threads /\ DOMAIN pc = Threads /\ DOMAIN frame = Threads
  BY DEF FilesInv, Shapes
<1>2. ASSUME NEW h, NEW current, NEW status, Leave(t, h, current, status)
      PROVE  OthersKept(t) /\ DOMAIN result' = Threads
  <2>1. CASE status = "Ok" /\ ~LastName(t)
    BY <1>1, <1>2, <2>1 DEF Leave, OthersKept
  <2>2. CASE ~(status = "Ok" /\ ~LastName(t))
    BY <1>1, <1>2, <2>2 DEF Leave, Looked, OthersKept
  <2>3. QED BY <2>1, <2>2
<1>3. ASSUME NEW long, NEW exact, Advance(t, long, exact)
      PROVE  OthersKept(t) /\ DOMAIN result' = Threads
  BY <1>1, <1>3 DEF Advance, OthersKept
<1>4. ASSUME NEW name, Found(t, name)
      PROVE  OthersKept(t) /\ DOMAIN result' = Threads
  <2>1. PICK h, entry : Leave(t, h, entry, "Ok")
    BY <1>4 DEF Found
  <2>2. QED BY <1>2, <2>1
<1>5. CASE FindEntry(t)
  <2>1. CASE ~Current(t).dir
    BY <1>2, <1>5, <2>1 DEF FindEntry
  <2>2. CASE Current(t).dir
    BY <1>1, <1>5, <2>2 DEF FindEntry, OthersKept
  <2>3. QED BY <2>1, <2>2
<1>6. CASE ReadCluster(t)
  <2>1. CASE Leave(t, Closed(t), Current(t), "ReadError")
    BY <1>2, <2>1
  <2>2. CASE ~Leave(t, Closed(t), Current(t), "ReadError")
    BY <1>1, <1>6, <2>2 DEF ReadCluster, OthersKept
  <2>3. QED BY <2>1, <2>2
<1>7. CASE Scan(t)
  BY <1>2, <1>3, <1>4, <1>7 DEF Scan, AtEnd, AtDeleted, AtLongName, AtEntry
<1>8. CASE BeginConvert(t) \/ EndConvert(t)
  BY <1>1, <1>8 DEF BeginConvert, EndConvert, Writes, OthersKept
<1>9. CASE Compare(t)
  BY <1>3, <1>4, <1>9 DEF Compare
<1>10. QED BY <1>5, <1>6, <1>7, <1>8, <1>9 DEF Step

LEMMA StepTruth ==
  ASSUME FilesInv, NEW t \in Threads, DOMAIN result = Threads, DOMAIN doubt = Threads,
         \A u \in Threads : Truth(u), Step(t)
  PROVE  TruthInv'
<1>1. /\ drives' = drives /\ port' = port /\ (Booted => Booted')
  BY DEF Step, FindEntry, ReadCluster, Scan, BeginConvert, EndConvert, Compare, Writes,
         Unchanged, Booted
<1>2. OthersKept(t) /\ DOMAIN result' = Threads
  BY StepOthers
<1>3. Truth(t)'
  BY FindEntryTruth, ReadClusterTruth, ScanTruth, ConvertTruth, CompareTruth DEF Step
<1>4. /\ DOMAIN doubt' = Threads
      /\ \A u \in Threads \ {t} :
           \/ doubt'[u] = doubt[u] /\ cstrbuffer' = cstrbuffer
           \/ doubt'[u] = doubt[u] /\ pc[u] \notin {"convert", "compare"}
           \/ doubt'[u] # {} /\ pc[u] \in {"convert", "compare"}
  <2>1. CASE BeginConvert(t) \/ EndConvert(t)
    BY <2>1 DEF BeginConvert, EndConvert, Writes
  <2>2. CASE FindEntry(t)
    <3>1. cstrbuffer' = cstrbuffer
      BY <2>2 DEF FindEntry
    <3>2. \/ doubt' = doubt
          \/ doubt' = [doubt EXCEPT ![t] =
                 IF Current(t).cluster = 0 THEN @ \cup {"cluster 0"} ELSE @]
      BY <2>2 DEF FindEntry
    <3>3. QED BY <3>1, <3>2
  <2>3. CASE ReadCluster(t) \/ Compare(t)
    BY <2>3 DEF ReadCluster, Compare
  <2>4. CASE Scan(t)
    <3>1. cstrbuffer' = cstrbuffer
      BY <2>4 DEF Scan
    <3>2. \/ doubt' = doubt
          \/ doubt' = [doubt EXCEPT ![t] = IF frame[t].exact THEN @ \cup {"terminator"} ELSE @]
          \/ doubt' = [doubt EXCEPT ![t] = IF AfterSlot(t) = "read" THEN @ \cup {"split"} ELSE @]
      BY <2>4 DEF Scan, AtEnd, AtDeleted, AtLongName, AtEntry
    <3>3. QED BY <3>1, <3>2
  <2>5. QED BY <2>1, <2>2, <2>3, <2>4 DEF Step
<1>5. ASSUME NEW u \in Threads \ {t} PROVE Truth(u)'
  BY <1>1, <1>2, <1>4, <1>5, TruthStays DEF OthersKept
<1>6. QED BY <1>2, <1>3, <1>4, <1>5 DEF TruthInv

\* Between two lookups the last one is forgotten.
LEMMA ClientTruth ==
  ASSUME FilesInv, NEW t \in Threads, DOMAIN result = Threads, DOMAIN doubt = Threads,
         \A u \in Threads : Truth(u), Client(t), \A u \in Threads \ {t} : object'[u] = object[u]
  PROVE  TruthInv'
<1>1. /\ Booted /\ pc[t] = "idle" /\ drives' = drives /\ port' = port /\ pc' = pc
      /\ frame' = frame /\ cstrbuffer' = cstrbuffer
      /\ result' = [result EXCEPT ![t] = NoResult] /\ doubt' = [doubt EXCEPT ![t] = {}]
  BY DEF Client, Idle
<1>2. Booted'
  BY <1>1 DEF Booted
<1>3. result'[t].call = "none" /\ pc'[t] = "idle"
  BY <1>1 DEF NoResult
<1>4. Truth(t)'
  BY <1>2, <1>3 DEF Truth
<1>5. ASSUME NEW u \in Threads \ {t} PROVE Truth(u)'
  BY <1>1, <1>2, <1>5, TruthStays
<1>6. QED BY <1>1, <1>4, <1>5 DEF TruthInv

\* Before the boot is over nobody has looked anything up.
LEMMA MountTruth ==
  ASSUME TruthInv, Mount
  PROVE  TruthInv'
<1>1. /\ ~Booted /\ result' = result /\ doubt' = doubt /\ pc' = pc
  BY DEF Mount
<1>2. ASSUME NEW t \in Threads PROVE Truth(t)'
  <2>1. Truth(t)
    BY <1>2 DEF TruthInv
  <2>2. result[t].call = "none"
    BY <1>1, <2>1 DEF Truth
  <2>3. pc[t] = "idle"
    BY <2>1, <2>2 DEF Truth, Following
  <2>4. result'[t].call = "none" /\ pc'[t] = "idle"
    BY <1>1, <2>2, <2>3
  <2>5. QED BY <2>4 DEF Truth
<1>3. QED BY <1>1, <1>2 DEF TruthInv

LEMMA TruthInit ==
  ASSUME Init
  PROVE  TruthInv
<1>1. /\ DOMAIN result = Threads /\ DOMAIN doubt = Threads
      /\ \A t \in Threads : result[t].call = "none" /\ pc[t] = "idle"
  BY DEF Init, NoResult
<1>2. ASSUME NEW t \in Threads PROVE Truth(t)
  BY <1>1, <1>2 DEF Truth
<1>3. QED BY <1>1, <1>2 DEF TruthInv

LEMMA TruthStep ==
  ASSUME FilesInv, TruthInv, [Next]_vars
  PROVE  TruthInv'
<1>1. /\ DOMAIN result = Threads /\ DOMAIN doubt = Threads
      /\ \A u \in Threads : Truth(u)
  BY DEF TruthInv
<1>2. /\ DOMAIN object = Threads /\ DOMAIN pc = Threads /\ DOMAIN frame = Threads
  BY DEF FilesInv, Shapes
<1>3. CASE UNCHANGED vars
  <2>1. /\ drives' = drives /\ (Booted => Booted') /\ pc' = pc /\ frame' = frame
        /\ result' = result /\ object' = object /\ doubt' = doubt /\ cstrbuffer' = cstrbuffer
    BY <1>3 DEF vars, Booted
  <2>2. ASSUME NEW u \in Threads PROVE Truth(u)'
    BY <1>1, <2>1, <2>2, TruthStays
  <2>3. QED BY <1>1, <2>1, <2>2 DEF TruthInv
<1>4. CASE Mount
  BY <1>4, MountTruth
<1>5. ASSUME NEW t \in Threads, NEW o \in Objects[t],
             \/ Construct(t, o) \/ Destruct(t, o)
             \/ \E right \in Objects[t] : Assign(t, o, right)
      PROVE  TruthInv'
  <2>1. Client(t) /\ \A u \in Threads \ {t} : object'[u] = object[u]
    BY <1>2, <1>5 DEF Construct, Destruct, Assign
  <2>2. QED BY <1>1, <2>1, ClientTruth
<1>6. ASSUME NEW t \in Threads, NEW o \in Objects[t], NEW n \in Sizes, ReadFile(t, o, n)
      PROVE  TruthInv'
  <2>1. Truth(t)'
    BY <1>1, <1>6, ReadFileTruth
  <2>2. /\ drives' = drives /\ (Booted => Booted') /\ pc' = pc /\ frame' = frame
        /\ object' = object /\ doubt' = doubt /\ cstrbuffer' = cstrbuffer
    BY <1>6 DEF ReadFile, Booted
  <2>3. DOMAIN result' = Threads /\ \A u \in Threads \ {t} : result'[u] = result[u]
    <3>1. \E r : result' = [result EXCEPT ![t] = r]
      BY <1>6 DEF ReadFile
    <3>2. QED BY <1>1, <3>1
  <2>4. ASSUME NEW u \in Threads \ {t} PROVE Truth(u)'
    BY <1>1, <2>2, <2>3, <2>4, TruthStays
  <2>5. QED BY <1>1, <2>1, <2>2, <2>3, <2>4 DEF TruthInv
<1>7. ASSUME NEW t \in Threads, NEW o \in Objects[t], NEW path \in Paths[t],
             GetEntryInfo(t, o, path)
      PROVE  TruthInv'
  <2>1. Truth(t)'
    BY <1>1, <1>7, GetEntryInfoTruth
  <2>2. /\ drives' = drives /\ (Booted => Booted') /\ cstrbuffer' = cstrbuffer
        /\ doubt' = [doubt EXCEPT ![t] = {}]
    BY <1>7 DEF GetEntryInfo, Booted
  <2>3. DOMAIN result' = Threads /\ OthersKept(t)
    <3>1. CASE path.drive = NoDrive \/ PortOf(path.drive) = 0 \/ path.names = <<>>
      BY <1>1, <1>2, <1>7, <3>1 DEF GetEntryInfo, Looked, OthersKept
    <3>2. CASE ~(path.drive = NoDrive \/ PortOf(path.drive) = 0 \/ path.names = <<>>)
      BY <1>1, <1>2, <1>7, <3>2 DEF GetEntryInfo, OthersKept
    <3>3. QED BY <3>1, <3>2
  <2>4. ASSUME NEW u \in Threads \ {t} PROVE Truth(u)'
    <3>1. doubt'[u] = doubt[u]
      BY <1>1, <2>2, <2>4
    <3>2. QED BY <1>1, <2>2, <2>3, <2>4, <3>1, TruthStays DEF OthersKept
  <2>5. QED BY <1>1, <2>1, <2>2, <2>3, <2>4 DEF TruthInv
<1>8. ASSUME NEW t \in Threads, Step(t) PROVE TruthInv'
  BY <1>1, <1>8, StepTruth
<1>9. QED BY <1>3, <1>4, <1>5, <1>6, <1>7, <1>8 DEF Next

LEMMA TruthAlways == Spec => []TruthInv
<1>1. Init => TruthInv
  BY TruthInit
<1>2. FilesInv /\ TruthInv /\ [Next]_vars => TruthInv'
  BY TruthStep
<1>3. QED BY <1>1, <1>2, FilesAlways, PTL DEF Spec

\* Resolve, by the names that TruthInv uses.
LEMMA ResolveLeads == \A path : Resolve(path) = Leads(drives, path)
BY PortOfIn DEF Resolve, Leads

\* What GetEntryInfo returns is what the path names on the volume: it finds
\* the entry itself, and misses only what is not there, unless the buffer was
\* spoilt, a name had no terminator or the path came back to the root.
THEOREM ResolvesHolds == Spec => []Resolves
<1>1. FilesInv /\ TruthInv => Resolves
  <2>1. SUFFICES ASSUME FilesInv, TruthInv, NEW t \in Threads, Answered(t)
                 PROVE  LET r == result[t]
                            o == object[t][r.info]
                        IN  /\ r.status = "Ok" =>
                               /\ Resolve(r.path) =
                                     [dir |-> o.dir, cluster |-> o.cluster, size |-> o.size]
                               /\ Resolve(r.path) # Missing
                            /\ r.status \in {"NotFound", "Error"} => Resolve(r.path) = Missing
                            /\ r.status = "BadVolume" =>
                                  \A i \in DOMAIN drives : drives[i].id # r.path.drive
    BY DEF Resolves
  <2> DEFINE path == result[t].path
             entry == Leads(drives, path)
             p == PortIn(drives, path.drive)
             v == Volumes[p]
  <2>2. Returned(t) /\ Lost(t)
    BY <2>1 DEF TruthInv, Truth, Answered
  <2>3. Resolve(path) = entry
    BY ResolveLeads
  <2>4. ASSUME result[t].status = "Ok" PROVE entry # Missing
    <3>1. p \in DOMAIN Volumes /\ IsEntry(v, entry)
      BY <2>2, <2>4 DEF Returned
    <3> HIDE DEF p, entry
    <3>2. PICK c \in DOMAIN v.clusters : \E x \in DOMAIN v.clusters[c] :
                 entry = Meaning(v.clusters[c][x])
      BY <3>1 DEF IsEntry
    <3>3. PICK x \in DOMAIN v.clusters[c] : entry = Meaning(v.clusters[c][x])
      BY <3>2
    <3>4. v.clusters[c] \in Seq(SlotRecord)
      BY <3>1, DirectoriesAssumption
    <3>5. v.clusters[c][x] \in SlotRecord
      <4> HIDE DEF v
      <4>1. QED BY <3>3, <3>4
    <3>6. v.clusters[c][x].cluster \in Nat
      BY <3>5 DEF SlotRecord
    <3>7. entry.cluster \in Nat
      BY <3>3, <3>6 DEF Meaning
    <3>8. QED BY <3>7 DEF Missing
  <2>5. result[t].status = "Ok" => entry = Meaning(object[t][result[t].info])
    BY <2>2 DEF Returned
  <2>6. result[t].status \in {"NotFound", "Error"} => entry = Missing
    BY <2>2 DEF Lost
  <2>7. result[t].status = "BadVolume" => \A i \in DOMAIN drives : drives[i].id # path.drive
    BY <2>2 DEF Lost
  <2> HIDE DEF entry
  <2>8. QED BY <2>3, <2>4, <2>5, <2>6, <2>7 DEF Meaning
<1>2. QED BY <1>1, FilesAlways, TruthAlways, PTL

\* ReadFile returns what a file holds, to its end or to the size asked for,
\* when the clusters of the file follow each other.
THEOREM FilesReadHolds == Spec => []FilesRead
<1>1. TruthInv => FilesRead
  <2>1. SUFFICES ASSUME TruthInv, NEW t \in Threads, result[t].call = "read",
                        result[t].status = "Ok", doubt[t] = {}
                 PROVE  LET r == result[t]
                            entry == Resolve(r.path)
                            chain == Volumes[PortOf(r.path.drive)].chain[entry.cluster]
                            length == Min({entry.size, r.bytes})
                        IN  \/ r.data = SubSeq(chain, 1, length)
                            \/ \E i \in 1 .. length - 1 : chain[i + 1] # chain[i] + 1
    BY DEF FilesRead
  <2>2. ReadRight(t)
    BY <2>1 DEF TruthInv, Truth
  <2>3. /\ Resolve(result[t].path) = Leads(drives, result[t].path)
        /\ PortOf(result[t].path.drive) = PortIn(drives, result[t].path.drive)
    BY ResolveLeads, PortOfIn
  <2>4. QED BY <2>1, <2>2, <2>3 DEF ReadRight
<1>2. QED BY <1>1, TruthAlways, PTL
=============================================================================
