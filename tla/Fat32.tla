-------------------------------- MODULE Fat32 --------------------------------
(***************************************************************************)
(* The FAT32 driver, IO/FileSystem/FAT32.cpp: volumes are mounted at boot, *)
(* then threads look paths up one directory after the other and read the   *)
(* files they found.  What a thread finds is an EntryInfo, copies of which *)
(* share a count and a name (Headers/FAT32.h).                             *)
(*                                                                         *)
(* Names are what GetEntryName, GetEntryNameLFN and wstrToLower make of    *)
(* the bytes on the disk.  A slot of a directory is a record of its kind   *)
(* ("end", "deleted", "lfn", "entry"), its name, whether it is a directory *)
(* (dir), its first cluster and its size in clusters; the size of an "lfn" *)
(* slot is 0.  exact says of an "lfn" slot that the name's length is a     *)
(* multiple of 8: then the block lfnNameLower is full and its terminator   *)
(* is whatever follows the block.                                          *)
(*                                                                         *)
(* A read of a sector delivers it or fails, as module AhciPort shows.      *)
(***************************************************************************)
EXTENDS SequencesExt

CONSTANTS
    Threads,
    Objects,    \* for each thread its EntryInfo variables
    Volumes,    \* what is on each port: [valid, large, root, clusters, chain]
    Paths,      \* for each thread the paths it looks up: [drive, names]
    Sizes,      \* the sizes of reads, in clusters
    MaxCalls    \* bound: lookups of all threads

\* "current" names the driver's own EntryInfo.
ASSUME ObjectsAssumption ==
    /\ IsFiniteSet(Threads)
    /\ IsFiniteSet(UNION {Objects[t] : t \in Threads})
    /\ \A t \in Threads : "current" \notin Objects[t]

\* Directories are on the volume, with a slot or more in a cluster; drive
\* numbers have 16 bits.
ASSUME VolumesAssumption ==
    /\ Len(Volumes) \in 0 .. 2^16 /\ DOMAIN Volumes = 1 .. Len(Volumes)
    /\ \A p \in DOMAIN Volumes :
          LET clusters == Volumes[p].clusters IN
          /\ Volumes[p].root \in DOMAIN clusters
          /\ \A c \in DOMAIN clusters :
             /\ Len(clusters[c]) \in Nat \ {0}
             /\ DOMAIN clusters[c] = 1 .. Len(clusters[c])
             /\ \A x \in DOMAIN clusters[c] :
                   clusters[c][x].kind = "entry" /\ clusters[c][x].dir =>
                      clusters[c][x].cluster \in DOMAIN clusters

SlotRecord == [kind : {"end", "deleted", "lfn", "entry"}, name : STRING, dir : BOOLEAN,
               cluster : Nat, size : Nat, exact : BOOLEAN]

nullptr == <<>>
NoName == "no name"
Torn == "torn"   \* what cstrbuffer holds when two conversions were mixed
NoDrive == 999   \* a path that is too short to name a drive

\* Directories are written as FAT32 asks: a chain begins with the cluster that
\* names it, a file has the clusters of its size, and the slots of a long name
\* stand right before its entry, which may begin the next cluster.
Chained(v, c) ==
    /\ c \in DOMAIN v.chain
    /\ v.chain[c] \in Seq(DOMAIN v.clusters) \ {<<>>} /\ v.chain[c][1] = c

ASSUME DirectoriesAssumption ==
    /\ Sizes \subseteq Nat
    /\ \A t \in Threads : \A path \in Paths[t] : path.names \in Seq(STRING)
    /\ \A p \in DOMAIN Volumes :
          LET v == Volumes[p] IN
          /\ Chained(v, v.root)
          /\ \A c \in DOMAIN v.clusters :
             /\ v.clusters[c] \in Seq(SlotRecord)
             /\ \A x \in DOMAIN v.clusters[c] :
                LET s == v.clusters[c][x] IN
                /\ s.kind \in {"lfn", "entry"} => s.name \notin {NoName, Torn}
                /\ s.kind = "lfn" /\ x < Len(v.clusters[c]) =>
                      v.clusters[c][x + 1].kind = "entry"
                /\ s.kind = "entry" /\ s.dir => s.cluster = 0 \/ Chained(v, s.cluster)
                /\ s.kind = "entry" /\ s.size > 0 =>
                      /\ s.cluster \in DOMAIN v.chain
                      /\ v.chain[s.cluster] \in Seq(Nat)
                      /\ Len(v.chain[s.cluster]) >= s.size
                      /\ v.chain[s.cluster][1] = s.cluster

VARIABLES
    port,        \* the port that InitializePCIDevices looks at next
    drives,      \* Drives
    nextDriveID, \* sNextDriveID
    heap,        \* the blocks in use: a reference count, 0 for other blocks
    object,      \* the EntryInfo objects, "current" being currentEntry
    cstrbuffer,  \* the static buffer of cstrTowstr, and who wrote to it last
    pc,          \* where a thread is in GetEntryInfo and FindEntry
    frame,       \* their locals
    result,      \* history: what the last call of a thread returned
    doubt,       \* history: what went wrong in it, see Resolves
    calls        \* history: lookups so far

vars == <<port, drives, nextDriveID, heap, object, cstrbuffer, pc, frame, result, doubt,
          calls>>

-----------------------------------------------------------------------------
(* The heap.  A block is named by who took it, what for, and a number.     *)

Fresh(h, t, what) ==
    <<t, what, CHOOSE k \in 1 .. Cardinality(DOMAIN h) + 1 :
                  /\ <<t, what, k>> \notin DOMAIN h
                  /\ \A j \in 1 .. k - 1 : <<t, what, j>> \in DOMAIN h>>

With(h, p, count) == [q \in DOMAIN h \cup {p} |-> IF q = p THEN count ELSE h[q]]

Without(h, blocks) == [q \in DOMAIN h \ blocks |-> h[q]]

(***************************************************************************)
(* EntryInfo.  ~EntryInfo gives up the count and, when it was the last,    *)
(* frees it with the name; an assignment destroys what was there, copies   *)
(* the fields and counts itself.                                           *)
(***************************************************************************)
NoObject == [drive |-> NoDrive, dir |-> FALSE, cluster |-> 0, size |-> 0,
             name |-> nullptr, cell |-> nullptr]

KeptName(h, o) ==                  \* mutant of Destroyed: the name is not freed
    IF h[o.cell] > 1 THEN [h EXCEPT ![o.cell] = @ - 1] ELSE Without(h, {o.cell})

Destroyed(h, o) ==
    IF h[o.cell] > 1 THEN [h EXCEPT ![o.cell] = @ - 1] ELSE Without(h, {o.cell, o.name})

Assigned(h, left, right) == [Destroyed(h, left) EXCEPT ![right.cell] = @ + 1]

\* out = FromDirectoryEntry(slot, mDriveID, name): the temporary is counted
\* by out before it goes.
FromDirectoryEntry(h, t, drive, slot, name) ==
    [drive |-> drive, dir |-> slot.dir, cluster |-> slot.cluster, size |-> slot.size,
     name |-> name, cell |-> Fresh(h, t, "count")]

Replaced(h, out, temporary) ==
    Destroyed(Assigned(With(h, temporary.cell, 1), out, temporary), temporary)

Root(h, t, drive, volume) ==
    [NoObject EXCEPT !.drive = drive, !.dir = TRUE, !.cluster = volume.root,
                     !.cell = Fresh(h, t, "count")]
-----------------------------------------------------------------------------
NoFrame == [path |-> nullptr, ffname |-> nullptr, buffer |-> nullptr, list |-> nullptr,
            info |-> "none", volume |-> 0, names |-> <<>>, x |-> 1, retried |-> FALSE,
            long |-> NoName, exact |-> FALSE]
NoResult == [call |-> "none"]

Init ==
    /\ port = 1 /\ drives = <<>> /\ nextDriveID = 0
    /\ heap = [b \in {} |-> 0]
    /\ object = [t \in Threads |-> [o \in Objects[t] \cup {"current"} |-> NoObject]]
    /\ cstrbuffer = [name |-> NoName, by |-> "nobody"]
    /\ pc = [t \in Threads |-> "idle"]
    /\ frame = [t \in Threads |-> NoFrame]
    /\ result = [t \in Threads |-> NoResult]
    /\ doubt = [t \in Threads |-> {}]
    /\ calls = 0

Booted == port > Len(Volumes)

\* DoesDriveContainF32 reads and checks two sectors, the constructor reads
\* and checks them again and more; each read may fail.
Mount ==
    /\ ~Booted
    /\ port' = port + 1
    /\ \E readable \in BOOLEAN :
          IF readable /\ Volumes[port].valid /\ Volumes[port].large
          THEN /\ drives' = Append(drives, [id |-> nextDriveID, port |-> port])
               /\ nextDriveID' = (nextDriveID + 1) % 2^16
          ELSE UNCHANGED <<drives, nextDriveID>>
    /\ UNCHANGED <<heap, object, cstrbuffer, pc, frame, result, doubt, calls>>

\* The search in Drives; 0 when there is none.
PortOf(id) ==
    LET found == SelectInSeq(drives, LAMBDA d : d.id = id)
    IN  IF found = 0 THEN 0 ELSE drives[found].port

-----------------------------------------------------------------------------
(* What a caller does with its EntryInfo objects between two lookups.      *)

Live(t, o) == object[t][o].cell # nullptr

Idle(t) == Booted /\ pc[t] = "idle"

Client(t) ==
    /\ Idle(t)
    /\ result' = [result EXCEPT ![t] = NoResult]
    /\ doubt' = [doubt EXCEPT ![t] = {}]
    /\ UNCHANGED <<port, drives, nextDriveID, cstrbuffer, pc, frame, calls>>

Construct(t, o) ==
    /\ Client(t) /\ ~Live(t, o)
    /\ LET cell == Fresh(heap, t, "count") IN
       /\ heap' = With(heap, cell, 1)
       /\ object' = [object EXCEPT ![t][o] = [NoObject EXCEPT !.cell = cell]]

Assign(t, left, right) ==
    /\ Client(t) /\ Live(t, left) /\ Live(t, right) /\ left # right
    /\ heap' = Assigned(heap, object[t][left], object[t][right])
    /\ object' = [object EXCEPT ![t][left] = object[t][right]]

Destruct(t, o) ==
    /\ Client(t) /\ Live(t, o)
    /\ heap' = Destroyed(heap, object[t][o])
    /\ object' = [object EXCEPT ![t][o] = NoObject]

WholeBuffer(o, n) == n             \* mutant of Least: the caller's size

Least(o, n) == IF n > o.size THEN o.size ELSE n

\* ReadFile(info, out, numBytes) of an entry that was found: tried twice.
\* The data of a cluster is its number.
ReadFile(t, o, n) ==
    /\ Idle(t) /\ Live(t, o)
    /\ result[t].call = "lookup" /\ result[t].status = "Ok" /\ result[t].info = o
    /\ LET info == object[t][o]
           data == [i \in 1 .. Least(info, n) |-> info.cluster + i - 1]
           Answer(status, read) ==
               [call |-> "read", status |-> status, data |-> read, info |-> o,
                path |-> result[t].path, bytes |-> n]
       IN  \E failures \in 0 .. 2 :
              result' = [result EXCEPT ![t] =
                  IF PortOf(info.drive) = 0 THEN Answer("BadVolume", <<>>)
                  ELSE IF Least(info, n) = 0 \/ failures = 2 THEN Answer("ReadError", <<>>)
                  ELSE Answer("Ok", data)]
    /\ UNCHANGED <<port, drives, nextDriveID, heap, object, cstrbuffer, pc, frame, doubt, calls>>
-----------------------------------------------------------------------------
Looked(t, path, status, info) ==
    result' = [result EXCEPT ![t] =
        [call |-> "lookup", path |-> path, status |-> status, info |-> info]]

\* GetEntryInfo(path, info) up to its loop.
GetEntryInfo(t, o, path) ==
    /\ Idle(t) /\ Live(t, o) /\ calls < MaxCalls
    /\ calls' = calls + 1
    /\ doubt' = [doubt EXCEPT ![t] = {}]
    /\ LET found == PortOf(path.drive)
           current == Root(heap, t, path.drive, Volumes[found])
           block == Fresh(heap, t, "path")
       IN  IF path.drive = NoDrive \/ found = 0 \/ path.names = <<>>
           THEN /\ Looked(t, path, IF path.drive # NoDrive /\ found = 0
                                   THEN "BadVolume" ELSE "BadPath", o)
                /\ UNCHANGED <<heap, object, pc, frame>>
           ELSE /\ heap' = With(With(heap, current.cell, 1), block, 0)
                /\ object' = [object EXCEPT ![t]["current"] = current]
                /\ frame' = [frame EXCEPT ![t] =
                       [NoFrame EXCEPT !.path = block, !.info = o, !.volume = found,
                                       !.names = path.names]]
                /\ pc' = [pc EXCEPT ![t] = "open"]
                /\ result' = [result EXCEPT ![t] = [call |-> "pending", path |-> path]]
    /\ UNCHANGED <<port, drives, nextDriveID, cstrbuffer>>

Current(t) == object[t]["current"]
LastName(t) == Len(frame[t].names) = 1

\* FindEntry returned status and currentEntry is current: GetEntryInfo goes
\* on with the next name, or copies currentEntry to info and returns.
Leave(t, h, current, status) ==
    LET f == frame[t]
        info == object[t][f.info]
        done == Without(h, {f.path, f.ffname})
    IN  IF status = "Ok" /\ ~LastName(t)
        THEN /\ heap' = Without(h, {f.ffname})
             /\ object' = [object EXCEPT ![t]["current"] = current]
             /\ frame' = [frame EXCEPT ![t] =
                    [NoFrame EXCEPT !.path = f.path, !.info = f.info, !.volume = f.volume,
                                    !.names = Tail(f.names)]]
             /\ pc' = [pc EXCEPT ![t] = "open"]
             /\ UNCHANGED result
        ELSE /\ heap' = Destroyed(IF LastName(t) THEN Assigned(done, info, current) ELSE done,
                                  current)
             /\ object' = [object EXCEPT ![t]["current"] = NoObject,
                              ![t][f.info] = IF LastName(t) THEN current ELSE @]
             /\ frame' = [frame EXCEPT ![t] = NoFrame]
             /\ pc' = [pc EXCEPT ![t] = "idle"]
             /\ Looked(t, result[t].path, status, f.info)

\* What FindEntry frees on its way out.
Closed(t) == Without(heap, {frame[t].buffer, frame[t].list})

Unchanged == UNCHANGED <<port, drives, nextDriveID, calls>>

\* wsubstring of the name, FindEntry up to its loop.
FindEntry(t) ==
    LET f == frame[t]
        named == IF LastName(t) THEN heap ELSE With(heap, Fresh(heap, t, "name"), 0)
        buffer == Fresh(heap, t, "buffer")
        list == Fresh(heap, t, "list")
    IN  /\ pc[t] = "open"
        /\ UNCHANGED cstrbuffer
        /\ Unchanged
        /\ IF ~Current(t).dir
           THEN Leave(t, heap, Current(t), "Error") /\ UNCHANGED doubt
           ELSE /\ heap' = With(With(named, buffer, 0), list, 0)
                /\ frame' = [frame EXCEPT ![t].buffer = buffer, ![t].list = list,
                        ![t].ffname = IF LastName(t) THEN nullptr
                                      ELSE Fresh(heap, t, "name")]
                /\ pc' = [pc EXCEPT ![t] = "read"]
                /\ doubt' = [doubt EXCEPT ![t] =
                       IF Current(t).cluster = 0 THEN @ \cup {"cluster 0"} ELSE @]
                /\ UNCHANGED <<object, result>>

\* ReadCluster(startCluster, clusterBuffer), tried twice.
ReadCluster(t) ==
    /\ pc[t] = "read"
    /\ \/ /\ pc' = [pc EXCEPT ![t] = "scan"]
          /\ frame' = [frame EXCEPT ![t].x = 1, ![t].retried = FALSE]
          /\ UNCHANGED <<heap, object, result>>
       \/ /\ ~frame[t].retried
          /\ frame' = [frame EXCEPT ![t].retried = TRUE]
          /\ UNCHANGED <<heap, object, pc, result>>
       \/ /\ frame[t].retried
          /\ Leave(t, Closed(t), Current(t), "ReadError")
    /\ UNCHANGED <<cstrbuffer, doubt>> /\ Unchanged
-----------------------------------------------------------------------------
Cluster(t) == Volumes[frame[t].volume].clusters[Current(t).cluster]
Slot(t) == Cluster(t)[frame[t].x]

\* Mutant of AfterSlot: one slot too many.
AfterSlotLate(t) == IF frame[t].x <= Len(Cluster(t)) THEN "scan" ELSE "read"

\* The code reads the same cluster again after the last slot.
AfterSlot(t) == IF frame[t].x < Len(Cluster(t)) THEN "scan" ELSE "read"

Advance(t, long, exact) ==
    /\ frame' = [frame EXCEPT ![t].x = @ + 1, ![t].long = long, ![t].exact = exact]
    /\ pc' = [pc EXCEPT ![t] = AfterSlot(t)]
    /\ UNCHANGED <<heap, object, result>>

Found(t, name) ==
    LET h == IF name = nullptr THEN Closed(t) ELSE With(Closed(t), name, 0)
        entry == FromDirectoryEntry(h, t, Current(t).drive, Slot(t), name)
    IN  Leave(t, Replaced(h, Current(t), entry), entry, "Ok")

AtEnd(t) ==
    /\ Slot(t).kind = "end"
    /\ Leave(t, Closed(t), Current(t), "NotFound")
    /\ UNCHANGED doubt

RestartAtDeleted(t) ==             \* mutant of AtDeleted: continue of the outer loop
    /\ Slot(t).kind = "deleted"
    /\ pc' = [pc EXCEPT ![t] = "read"]
    /\ UNCHANGED <<heap, object, frame, result, doubt>>

AtDeleted(t) ==
    /\ Slot(t).kind = "deleted"
    /\ Advance(t, frame[t].long, frame[t].exact)
    /\ UNCHANGED doubt

\* The long name at the end of a cluster is not forgotten when the cluster is
\* read again: it becomes the name of the first entry.
AtLongName(t) ==
    /\ Slot(t).kind = "lfn"
    /\ Advance(t, Slot(t).name, Slot(t).exact)
    /\ doubt' = [doubt EXCEPT ![t] = IF AfterSlot(t) = "read" THEN @ \cup {"split"} ELSE @]

NotCleared(t) ==                   \* mutant of AtEntry: nameEntries.Clear is missing
    /\ Slot(t).kind = "entry" /\ frame[t].long # NoName
    /\ IF frame[t].long = Head(frame[t].names) THEN Found(t, Fresh(heap, t, "long"))
       ELSE Advance(t, frame[t].long, frame[t].exact)
    /\ UNCHANGED doubt

\* An entry after long name slots is compared by its long name only, with the
\* copy that has no terminator of its own.
AtEntry(t) ==
    /\ Slot(t).kind = "entry" /\ frame[t].long # NoName
    /\ doubt' = [doubt EXCEPT ![t] = IF frame[t].exact THEN @ \cup {"terminator"} ELSE @]
    /\ \/ /\ frame[t].long = Head(frame[t].names)
          /\ Found(t, Fresh(heap, t, "long"))
       \/ /\ frame[t].long # Head(frame[t].names) \/ frame[t].exact
          /\ Advance(t, NoName, FALSE)

Scan(t) ==
    /\ pc[t] = "scan"
    /\ AtEnd(t) \/ AtDeleted(t) \/ AtLongName(t) \/ AtEntry(t)
    /\ UNCHANGED cstrbuffer /\ Unchanged

(***************************************************************************)
(* Other entries are compared by their short name, which cstrTowstr copies *)
(* into a static buffer: "convert" is inside that copy, "compare" after    *)
(* it.  Whoever writes meanwhile spoils it.                                *)
(***************************************************************************)
Writes(t, name) ==
    /\ cstrbuffer' = [name |-> name, by |-> t]
    /\ doubt' = [u \in Threads |->
           IF u # t /\ pc[u] \in {"convert", "compare"} THEN doubt[u] \cup {"buffer"}
           ELSE doubt[u]]
    /\ UNCHANGED <<heap, object, frame, result>> /\ Unchanged

BeginConvert(t) ==
    /\ pc[t] = "scan" /\ Slot(t).kind = "entry" /\ frame[t].long = NoName
    /\ pc' = [pc EXCEPT ![t] = "convert"]
    /\ Writes(t, Torn)

EndConvert(t) ==
    /\ pc[t] = "convert"
    /\ pc' = [pc EXCEPT ![t] = "compare"]
    /\ Writes(t, IF cstrbuffer.by = t THEN Slot(t).name ELSE Torn)

\* wstrcmp(name, wEntryName).
Compare(t) ==
    /\ pc[t] = "compare"
    /\ \/ cstrbuffer.name \in {Head(frame[t].names), Torn} /\ Found(t, nullptr)
       \/ cstrbuffer.name # Head(frame[t].names) /\ Advance(t, NoName, FALSE)
    /\ UNCHANGED <<cstrbuffer, doubt>> /\ Unchanged

Step(t) ==
    FindEntry(t) \/ ReadCluster(t) \/ Scan(t) \/ BeginConvert(t) \/ EndConvert(t) \/ Compare(t)

Next ==
    \/ Mount
    \/ \E t \in Threads :
       \/ \E o \in Objects[t] :
          \/ Construct(t, o) \/ Destruct(t, o)
          \/ \E right \in Objects[t] : Assign(t, o, right)
          \/ \E n \in Sizes : ReadFile(t, o, n)
          \/ \E path \in Paths[t] : GetEntryInfo(t, o, path)
       \/ Step(t)

\* The scheduler runs every thread again: weak fairness of Step(t), written
\* out, since a thread in a lookup can always take its next step.
Fairness == \A t \in Threads : []<>(pc[t] = "idle") \/ []<><<Step(t)>>_vars

Spec == Init /\ [][Next]_vars /\ Fairness
-----------------------------------------------------------------------------
(* What the volumes hold, by their cluster chains, which the driver does   *)
(* not follow.                                                             *)

AllSlots(v, c) == FlattenSeq([i \in DOMAIN v.chain[c] |-> v.clusters[v.chain[c][i]]])

Slots(v, c) ==
    LET all == AllSlots(v, c)
        end == SelectInSeq(all, LAMBDA s : s.kind = "end")
    IN  IF end = 0 THEN all ELSE SubSeq(all, 1, end - 1)

TrueName(slots, i) ==
    IF i > 1 /\ slots[i - 1].kind = "lfn" THEN slots[i - 1].name ELSE slots[i].name

\* No entry, not even that of an empty file.
Missing == [dir |-> FALSE, cluster |-> -1, size |-> 0]

\* The entry called name in directory d; cluster 0 is the root.
Member(v, d, name) ==
    LET slots == Slots(v, IF d.cluster = 0 THEN v.root ELSE d.cluster)
        named == {i \in DOMAIN slots : slots[i].kind = "entry" /\ TrueName(slots, i) = name}
        entry == slots[Min(named)]
    IN  IF ~d.dir \/ named = {} THEN Missing
        ELSE [dir |-> entry.dir, cluster |-> entry.cluster, size |-> entry.size]

\* What the first k names of a path lead to.
Along(v, names) ==
    LET entry[k \in 0 .. Len(names)] ==
            IF k = 0 THEN [dir |-> TRUE, cluster |-> v.root, size |-> 0]
            ELSE Member(v, entry[k - 1], names[k])
    IN  entry

Resolve(path) == Along(Volumes[PortOf(path.drive)], path.names)[Len(path.names)]

-----------------------------------------------------------------------------
Labels == {"idle", "open", "read", "scan", "convert", "compare"}

\* Types: a thread is at a label with a slot of the cluster it reads, counts
\* are counts, drives have numbers of their own.
TypeOK ==
    /\ \A i, j \in DOMAIN drives : drives[i].id = drives[j].id => i = j
    /\ \A p \in DOMAIN heap : heap[p] \in Nat
    /\ \A t \in Threads :
       /\ pc[t] \in Labels
       /\ pc[t] = "idle" <=> frame[t] = NoFrame
       /\ pc[t] \in {"scan", "convert", "compare"} =>
          frame[t].x \in DOMAIN Cluster(t)

\* The entries and blocks of a thread are all owned: a count (FAT32.h:208) is
\* the number of objects that share it and is gone with the last; a name
\* (FAT32.h:213) lives as long as the objects that share it; every other block
\* belongs to a lookup under way, so no return of FindEntry or GetEntryInfo
\* leaves one behind or frees one twice.
BlocksOwned ==
    LET objects == {object[t][o] : t \in Threads, o \in {"current"}} \cup
                   UNION {{object[t][o] : o \in Objects[t]} : t \in Threads}
        Sharing(p) == UNION {{<<t, o>> : o \in {o \in DOMAIN object[t] :
                                  object[t][o].cell = p}} : t \in Threads}
        temporary == UNION {{frame[t].path, frame[t].ffname, frame[t].buffer,
                             frame[t].list} : t \in Threads}
        pointers == temporary \cup {o.cell : o \in objects} \cup {o.name : o \in objects}
    IN  /\ DOMAIN heap = pointers \ {nullptr}
        /\ \A p \in {o.cell : o \in objects} \ {nullptr} :
              heap[p] = Cardinality(Sharing(p))
        /\ \A o1, o2 \in objects :
              o1.name = o2.name /\ o1.name # nullptr => o1.cell = o2.cell

Answered(t) == result[t].call = "lookup" /\ doubt[t] = {}

\* GetEntryInfo finds what the path names on the volume and misses only what
\* is not there (FAT32.cpp:541), when another thread did not write to the
\* static buffer between conversion and comparison (382, 384), no long name
\* without a terminator was compared (361), none stood at the end of a cluster
\* (353), and the path does not come back to the root by "..", whose cluster
\* is 0.
Resolves ==
    \A t \in Threads : Answered(t) =>
        LET r == result[t]
            o == object[t][r.info]
        IN  /\ r.status = "Ok" =>
               /\ Resolve(r.path) = [dir |-> o.dir, cluster |-> o.cluster, size |-> o.size]
               /\ Resolve(r.path) # Missing
            /\ r.status \in {"NotFound", "Error"} => Resolve(r.path) = Missing
            /\ r.status = "BadVolume" => \A i \in DOMAIN drives : drives[i].id # r.path.drive

\* A file whose clusters follow each other reads as what it holds, to its end
\* or to the size asked for (FAT32.cpp:410).
FilesRead ==
    \A t \in Threads :
        LET r == result[t]
            entry == Resolve(r.path)
            chain == Volumes[PortOf(r.path.drive)].chain[entry.cluster]
            length == Min({entry.size, r.bytes})
        IN  r.call = "read" /\ r.status = "Ok" /\ doubt[t] = {} =>
               \/ r.data = SubSeq(chain, 1, length)
               \/ \E i \in 1 .. length - 1 : chain[i + 1] # chain[i] + 1

\* A lookup returns, whatever reads fail and whatever the other threads do,
\* unless it searches a directory whose first cluster has no end mark, which
\* FindEntry reads over and over (FAT32.cpp:329).
Endless(t) ==
    /\ frame[t].buffer # nullptr
    /\ \A i \in DOMAIN Cluster(t) : Cluster(t)[i].kind # "end"

LookupEnds == \A t \in Threads : pc[t] # "idle" ~> (pc[t] = "idle" \/ Endless(t))
=============================================================================
