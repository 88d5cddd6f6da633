------------------------------- MODULE MCFat32 -------------------------------
(***************************************************************************)
(* The volumes and paths on which TLC checks Fat32.  Port 1 has no FAT32   *)
(* volume, port 2 one that is too small; Files has a directory and long    *)
(* names; on Full the root directory goes on in a second cluster, within   *)
(* the slots of a long name.                                               *)
(***************************************************************************)
EXTENDS Fat32

CONSTANTS t1, t2

Entry(name, dir, cluster, size) ==
    [kind |-> "entry", name |-> name, dir |-> dir, cluster |-> cluster, size |-> size,
     exact |-> FALSE]
Long(name, exact) == [Entry(name, FALSE, 0, 0) EXCEPT !.kind = "lfn", !.exact = exact]
Mark(kind) == [Entry(NoName, FALSE, 0, 0) EXCEPT !.kind = kind]

Files ==
    [valid |-> TRUE, large |-> TRUE, root |-> 2,
     clusters |-> 0 :> <<Mark("end")>>
               @@ 2 :> <<Mark("deleted"), Long("long", FALSE), Entry("long~1", FALSE, 5, 2),
                         Long("d", FALSE), Entry("d~1", TRUE, 3, 0), Mark("end")>>
               @@ 3 :> <<Entry("..", TRUE, 0, 0), Long("exactly8", TRUE),
                         Entry("exactl~1", FALSE, 7, 1), Entry("f", FALSE, 8, 2),
                         Entry("empty", FALSE, 0, 0), Mark("end")>>,
     chain |-> 2 :> <<2>> @@ 3 :> <<3>> @@ 5 :> <<5, 6>> @@ 7 :> <<7>> @@ 8 :> <<8, 10>>]

Full ==
    [valid |-> TRUE, large |-> TRUE, root |-> 2,
     clusters |-> 2 :> <<Entry("f", FALSE, 5, 1), Mark("deleted"), Long("h", FALSE)>>
               @@ 4 :> <<Entry("h~1", FALSE, 7, 1), Entry("g", FALSE, 6, 1), Mark("end")>>,
     chain |-> 2 :> <<2, 4>> @@ 5 :> <<5>> @@ 6 :> <<6>> @@ 7 :> <<7>>]

MCThreads == {t1, t2}
MCObjects == t1 :> {"a", "b"} @@ t2 :> {"c"}
MCVolumes == <<[Files EXCEPT !.valid = FALSE], [Files EXCEPT !.large = FALSE], Files, Full>>
Path(drive, names) == [drive |-> drive, names |-> names]
MCPaths ==
    t1 :> {Path(0, <<"long">>), Path(0, <<"d", "f">>), Path(0, <<"d", "..", "d">>),
           Path(0, <<"d", "empty">>),
           Path(0, <<"d", "exactly8">>), Path(0, <<"long", "f">>), Path(0, <<"x">>),
           Path(1, <<"f">>), Path(1, <<"h">>), Path(NoDrive, <<>>), Path(0, <<>>), Path(7, <<"f">>)}
 @@ t2 :> {Path(0, <<"d">>), Path(1, <<"g">>)}
MCSizes == {0, 1, 3}
=============================================================================
