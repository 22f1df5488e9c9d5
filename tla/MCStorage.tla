----------------------------- MODULE MCStorage ------------------------------
(* Model-checking instances of the memory management (Phys, Heap, Paging,  *)
(* MMap) and of the files (FileData, Paths, FdTable).  A behaviour is one  *)
(* of one component, chosen in the initial state.                          *)
EXTENDS Paging, Heap, MMap, FileData, Paths, FdTable

VARIABLE unit

memVars == <<physVars, pgVars, heapVars, mmVars>>
fsVars == <<fdVars, ptVars, ftVars>>
storageVars == <<memVars, fsVars, unit>>

Region(start, len) == [start |-> start, len |-> len]

\* One region larger than the root bitmap; three small ones; both.
Maps == {<<Region(10, 9)>>,
         <<Region(10, 4), Region(20, 3), Region(30, 4)>>,
         <<Region(10, 7), Region(20, 2), Region(30, 4)>>}

Fan == <<4, 2, 2>>

Call(op, p, n, x) == [op |-> op, p |-> p, n |-> n, x |-> x]

\* A process whose threads map, fork and unmap; two threads in the kernel's
\* page map.
Plans ==
    {1 :> <<Call("alloc", 1, 2, FALSE), Call("fork", 1, 0, FALSE),
            Call("free", 1, 0, FALSE), Call("delete", 2, 0, FALSE)>> @@
     2 :> <<Call("map", 1, 1, FALSE), Call("alloc", 1, 1, TRUE), Call("free", 1, 0, FALSE)>>,
     1 :> <<Call("alloc", 0, 1, FALSE), Call("cont", 0, 2, FALSE), Call("free", 0, 0, FALSE)>> @@
     2 :> <<Call("map", 0, 1, FALSE), Call("free", 0, 0, FALSE), Call("alloc", 1, 1, FALSE)>>}

\* The records of a directory of three blocks: "." and "..", then four
\* names, one of them at the end of its block.
Records ==
    [p \in {0, 1, 2, 4, 5, 8} |->
        [len |-> IF p \in {2, 5} THEN 2 ELSE 1,
         name |-> CASE p \in {0, 1} -> "" [] p = 2 -> "x" [] p = 4 -> "y"
                    [] p = 5 -> "z" [] p = 8 -> "w"]]

MCBases == {<<>>, <<"/">>, <<"/", "a">>, <<"/", "a", "/">>, <<"/", "a", "/", "d">>, <<"a">>}

MCMount == <<"/", "d", "/">>

\* A directory a with the files a/a and a/d.
MCRoot == [n \in {<<>>, <<<<"a">>>>, <<<<"a">>, <<"a">>>>, <<<<"a">>, <<"d">>>>} |->
              IF Len(n) < 2 THEN "dir" ELSE "file"]

MCThreads == "t1" :> 1 @@ "t2" :> 1

StorageInit ==
    /\ PhysInit /\ PgInit /\ HeapInit /\ MmInit /\ FdInit /\ PtInit /\ FtInit
    /\ unit \in {"phys", "paging", "heap", "mmap", "file", "dir", "paths", "fdtable"}
    /\ unit # "phys" => pboot = CHOOSE m \in Maps : TRUE
    /\ unit # "paging" => pgPlan = CHOOSE p \in Plans : TRUE
    /\ unit # "paths" => ptBase = <<>>

StorageNext ==
    /\ UNCHANGED unit
    /\ \/ unit = "phys" /\ PhysNext /\ UNCHANGED <<pgVars, heapVars, mmVars, fsVars>>
       \/ unit = "paging" /\ PgNext /\ UNCHANGED <<physVars, heapVars, mmVars, fsVars>>
       \/ unit = "heap" /\ HeapNext /\ UNCHANGED <<physVars, pgVars, mmVars, fsVars>>
       \/ unit = "mmap" /\ MmNext /\ UNCHANGED <<physVars, pgVars, heapVars, fsVars>>
       \/ unit = "file" /\ FdNext /\ UNCHANGED <<memVars, ptVars, ftVars>>
       \/ unit = "dir" /\ DirNext /\ UNCHANGED <<memVars, ptVars, ftVars>>
       \/ unit = "paths" /\ PtNext /\ UNCHANGED <<memVars, fdVars, ftVars>>
       \/ unit = "fdtable" /\ FtNext /\ UNCHANGED <<memVars, fdVars, ptVars>>

StorageSpec == StorageInit /\ [][StorageNext]_storageVars
=============================================================================
