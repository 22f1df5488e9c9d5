-------------------------------- MODULE MMap --------------------------------
(***************************************************************************)
(* A file mapped into a process (mem/mmap.cpp) and the page faults that    *)
(* fill it (arch/x86_64/sys/cpu/fault.cpp): CACHE_SLOTS buffers, each      *)
(* holding one page of the file and mapped, at most once, into the         *)
(* process.  Several threads of the process fault on the same region; one  *)
(* may unmap it.                                                           *)
(*                                                                         *)
(* Reading the file (seek and read) and changing the page map are steps of *)
(* their own: the other threads use the mapped pages in between.           *)
(***************************************************************************)
EXTENDS Integers, FiniteSets

CONSTANTS
    MmThreads,      \* threads of the process
    MmPages,        \* pages of the region: 0 .. MmPages - 1
    MmSlots,        \* CACHE_SLOTS
    MmFaults        \* bound: accesses a thread makes

ASSUME MmAssumption ==
    /\ MmSlots \in Nat /\ MmSlots > 0
    /\ MmPages \in Nat
    /\ 0 \notin MmThreads

VARIABLES
    mmCache,        \* slot -> [id, ref]: the page it is for, the page mapped
    mmPtr,          \* cache_ptr
    mmBuf,          \* slot -> the page of the file its buffer holds
    mmMap,          \* page -> slot it is mapped to, or none
    mmRegion,       \* "mapped", "erased" (off the list) or "deleted"
    mmLock,         \* the region's mutex
    mmPc, mmLoc,    \* thread -> where, and [page, slot]
    mmLeft,         \* accesses left
    mmUaf           \* a thread used the region after it was deleted

mmVars == <<mmCache, mmPtr, mmBuf, mmMap, mmRegion, mmLock, mmPc, mmLoc, mmLeft, mmUaf>>

NoSlot == -1
NoPage == -1
Slot == 0 .. (MmSlots - 1)
Page == 0 .. (MmPages - 1)
MmIdle == [page |-> NoPage, slot |-> NoSlot]

MmInit ==
    /\ mmCache = [s \in Slot |-> [id |-> NoPage, ref |-> NoPage]]
    /\ mmPtr = 0
    /\ mmBuf = [s \in Slot |-> NoPage]
    /\ mmMap = [p \in Page |-> NoSlot]
    /\ mmRegion = "mapped"
    /\ mmLock = 0
    /\ mmPc = [t \in MmThreads |-> "user"]
    /\ mmLoc = [t \in MmThreads |-> MmIdle]
    /\ mmLeft = [t \in MmThreads |-> MmFaults]
    /\ mmUaf = FALSE

(* findSlot(id): up to CACHE_SLOTS looks.  The slot returned is the one    *)
(* cache_ptr was at; the ids looked at are the ones of the slot after it.  *)
FindSlot(id) ==
    LET prev == IF id = 0 THEN 0 ELSE id - 1
        after(j) == (mmPtr + j) % MmSlots
        stops == {j \in 1 .. MmSlots :
                        mmCache[after(j)].id = id \/ mmCache[after(j)].id # prev}
        looks == CHOOSE j \in stops : \A k \in stops : j <= k
    IN  IF stops = {} THEN [slot |-> NoSlot, ptr |-> after(MmSlots)]
        ELSE [slot |-> IF mmCache[after(looks)].id = id THEN NoSlot ELSE after(looks - 1),
              ptr  |-> after(looks)]

MmAt(t, where) == mmPc[t] = where /\ ~ mmUaf
MmGoto(t, where) == mmPc' = [mmPc EXCEPT ![t] = where]

\* A user access to a page that is not present: handle_page_fault finds the
\* region under the process's lock and keeps a bare pointer to it.
PageFault(t, p) ==
    /\ MmAt(t, "user") /\ mmLeft[t] > 0
    /\ mmRegion = "mapped"
    /\ mmMap[p] = NoSlot
    /\ mmLeft' = [mmLeft EXCEPT ![t] = @ - 1]
    /\ mmLoc' = [mmLoc EXCEPT ![t].page = p]
    /\ MmGoto(t, "found")
    /\ UNCHANGED <<mmCache, mmPtr, mmBuf, mmMap, mmRegion, mmLock, mmUaf>>

\* FileBackedMMapRegion::read on a region that has been deleted.
ReadDeleted(t) ==
    /\ MmAt(t, "found") /\ mmRegion = "deleted"
    /\ mmUaf' = TRUE
    /\ UNCHANGED <<mmCache, mmPtr, mmBuf, mmMap, mmRegion, mmLock, mmPc, mmLoc, mmLeft>>

\* read(): the mutex, then a slot; without one it returns and the thread
\* faults again.
ReadSlot(t) ==
    /\ MmAt(t, "found") /\ mmRegion # "deleted"
    /\ mmLock = 0
    /\ LET f == FindSlot(mmLoc[t].page)
       IN  /\ mmPtr' = f.ptr
           /\ IF f.slot = NoSlot
              THEN /\ mmLoc' = [mmLoc EXCEPT ![t] = MmIdle]
                   /\ MmGoto(t, "user")
                   /\ UNCHANGED mmLock
              ELSE /\ mmLoc' = [mmLoc EXCEPT ![t].slot = f.slot]
                   /\ mmLock' = t
                   /\ MmGoto(t, "evict")
    /\ UNCHANGED <<mmCache, mmBuf, mmMap, mmRegion, mmLeft, mmUaf>>

\* Mutant: the page that was in the slot stays mapped.
EvictNothing(slot) == mmMap

\* The page the slot was mapped to becomes a page that faults.
EvictPage(slot) ==
    IF mmCache[slot].id = NoPage THEN mmMap
    ELSE [mmMap EXCEPT ![mmCache[slot].ref] = NoSlot]

ReadEvict(t) ==
    LET l == mmLoc[t]
    IN  /\ MmAt(t, "evict")
        /\ mmMap' = EvictPage(l.slot)
        /\ mmCache' = [mmCache EXCEPT ![l.slot] = [id |-> l.page, ref |-> l.page]]
        /\ MmGoto(t, "fill")
        /\ UNCHANGED <<mmPtr, mmBuf, mmRegion, mmLock, mmLoc, mmLeft, mmUaf>>

\* seek() and read() into the slot's buffer.
ReadFill(t) ==
    LET l == mmLoc[t]
    IN  /\ MmAt(t, "fill")
        /\ mmBuf' = [mmBuf EXCEPT ![l.slot] = l.page]
        /\ MmGoto(t, "map")
        /\ UNCHANGED <<mmCache, mmPtr, mmMap, mmRegion, mmLock, mmLoc, mmLeft, mmUaf>>

\* The buffer's frame is mapped at the page; the mutex is released.
ReadMap(t) ==
    LET l == mmLoc[t]
    IN  /\ MmAt(t, "map")
        /\ mmMap' = [mmMap EXCEPT ![l.page] = l.slot]
        /\ mmLock' = 0
        /\ mmLoc' = [mmLoc EXCEPT ![t] = MmIdle]
        /\ MmGoto(t, "user")
        /\ UNCHANGED <<mmCache, mmPtr, mmBuf, mmRegion, mmLeft, mmUaf>>

\* munmap: remove_region takes the region off the list under the lock ...
Munmap(t) ==
    /\ MmAt(t, "user") /\ mmLeft[t] > 0
    /\ mmRegion = "mapped"
    /\ mmRegion' = "erased"
    /\ mmLeft' = [mmLeft EXCEPT ![t] = 0]
    /\ MmGoto(t, "delete")
    /\ UNCHANGED <<mmCache, mmPtr, mmBuf, mmMap, mmLock, mmLoc, mmUaf>>

\* ... and deletes it outside: the destructor waits for the mutex, closes
\* the file, frees the pages and then the buffers.
DeleteRegion(t) ==
    /\ MmAt(t, "delete") /\ mmLock = 0
    /\ mmRegion' = "deleted"
    /\ mmMap' = [p \in Page |-> NoSlot]
    /\ mmCache' = [s \in Slot |-> [id |-> NoPage, ref |-> NoPage]]
    /\ mmBuf' = [s \in Slot |-> NoPage]
    /\ MmGoto(t, "user")
    /\ UNCHANGED <<mmPtr, mmLock, mmLoc, mmLeft, mmUaf>>

MmStep(t) ==
    \/ \E p \in Page : PageFault(t, p)
    \/ ReadDeleted(t) \/ ReadSlot(t) \/ ReadEvict(t) \/ ReadFill(t) \/ ReadMap(t)
    \/ Munmap(t) \/ DeleteRegion(t)

MmNext == \E t \in MmThreads : MmStep(t)

MmSpec == MmInit /\ [][MmNext]_mmVars

-----------------------------------------------------------------------------
(* A page of the process that is mapped shows its own page of the file,    *)
(* and no two pages show the same buffer: a buffer is never refilled under *)
(* a page that still maps it, however the threads' faults and an munmap()  *)
(* interleave (mmap.cpp:78-89).                                            *)
PagesShowTheirFile ==
    \A p \in Page : mmMap[p] # NoSlot =>
        /\ mmBuf[mmMap[p]] = p
        /\ mmRegion # "deleted"
        /\ \A q \in Page \ {p} : mmMap[q] # mmMap[p]
=============================================================================
