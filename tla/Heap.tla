-------------------------------- MODULE Heap --------------------------------
(***************************************************************************)
(* The kernel heap (mem/heap.cpp): slabs of ALLOC_SIZE pieces, a bitmap    *)
(* with one bit per piece and a spinlock per slab, the slabs in a list     *)
(* that malloc() extends under its own lock.  A block is a run of pieces   *)
(* whose first one is its header.                                          *)
(*                                                                         *)
(* The bitmap ends where the data begins (sizeof(Slab) is a multiple of    *)
(* ALLOC_SIZE), so the word after the bitmap is the low half of the        *)
(* header's sanity field of a block at piece 0; mark() and unmark() read   *)
(* it and write it back when their run ends with the slab.                 *)
(***************************************************************************)
EXTENDS Integers, Sequences, FiniteSets

CONSTANTS
    HeapThreads,    \* callers; positive numbers, also the tags they write
    HeapPieces,     \* pieces of a slab
    HeapSizes,      \* sizes asked for, in pieces without the header
    HeapSlabs,      \* bound: slabs that can be created
    HeapCalls,      \* bound: calls a thread makes
    HeapReallocs    \* whether realloc() is among the calls

ASSUME HeapAssumption ==
    /\ HeapThreads \subseteq Nat \ {0}
    /\ HeapPieces \in Nat \ {0}
    /\ HeapSizes \subseteq Nat
    /\ HeapSlabs \in Nat \ {0}

VARIABLES
    hbits,          \* [slab -> set of marked pieces]
    hmem,           \* [slab -> [piece -> what its memory holds]]
    hlock,          \* [slab -> the thread in its critical section, or 0]
    mlock,          \* malloc_lock
    heapFree,       \* heap_free, in pieces
    hheld,          \* blocks returned and not freed: [s, i, n, by]
    hpc, hloc,      \* where a thread is, and its locals
    hcalls,         \* calls each thread has left
    hstop           \* "no", or how the kernel stopped

heapVars == <<hbits, hmem, hlock, mlock, heapFree, hheld, hpc, hloc, hcalls, hstop>>

HeapNil == 0
Zeroed == 0
Filled5A == -90
Header(n) == 100 + n
HeapPiece == 0 .. (HeapPieces - 1)
NoBlock == [s |-> 0, i |-> 0, n |-> 0, by |-> 0]

\* ceilToPiece(size + ALLOC_SIZE)
WithHeader(size) == size + 1

Block(i, n) == i .. (i + n - 1)

\* Slab::findFree: the first run of n clear bits.
FitsAt(bits, n) == {i \in HeapPiece : i + n <= HeapPieces /\ Block(i, n) \cap bits = {}}
FindFree(bits, n) == CHOOSE i \in FitsAt(bits, n) : \A j \in FitsAt(bits, n) : i <= j

\* The run reaches the last bit of the bitmap's last word.
TouchesEnd(i, n) == i + n = HeapPieces

Locals(s, n, i, word, old) == [s |-> s, n |-> n, i |-> i, word |-> word, old |-> old]
HeapIdle == Locals(0, 0, 0, 0, NoBlock)

HeapInit ==
    /\ hbits = [s \in 1 .. HeapSlabs |-> {}]
    /\ hmem = [s \in 1 .. HeapSlabs |-> [p \in HeapPiece |-> Zeroed]]
    /\ hlock = <<HeapNil>>
    /\ mlock = HeapNil
    /\ heapFree = HeapPieces
    /\ hheld = {}
    /\ hpc = [t \in HeapThreads |-> "idle"]
    /\ hloc = [t \in HeapThreads |-> HeapIdle]
    /\ hcalls = [t \in HeapThreads |-> HeapCalls]
    /\ hstop = "no"

Slabs == DOMAIN hlock

At(t, where) == hpc[t] = where /\ hstop = "no"

Goto(t, where) == hpc' = [hpc EXCEPT ![t] = where]

\* malloc(size), and realloc(ptr, size) up to its malloc().
CallMalloc(t, size, old) ==
    /\ At(t, "idle") /\ hcalls[t] > 0
    /\ hcalls' = [hcalls EXCEPT ![t] = @ - 1]
    /\ hloc' = [hloc EXCEPT ![t] = Locals(1, WithHeader(size), 0, 0, old)]
    /\ Goto(t, "alloc")
    /\ UNCHANGED <<hbits, hmem, hlock, mlock, heapFree, hheld, hstop>>

\* Mutant: the search is made before the lock is taken.
AllocMarkUnlocked(t) ==
    LET s == hloc[t].s
        n == hloc[t].n
    IN  IF hloc[t].word = Zeroed
        THEN /\ At(t, "alloc") /\ FitsAt(hbits[s], n) # {}
             /\ hloc' = [hloc EXCEPT ![t].i = FindFree(hbits[s], n), ![t].word = 1]
             /\ UNCHANGED <<hbits, hmem, hlock, mlock, heapFree, hheld, hpc, hcalls, hstop>>
        ELSE /\ At(t, "alloc") /\ hlock[s] = HeapNil
             /\ hlock' = [hlock EXCEPT ![s] = t]
             /\ hbits' = [hbits EXCEPT ![s] = @ \cup Block(hloc[t].i, n)]
             /\ hloc' = [hloc EXCEPT ![t].word = hmem[s][0]]
             /\ Goto(t, "marked")
             /\ UNCHANGED <<hmem, mlock, heapFree, hheld, hcalls, hstop>>

(* Slab::alloc up to the end of mark(): under the slab's lock a run is     *)
(* found and marked, and the word past a bitmap it ends is read.           *)
AllocMark(t) ==
    LET s == hloc[t].s
        n == hloc[t].n
        i == FindFree(hbits[s], n)
    IN  /\ At(t, "alloc") /\ hlock[s] = HeapNil
        /\ FitsAt(hbits[s], n) # {}
        /\ hlock' = [hlock EXCEPT ![s] = t]
        /\ hbits' = [hbits EXCEPT ![s] = @ \cup Block(i, n)]
        /\ hloc' = [hloc EXCEPT ![t].i = i, ![t].word = hmem[s][0]]
        /\ Goto(t, "marked")
        /\ UNCHANGED <<hmem, mlock, heapFree, hheld, hcalls, hstop>>

\* The word past the bitmap is written back as it was read.
WriteBack(t) ==
    IF TouchesEnd(hloc[t].i, hloc[t].n) THEN [hmem[hloc[t].s] EXCEPT ![0] = hloc[t].word]
    ELSE hmem[hloc[t].s]

AllocUnlock(t) ==
    LET s == hloc[t].s
    IN  /\ At(t, "marked")
        /\ hmem' = [hmem EXCEPT ![s] = WriteBack(t)]
        /\ hlock' = [hlock EXCEPT ![s] = HeapNil]
        /\ Goto(t, "header")
        /\ UNCHANGED <<hbits, mlock, heapFree, hheld, hloc, hcalls, hstop>>

(* The rest of Slab::alloc, with no lock: the run is zeroed, the header    *)
(* written, heap_free lowered.  The caller, or realloc()'s memcpy, then    *)
(* fills the block.                                                        *)
AllocFill(t) ==
    LET l == hloc[t]
        body == Block(l.i, l.n) \ {l.i}
    IN  /\ At(t, "header")
        /\ hmem' = [hmem EXCEPT ![l.s] = [p \in HeapPiece |->
                       IF p = l.i THEN Header(l.n)
                       ELSE IF p \in body THEN t ELSE @[p]]]
        /\ heapFree' = heapFree - l.n
        /\ hheld' = hheld \cup {[s |-> l.s, i |-> l.i, n |-> l.n, by |-> t]}
        /\ IF l.old = NoBlock
           THEN hloc' = [hloc EXCEPT ![t] = HeapIdle] /\ Goto(t, "idle")
           ELSE /\ hloc' = [hloc EXCEPT ![t] = Locals(0, 0, 0, 0, l.old)]
                /\ Goto(t, "free")
        /\ UNCHANGED <<hbits, hlock, mlock, hcalls, hstop>>

(* Slab::alloc when no run fits.  findFree() does not stop at the last bit *)
(* of the bitmap but at the first later word with all bits set: it returns *)
(* -1, or leaves the slab's memory before it meets such a word.            *)
AllocFails(t) ==
    LET s == hloc[t].s
    IN  /\ At(t, "alloc") /\ hlock[s] = HeapNil
        /\ FitsAt(hbits[s], hloc[t].n) = {}
        /\ \/ Goto(t, "next") /\ UNCHANGED hstop
           \/ hstop' = "fault" /\ UNCHANGED hpc
        /\ UNCHANGED <<hbits, hmem, hlock, mlock, heapFree, hheld, hloc, hcalls>>

\* malloc() moves on to a slab that exists.
NextSlab(t) ==
    /\ At(t, "next") /\ hloc[t].s < Len(hlock)
    /\ hloc' = [hloc EXCEPT ![t].s = @ + 1]
    /\ Goto(t, "alloc")
    /\ UNCHANGED <<hbits, hmem, hlock, mlock, heapFree, hheld, hcalls, hstop>>

\* No next slab: ...
NextMissing(t) ==
    /\ At(t, "next") /\ hloc[t].s = Len(hlock)
    /\ Goto(t, "lock")
    /\ UNCHANGED <<hbits, hmem, hlock, mlock, heapFree, hheld, hloc, hcalls, hstop>>

\* ... malloc_lock is taken ...
NextLock(t) ==
    /\ At(t, "lock") /\ mlock = HeapNil
    /\ mlock' = t
    /\ Goto(t, "extend")
    /\ UNCHANGED <<hbits, hmem, hlock, heapFree, hheld, hloc, hcalls, hstop>>

\* ... and next is read again: another thread may have added the slab, ...
ExtendSeen(t) ==
    /\ At(t, "extend") /\ hloc[t].s < Len(hlock)
    /\ mlock' = HeapNil
    /\ Goto(t, "alloc")
    /\ UNCHANGED <<hbits, hmem, hlock, heapFree, hheld, hloc, hcalls, hstop>>

ExtendBy(t, counted) ==
    /\ At(t, "extend") /\ hloc[t].s = Len(hlock) /\ Len(hlock) < HeapSlabs
    /\ hlock' = Append(hlock, HeapNil)
    /\ heapFree' = heapFree + counted
    /\ mlock' = HeapNil
    /\ hloc' = [hloc EXCEPT ![t].s = @ + 1]
    /\ Goto(t, "alloc")
    /\ UNCHANGED <<hbits, hmem, hheld, hcalls, hstop>>

\* ... or createFromVMem() adds it.
Extend(t) == ExtendBy(t, HeapPieces)

\* free(ptr): the slab that owns the block is found by its bounds.
CallFree(t, b) ==
    /\ At(t, "idle") /\ hcalls[t] > 0
    /\ hcalls' = [hcalls EXCEPT ![t] = @ - 1]
    /\ hloc' = [hloc EXCEPT ![t] = Locals(0, 0, 0, 0, b)]
    /\ Goto(t, "free")
    /\ UNCHANGED <<hbits, hmem, hlock, mlock, heapFree, hheld, hstop>>

\* Slab::free's sanity check fails.
FreePanics(t) ==
    LET b == hloc[t].old
    IN  /\ At(t, "free")
        /\ hmem[b.s][b.i] # Header(b.n)
        /\ hstop' = "sanity"
        /\ UNCHANGED <<hbits, hmem, hlock, mlock, heapFree, hheld, hpc, hloc, hcalls>>

\* Slab::free with unmark(), under the slab's lock.
FreeUnmark(t) ==
    LET b == hloc[t].old
    IN  /\ At(t, "free") /\ hlock[b.s] = HeapNil
        /\ hmem[b.s][b.i] = Header(b.n)
        /\ hlock' = [hlock EXCEPT ![b.s] = t]
        /\ hbits' = [hbits EXCEPT ![b.s] = @ \ Block(b.i, b.n)]
        /\ heapFree' = heapFree + b.n
        /\ hheld' = hheld \ {b}
        /\ hloc' = [hloc EXCEPT ![t] = Locals(b.s, b.n, b.i, hmem[b.s][0], NoBlock)]
        /\ Goto(t, "unmarked")
        /\ UNCHANGED <<hmem, mlock, hcalls, hstop>>

\* The block is filled with 0x5A before the lock is released.
FreeFill(t) ==
    LET l == hloc[t]
        m == WriteBack(t)
    IN  /\ At(t, "unmarked")
        /\ hmem' = [hmem EXCEPT ![l.s] = [p \in HeapPiece |->
                       IF p \in Block(l.i, l.n) THEN Filled5A ELSE m[p]]]
        /\ hlock' = [hlock EXCEPT ![l.s] = HeapNil]
        /\ hloc' = [hloc EXCEPT ![t] = HeapIdle]
        /\ Goto(t, "idle")
        /\ UNCHANGED <<hbits, mlock, heapFree, hheld, hcalls, hstop>>

HeapStep(t) ==
    \/ \E size \in HeapSizes : CallMalloc(t, size, NoBlock)
    \/ AllocMark(t) \/ AllocUnlock(t) \/ AllocFill(t) \/ AllocFails(t)
    \/ NextSlab(t) \/ NextMissing(t) \/ NextLock(t) \/ ExtendSeen(t) \/ Extend(t)
    \/ \E b \in hheld : b.by = t /\ CallFree(t, b)
    \/ \E b \in hheld, size \in HeapSizes :
           HeapReallocs /\ b.by = t /\ CallMalloc(t, size, b)
    \/ FreePanics(t) \/ FreeUnmark(t) \/ FreeFill(t)

HeapNext == \E t \in HeapThreads : HeapStep(t)

HeapSpec == HeapInit /\ [][HeapNext]_heapVars

-----------------------------------------------------------------------------
(* A block keeps what its owner wrote, and its header, until it is freed:  *)
(* no other call zeroes it, fills it or is given a piece of it.  (The      *)
(* header of a block at piece 0 also stands where the bitmap's word past   *)
(* the end is.)  (heap.cpp:89, 94, 123)                                    *)
BlocksKept ==
    \A b \in hheld :
        /\ \A p \in Block(b.i, b.n) \ {b.i} : hmem[b.s][p] = b.by
        /\ b.i = 0 \/ hmem[b.s][b.i] = Header(b.n)

(* When no call is under way heap_free is the number of clear bits in all  *)
(* slabs, although it is changed outside the locks and by three different  *)
(* paths (heap.cpp:69, 100, 121).                                          *)
HeapFreeExact ==
    (\A t \in HeapThreads : hpc[t] = "idle") =>
        heapFree = Cardinality({c \in Slabs \X HeapPiece : c[2] \notin hbits[c[1]]})

\* A block is its owner's until it is freed, and then counted as free.
HeapAccounted == BlocksKept /\ HeapFreeExact
=============================================================================
