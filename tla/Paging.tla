------------------------------- MODULE Paging -------------------------------
(***************************************************************************)
(* Page maps (arch/x86_64/mem/paging.cpp): trees of tables kept in         *)
(* physical frames, the page pointers (pptr) through which the kernel      *)
(* reaches a frame, and the TLBs that recache() has to keep honest.        *)
(*                                                                         *)
(* The tables are explicit: pgTab maps a frame that holds a table to its   *)
(* entries.  A virtual address is a page number; PgFan gives the entries   *)
(* of each level, the root first, the page table last.  Page map 0 is the  *)
(* kernel's, which shares the upper half of every root.                    *)
(*                                                                         *)
(* What an operation does under the page map's spinlock is one step, but   *)
(* free() gives the frames back, and then flushes, in steps of their own:  *)
(* other threads run and touch memory in between.                          *)
(***************************************************************************)
EXTENDS Phys, SequencesExt

CONSTANTS
    PgThreads,      \* threads, each on a CPU of its own
    PgFan,          \* <<root, ..., page table>>: entries per level
    PgUser,         \* root entries of the user half
    PgFrames,       \* physical frames
    PgPptrs,        \* PPTR_AMOUNT
    PgPlans         \* calls each thread makes: functions thread -> sequence

VARIABLES
    pgPiece,        \* the frame allocator's piece
    pgTab,          \* frame -> [index -> entry]
    pgRoot,         \* page map -> pageRoot
    pgLock,         \* page map -> holder of m_lock, or 0
    pgPptr,         \* pptr_taken: slot -> holder, or 0
    pgPlan,         \* calls left
    pgPc, pgLoc,    \* where a thread is; its locals
    pgHas,          \* thread -> regions it was given: <<[p, v, n, k], ...>>
    pgTlb,          \* CPU -> cached translations [p, v, f]
    pgLeak,         \* frames a destroyed page map did not give back
    pgStop

pgVars == <<pgPiece, pgTab, pgRoot, pgLock, pgPptr, pgPlan, pgPc, pgLoc, pgHas, pgTlb,
            pgLeak, pgStop>>

PtLevel == Len(PgFan)
\* pages below one entry of a level
Span == [l \in 1 .. PtLevel |-> FoldLeft(LAMBDA a, b : a * b, 1, SubSeq(PgFan, l + 1, PtLevel))]
Index(v, l) == (v \div Span[l]) % PgFan[l]
VEnd(p) == (IF p = 0 THEN PgFan[1] ELSE PgUser) * Span[1]
VStart(p, exec) ==
    IF exec THEN VEnd(p) - Span[1] ELSE IF p = 0 THEN PgUser * Span[1] ELSE 0

Empty == [f |-> NoFrame, k |-> "none"]
Table(f) == [f |-> f, k |-> "table"]
EmptyTable(l) == [i \in 0 .. (PgFan[l] - 1) |-> Empty]

\* The state a walk works on.
Tables == [piece |-> pgPiece, tab |-> pgTab]

\* Phys::alloc of n frames in a row; the kernel panics when there are none.
Take(T, n) ==
    LET i == PieceFind(T.piece, n) IN [T EXCEPT !.piece = PieceAlloc(@, i, n)]

\* find_table: the page table of v, or NoFrame.
FindTable(T, root, v) ==
    FoldLeft(LAMBDA f, l : IF f = NoFrame THEN NoFrame ELSE T.tab[f][Index(v, l)].f,
             root, [l \in 1 .. (PtLevel - 1) |-> l])

\* findTableEnsure: missing tables are allocated and cleared on the way.
Ensure(T, root, v) ==
    LET step(a, l) ==
          LET i == Index(v, l)
              e == a.T.tab[a.f][i]
              f == PieceFind(a.T.piece, 1)
          IN  IF e.k # "none" THEN [a EXCEPT !.f = e.f]
              ELSE [T |-> [Take(a.T, 1) EXCEPT
                              !.tab = (f :> EmptyTable(l + 1)) @@
                                      [@ EXCEPT ![a.f][i] = Table(f)]],
                    f |-> f]
    IN  FoldLeft(step, [T |-> T, f |-> root], [l \in 1 .. (PtLevel - 1) |-> l])

\* Pagemap::assign
Assign(T, root, v, e) ==
    LET w == Ensure(T, root, v)
    IN  [w.T EXCEPT !.tab[w.f][Index(v, PtLevel)] = e]

Leaf(T, root, v) ==
    LET f == FindTable(T, root, v) IN IF f = NoFrame THEN Empty ELSE T.tab[f][Index(v, PtLevel)]

\* findContiguous: the first n empty pages in a row, 0 when there are none.
Contiguous(T, root, p, n, exec) ==
    LET runs == {v \in VStart(p, exec) .. (VEnd(p) - n) :
                    \A i \in Run(v, n) : Leaf(T, root, i).k = "none"}
    IN  IF runs = {} THEN 0 ELSE Min(runs)

-----------------------------------------------------------------------------
PgIdle == [op |-> "none", p |-> 0, n |-> 0, v |-> 0, x |-> FALSE, buff |-> {}]

\* init() and create_first_levels(): every upper entry of the kernel's root
\* has a table.  User page map 1 is a process as elf64executor.cpp leaves
\* it: page 0 is taken by an arbitrary mapping.
PgInit ==
    LET upper == PgUser .. (PgFan[1] - 1)
        piece == Piece(1, PgFrames, {})
        T0 == [piece |-> PieceAlloc(piece, 0, 2),
               tab |-> 0 :> EmptyTable(1) @@ 1 :> EmptyTable(1)]
        level(a, i) ==
            LET f == PieceFind(a.piece, 1)
            IN  [Take(a, 1) EXCEPT !.tab = (f :> EmptyTable(2)) @@
                    [@ EXCEPT ![0][i] = Table(f), ![1][i] = Table(f)]]
        T1 == FoldLeft(level, T0, SetToSeq(upper))
        T2 == Assign(T1, 1, 0, [f |-> NoFrame, k |-> "arb"])
    IN  /\ pgPiece = T2.piece
        /\ pgTab = T2.tab
        /\ pgRoot = (0 :> 0 @@ 1 :> 1)
        /\ pgLock = [p \in 0 .. 2 |-> 0]
        /\ pgPptr = [i \in 1 .. PgPptrs |-> 0]
        /\ \E plan \in PgPlans : pgPlan = plan
        /\ pgPc = [t \in PgThreads |-> "idle"]
        /\ pgLoc = [t \in PgThreads |-> PgIdle]
        /\ pgHas = [t \in PgThreads |-> <<>>]
        /\ pgTlb = [t \in PgThreads |-> {}]
        /\ pgLeak = {}
        /\ pgStop = "no"

PgAt(t, where) == pgPc[t] = where /\ pgStop = "no"
PgGoto(t, where) == pgPc' = [pgPc EXCEPT ![t] = where]

\* How many page pointers an operation takes before it takes the lock, and
\* has by the time it is at its work: fork() builds the child's root, with
\* two more, under the parent's lock.
Pptrs(op) == IF op \in {"fork", "delete"} THEN 4 ELSE 1
PptrsAt(t) == IF pgPc[t] = "fork" THEN 6 ELSE Pptrs(pgLoc[t].op)

\* A call; free() is handed the oldest region of the thread, and a page map
\* is only used while it exists and destroyed when nobody is in it.
PgCall(t) ==
    /\ PgAt(t, "idle")
    /\ pgPlan[t] # <<>>
    /\ LET c == Head(pgPlan[t])
           r == IF c.op = "free" THEN Head(pgHas[t]) ELSE PgIdle
           p == IF c.op = "free" THEN r.p ELSE c.p
       IN  /\ c.op = "free" => pgHas[t] # <<>>
           /\ p \in DOMAIN pgRoot
           /\ c.op = "delete" => \A u \in PgThreads : pgLoc[u].p # p \/ pgPc[u] = "idle"
           /\ c.op = "fork" => 2 \notin DOMAIN pgRoot
           /\ pgLoc' = [pgLoc EXCEPT ![t] =
                  [op |-> c.op, p |-> p, n |-> IF c.op = "free" THEN r.n ELSE c.n,
                   v |-> r.v, x |-> c.x, buff |-> {}]]
           /\ pgHas' = IF c.op = "free" THEN [pgHas EXCEPT ![t] = Tail(@)] ELSE pgHas
    /\ pgPlan' = [pgPlan EXCEPT ![t] = Tail(@)]
    /\ PgGoto(t, "pptr")
    /\ UNCHANGED <<pgPiece, pgTab, pgRoot, pgLock, pgPptr, pgTlb, pgLeak, pgStop>>

Holds(t) == {i \in DOMAIN pgPptr : pgPptr[i] = t}
FreePptrs == {i \in DOMAIN pgPptr : pgPptr[i] = 0}

\* alloc_pptr
AllocPptr(t) ==
    /\ PgAt(t, "pptr") \/ PgAt(t, "fork")
    /\ Cardinality(Holds(t)) < PptrsAt(t)
    /\ FreePptrs # {}
    /\ pgPptr' = [pgPptr EXCEPT ![Min(FreePptrs)] = t]
    /\ UNCHANGED <<pgPiece, pgTab, pgRoot, pgLock, pgPlan, pgPc, pgLoc, pgHas, pgTlb, pgLeak, pgStop>>

\* alloc_pptr, after a thousand looks at a full array.
AllocPptrStuck(t) ==
    /\ PgAt(t, "pptr") \/ PgAt(t, "fork")
    /\ Cardinality(Holds(t)) < PptrsAt(t)
    /\ FreePptrs = {}
    /\ pgStop' = "alloc_pptr is stuck"
    /\ UNCHANGED <<pgPiece, pgTab, pgRoot, pgLock, pgPptr, pgPlan, pgPc, pgLoc, pgHas, pgTlb, pgLeak>>

PgLockIt(t) ==
    /\ PgAt(t, "pptr")
    /\ Cardinality(Holds(t)) = Pptrs(pgLoc[t].op)
    /\ pgLock[pgLoc[t].p] = 0
    /\ pgLock' = [pgLock EXCEPT ![pgLoc[t].p] = t]
    /\ PgGoto(t, pgLoc[t].op)
    /\ UNCHANGED <<pgPiece, pgTab, pgRoot, pgPptr, pgPlan, pgLoc, pgHas, pgTlb, pgLeak, pgStop>>

\* Pages v .. v+n-1 get the entries e(0) .. e(n-1), a frame taken for each
\* "own" page.
AssignRun(T, root, v, n, kind) ==
    FoldLeft(LAMBDA a, i :
                IF kind = "own"
                THEN Assign(Take(a, 1), root, v + i - 1,
                            [f |-> PieceFind(a.piece, 1), k |-> kind])
                ELSE Assign(a, root, v + i - 1, [f |-> NoFrame, k |-> kind]),
             T, [i \in 1 .. n |-> i])

\* allocContinuous takes its frames in one run, before the tables.
AssignFrames(T, root, v, n) ==
    LET at == PieceFind(T.piece, n)
    IN  FoldLeft(LAMBDA a, i : Assign(a, root, v + i - 1, [f |-> at + i - 1, k |-> "own"]),
                 Take(T, n), [i \in 1 .. n |-> i])

\* The frames an operation can need at most; with fewer, alloc() may panic.
Enough(n) == pgPiece.free >= n + 2 * PtLevel

\* What each call enters in the tables: map() of device memory owns no frame.
Entered(op, T, root, v, n) ==
    CASE op = "alloc" -> AssignRun(T, root, v, n, "own")
      [] op = "cont"  -> AssignFrames(T, root, v, n)
      [] op = "map"   -> AssignRun(T, root, v, n, "map")

\* alloc, allocContinuous and map up to recache().
PgMapPages(t, op) ==
    LET l == pgLoc[t]
        root == pgRoot[l.p]
        T0 == Ensure(Tables, root, VStart(l.p, l.x)).T
        v == Contiguous(Tables, root, l.p, l.n, l.x)
        T == Entered(op, T0, root, v, l.n)
    IN  /\ PgAt(t, op) /\ l.n > 0
        /\ Enough(l.n)
        /\ IF op = "alloc" /\ v = 0
           THEN pgStop' = "aa" /\ UNCHANGED <<pgPiece, pgTab, pgHas, pgLoc, pgPc>>
           ELSE /\ pgPiece' = T.piece /\ pgTab' = T.tab
                /\ pgHas' = [pgHas EXCEPT ![t] = Append(@, [p |-> l.p, v |-> v, n |-> l.n])]
                /\ pgLoc' = [pgLoc EXCEPT ![t].v = v]
                /\ PgGoto(t, "recache")
                /\ UNCHANGED pgStop
        /\ UNCHANGED <<pgRoot, pgLock, pgPptr, pgPlan, pgTlb, pgLeak>>

PgAlloc(t) == PgMapPages(t, "alloc")
PgAllocContinuous(t) == PgMapPages(t, "cont")
PgMap(t) == PgMapPages(t, "map")

\* Pagemap::unassign: the frame to give back, none for PAGE_NOPHYS.
Unassign(e) == IF e.k = "own" THEN {e.f} ELSE {}

\* free(): the entries are cleared and their frames gathered.
PgFreeUnassign(t) ==
    LET l == pgLoc[t]
        root == pgRoot[l.p]
        pages == Run(l.v, l.n)
        T == FoldLeft(LAMBDA a, i : Assign(a, root, l.v + i - 1, Empty), Tables,
                      [i \in 1 .. l.n |-> i])
    IN  /\ PgAt(t, "free")
        /\ pgTab' = T.tab /\ pgPiece' = T.piece
        /\ pgLoc' = [pgLoc EXCEPT ![t].buff =
                        UNION {Unassign(Leaf(Tables, root, v)) : v \in pages}]
        /\ PgGoto(t, "frames")
        /\ UNCHANGED <<pgRoot, pgLock, pgPptr, pgPlan, pgHas, pgTlb, pgLeak, pgStop>>

GiveBack(piece, frames) ==
    [piece EXCEPT !.bits = @ \ frames, !.free = @ + Cardinality(frames)]

\* free_phys: the frames go back before recache() runs.
PgFreePhys(t) ==
    /\ PgAt(t, "frames")
    /\ pgPiece' = GiveBack(pgPiece, pgLoc[t].buff)
    /\ pgLoc' = [pgLoc EXCEPT ![t].buff = {}]
    /\ PgGoto(t, "recache")
    /\ UNCHANGED <<pgTab, pgRoot, pgLock, pgPptr, pgPlan, pgHas, pgTlb, pgLeak, pgStop>>

\* Mutant: only the calling CPU drops its translations.
FlushedSelf(t, pages) == [pgTlb EXCEPT ![t] = {e \in @ : e.v \notin pages}]

\* Every CPU drops the pages, whatever page map they were cached for.
Flushed(t, pages) == [u \in PgThreads |-> {e \in pgTlb[u] : e.v \notin pages}]

\* recache: an IPI to every CPU, each of them waited for.
PgRecache(t) ==
    /\ PgAt(t, "recache")
    /\ pgTlb' = Flushed(t, Run(pgLoc[t].v, pgLoc[t].n))
    /\ PgGoto(t, "end")
    /\ UNCHANGED <<pgPiece, pgTab, pgRoot, pgLock, pgPptr, pgPlan, pgLoc, pgHas, pgLeak, pgStop>>

\* The lock is released and the page pointers go back.
PgEnd(t) ==
    /\ PgAt(t, "end")
    /\ pgLock' = [pgLock EXCEPT ![pgLoc[t].p] = 0]
    /\ pgPptr' = [i \in DOMAIN pgPptr |-> IF pgPptr[i] = t THEN 0 ELSE pgPptr[i]]
    /\ pgLoc' = [pgLoc EXCEPT ![t] = PgIdle]
    /\ PgGoto(t, "idle")
    /\ UNCHANGED <<pgPiece, pgTab, pgRoot, pgPlan, pgHas, pgTlb, pgLeak, pgStop>>

\* What fork() puts in the child for an entry, f being a frame it can take.
ForkEntry(e, f) == IF e.k = "own" THEN [e EXCEPT !.f = f] ELSE e

(* fork(): a root with the kernel's upper half, then, table by table over  *)
(* the user half, a page of its own for every page that owns a frame.      *)
PgFork(t) ==
    LET l == pgLoc[t]
        src == pgRoot[l.p]
        root == PieceFind(pgPiece, 1)
        T0 == [Take(Tables, 1) EXCEPT
                  !.tab = (root :> [i \in 0 .. (PgFan[1] - 1) |->
                                       IF i < PgUser THEN Empty ELSE pgTab[pgRoot[0]][i]]) @@ @]
        page(a, v) ==
            LET e == Leaf(a, src, v)
                b == [a EXCEPT !.tab = Ensure(a, root, v).T.tab,
                               !.piece = Ensure(a, root, v).T.piece]
                c == IF e.k = "own" THEN Take(b, 1) ELSE b
            IN  IF FindTable(a, src, v) = NoFrame THEN a
                ELSE Assign(c, root, v, ForkEntry(e, PieceFind(b.piece, 1)))
        T == FoldLeft(page, T0, [v \in 1 .. VEnd(l.p) |-> v - 1])
    IN  /\ PgAt(t, "fork") /\ Cardinality(Holds(t)) = PptrsAt(t)
        /\ Enough(PgFrames \div 3)
        /\ pgPiece' = T.piece /\ pgTab' = T.tab
        /\ pgRoot' = (2 :> root) @@ pgRoot
        /\ PgGoto(t, "end")
        /\ UNCHANGED <<pgLock, pgPptr, pgPlan, pgLoc, pgHas, pgTlb, pgLeak, pgStop>>

\* The table frames and owned frames below a table.
Below(T, f0, l0) ==
    LET down[l \in l0 .. PtLevel] ==
          IF l = l0 THEN {f0}
          ELSE {T.tab[f][i].f : f \in down[l - 1], i \in 0 .. (PgFan[l - 1] - 1)} \ {NoFrame}
        pts == down[PtLevel]
    IN  [tables |-> UNION {down[l] : l \in l0 .. PtLevel},
         pages |-> {T.tab[f][i].f : f \in pts, i \in 0 .. (PgFan[PtLevel] - 1)} \ {NoFrame}]

\* Root entries a page map frees: ~Pagemap divides the bounds by 2^48, not
\* by what a root entry spans, so its loop visits the first entry only.
Visited == {0}

(* ~Pagemap: everything below the visited entries is freed, then the root. *)
(* The last reference to the page map is gone (Process::~Process).         *)
PgDelete(t) ==
    LET l == pgLoc[t]
        root == pgRoot[l.p]
        sub(i) == IF pgTab[root][i].k = "none" THEN [tables |-> {}, pages |-> {}]
                  ELSE Below(Tables, pgTab[root][i].f, 2)
        all(is) == UNION {sub(i).tables \cup sub(i).pages : i \in is}
        freed == {root} \cup all(Visited)
        left == all(0 .. (PgUser - 1)) \ freed
    IN  /\ PgAt(t, "delete")
        /\ pgPiece' = GiveBack(pgPiece, freed)
        /\ pgTab' = [f \in DOMAIN pgTab \ (freed \cup left) |-> pgTab[f]]
        /\ pgLeak' = pgLeak \cup left
        /\ pgRoot' = [p \in DOMAIN pgRoot \ {l.p} |-> pgRoot[p]]
        /\ pgTlb' = [u \in PgThreads |-> {}]
        /\ PgGoto(t, "end")
        /\ UNCHANGED <<pgLock, pgPptr, pgPlan, pgLoc, pgHas, pgStop>>

\* A CPU uses an address of page map p: the walk is cached.  (hardware)
Touch(t, p, v) ==
    LET e == Leaf(Tables, pgRoot[p], v)
    IN  /\ PgAt(t, "idle")
        /\ e.k \in {"own", "map"}
        /\ \A c \in pgTlb[t] : c.v # v
        /\ pgTlb' = [pgTlb EXCEPT ![t] = @ \cup {[p |-> p, v |-> v, f |-> e.f]}]
        /\ UNCHANGED <<pgPiece, pgTab, pgRoot, pgLock, pgPptr, pgPlan, pgPc, pgLoc, pgHas,
                       pgLeak, pgStop>>

PgStep(t) ==
    \/ PgCall(t) \/ AllocPptr(t) \/ AllocPptrStuck(t) \/ PgLockIt(t)
    \/ PgAlloc(t) \/ PgAllocContinuous(t) \/ PgMap(t)
    \/ PgFreeUnassign(t) \/ PgFreePhys(t)
    \/ PgRecache(t) \/ PgEnd(t) \/ PgFork(t) \/ PgDelete(t)
    \/ \E u \in PgThreads : \E r \in {pgHas[u][i] : i \in DOMAIN pgHas[u]} :
           r.p \in DOMAIN pgRoot /\ Touch(t, r.p, r.v)

PgNext == \E t \in PgThreads : PgStep(t)

-----------------------------------------------------------------------------
UsedBy(p) ==
    LET root == pgRoot[p]
        is == IF p = 0 THEN PgUser .. (PgFan[1] - 1) ELSE 0 .. (PgUser - 1)
        subs == {Below(Tables, pgTab[root][i].f, 2) : i \in {j \in is : pgTab[root][j].k # "none"}}
    IN  {root} \cup UNION {s.tables \cup s.pages : s \in subs}

(* Every taken frame has one owner: it is the root, a table or an owned    *)
(* page of one page map, or waits in a free() to be given back, or was     *)
(* left behind by ~Pagemap; and every owned frame is marked taken.  So no  *)
(* two page maps share an owned page, fork() included, and none is freed   *)
(* while mapped (paging.cpp:245, 352, 435, 533).                           *)
FramesOwnedOnce ==
    LET maps == DOMAIN pgRoot
        used == [p \in maps |-> UsedBy(p)]
        waiting == UNION {pgLoc[t].buff : t \in PgThreads}
    IN  /\ pgPiece.bits = UNION {used[p] : p \in maps} \cup waiting \cup pgLeak
        /\ \A p, q \in maps : p # q => used[p] \cap used[q] = {}
        /\ waiting \cap UNION {used[p] : p \in maps} = {}
        /\ pgPiece.free = PgFrames - Cardinality(pgPiece.bits)

(* What a CPU has cached is what the tables say, unless an operation on    *)
(* that page map is still on its way to recache(): once free() returns no  *)
(* CPU reaches the frame any more (paging.cpp:357, 546).                   *)
TlbCoherent ==
    \A t \in PgThreads : \A c \in pgTlb[t] :
        c.p \in DOMAIN pgRoot =>
            \/ pgLock[c.p] # 0
            \/ LET e == Leaf(Tables, pgRoot[c.p], c.v)
               IN  e.k \in {"own", "map"} /\ e.f = c.f

(* The regions handed out in a page map are disjoint and stay mapped until *)
(* they are freed, however the calls of two threads and fork() interleave  *)
(* (paging.cpp:590).                                                       *)
RegionsStayMapped ==
    \A t \in PgThreads : \A i \in DOMAIN pgHas[t] :
        LET r == pgHas[t][i]
        IN  r.p \in DOMAIN pgRoot =>
              /\ \A v \in Run(r.v, r.n) : Leaf(Tables, pgRoot[r.p], v).k \in {"own", "map"}
              /\ \A u \in PgThreads : \A j \in DOMAIN pgHas[u] :
                   LET s == pgHas[u][j]
                   IN  (r.p = s.p /\ <<t, i>> # <<u, j>>) => Run(r.v, r.n) \cap Run(s.v, s.n) = {}

\* What a page map hands out stays mapped, to frames that are its own, and
\* no CPU reaches any other through it.
MappingsOwn == FramesOwnedOnce /\ TlbCoherent /\ RegionsStayMapped
=============================================================================
