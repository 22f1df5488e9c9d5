-------------------------------- MODULE Phys --------------------------------
(***************************************************************************)
(* The physical frame allocator (mem/phys.cpp, mem/frame_piece.hpp): one   *)
(* bitmap per "piece" of memory, the pieces in a list that init() builds   *)
(* from the multiboot memory map.  Addresses are counted in frames.        *)
(*                                                                         *)
(* alloc() and free() run under one spinlock from their first access to    *)
(* the pieces to the last, so each is one step.  A bit outside a piece's   *)
(* bitmap is whatever memory lies there: touching one ends the model in    *)
(* the state "wild".                                                       *)
(***************************************************************************)
EXTENDS Integers, Sequences, FiniteSets, FiniteSetsExt

CONSTANTS
    PhysMaps,       \* memory maps tried: sequences of [start, len] records
    PhysRoot,       \* frames the root piece's static bitmap can hold
    PhysKernel,     \* frames_taken_by_kernel
    PhysSmall,      \* regions shorter than this are skipped (8)
    PhysByte,       \* bits memset() clears at a time (8)
    PhysRequests,   \* sizes asked for, in frames
    PhysMaxHeld     \* bound: allocations outstanding at once

VARIABLES
    phys,           \* [pieces, avail]: the list and frames_available
    pheld,          \* allocations not freed yet: [a, n, for]
    pboot,          \* regions init() has still to look at
    pstate          \* "ok", or how the kernel stopped

physVars == <<phys, pheld, pboot, pstate>>

NoFrame == -1

\* frame_piece::init: the bits of the last, incomplete byte are not cleared.
Piece(start, size, stale) ==
    [start |-> start, size |-> size, free |-> size, bits |-> stale]

StaleBits(size) == ((size \div PhysByte) * PhysByte) .. (size - 1)

Run(i, n) == i .. (i + n - 1)

\* frame_piece::alloc, for bits the caller has found clear.
PieceAlloc(p, i, n) ==
    [p EXCEPT !.bits = @ \cup Run(i, n), !.free = @ - n]

\* frame_piece::free, for bits that are set.
PieceFree(p, i, n) ==
    [p EXCEPT !.bits = @ \ Run(i, n), !.free = @ + n]

\* Mutant: the count survives a taken frame.
PieceFindGaps(p, n) ==
    LET clear == (0 .. (p.size - 1)) \ p.bits
    IN  IF n = 0 \/ n > p.free \/ Cardinality(clear) < n THEN NoFrame ELSE Min(clear)

\* frame_piece::find: the first n clear bits in a row.
PieceFind(p, n) ==
    LET fits == {i \in 0 .. (p.size - n) : Run(i, n) \cap p.bits = {}}
    IN  IF n = 0 \/ n > p.free \/ fits = {} THEN NoFrame ELSE Min(fits)

\* The pieces alloc() can serve n frames from; it takes the first.
Serving(P, n) ==
    {k \in DOMAIN P.pieces : P.pieces[k].free >= n /\ PieceFind(P.pieces[k], n) # NoFrame}

PhysAlloc(P, n) ==
    LET k == Min(Serving(P, n))
        i == PieceFind(P.pieces[k], n)
    IN  [P    |-> [P EXCEPT !.pieces[k] = PieceAlloc(@, i, n), !.avail = @ - n],
         addr |-> P.pieces[k].start + i]

\* free() walks the list to the first piece that starts at or below addr.
FreePiece(P, a) == Min({k \in DOMAIN P.pieces : P.pieces[k].start <= a})

PhysFree(P, a, n) ==
    LET k == FreePiece(P, a) IN
    [P EXCEPT !.pieces[k] = PieceFree(@, a - @.start, n), !.avail = @ + n]

-----------------------------------------------------------------------------
PhysInit ==
    /\ \E map \in PhysMaps : pboot = map
    /\ phys = [pieces |-> <<>>, avail |-> 0]
    /\ pheld = {}
    /\ pstate = "boot"

(* One turn of init()'s loop, with _createPieces.  While the list has one  *)
(* piece only, current_piece is still first_piece, and the next region     *)
(* initialises the root piece again.                                       *)
BootRegion ==
    /\ pstate = "boot"
    /\ pboot # <<>>
    /\ pboot' = Tail(pboot)
    /\ LET r     == Head(pboot)
           root  == Len(phys.pieces) <= 1
           here  == IF root THEN Min({PhysRoot, r.len}) ELSE 0
           first == PieceAlloc(Piece(r.start, here, {}), 0, PhysKernel)
           P     == [pieces |-> IF root THEN <<first>> ELSE phys.pieces,
                     avail  |-> phys.avail + r.len]
           rest  == r.len - here
           kern  == [a |-> r.start, n |-> PhysKernel, for |-> "image"]
       IN  IF r.len < PhysSmall THEN UNCHANGED <<phys, pheld, pstate>>
           ELSE IF rest = 0 THEN
                /\ phys' = P
                /\ pheld' = pheld \cup {kern}
                /\ UNCHANGED pstate
           ELSE IF Serving(P, 1) = {} THEN pstate' = "full" /\ UNCHANGED <<phys, pheld>>
           ELSE \E stale \in SUBSET StaleBits(rest) :
                LET got == PhysAlloc(P, 1)
                    at  == r.start + here
                    new == Piece(at, rest, stale)
                IN  /\ phys' = [got.P EXCEPT !.pieces = Append(@, new)]
                    /\ pheld' = pheld \cup (IF root THEN {kern} ELSE {})
                                \cup {[a |-> got.addr, n |-> 1, for |-> "bitmap"]}
                    /\ UNCHANGED pstate

BootDone ==
    /\ pstate = "boot" /\ pboot = <<>>
    /\ phys.pieces # <<>>
    /\ pstate' = "ok"
    /\ UNCHANGED <<phys, pheld, pboot>>

\* Phys::alloc for a caller that will hold the frames.
Alloc(n) ==
    /\ pstate = "ok"
    /\ Cardinality(pheld) < PhysMaxHeld
    /\ UNCHANGED pboot
    /\ IF Serving(phys, n) = {}
       THEN pstate' = "full" /\ UNCHANGED <<phys, pheld>>
       ELSE LET got == PhysAlloc(phys, n)
            IN  /\ phys' = got.P
                /\ pheld' = pheld \cup {[a |-> got.addr, n |-> n, for |-> "caller"]}
                /\ UNCHANGED pstate

\* Phys::free of frames that alloc() returned.
Free(h) ==
    /\ pstate = "ok"
    /\ h.for = "caller"
    /\ pheld' = pheld \ {h}
    /\ UNCHANGED pboot
    /\ LET p    == phys.pieces[FreePiece(phys, h.a)]
           bits == Run(h.a - p.start, h.n)
       IN  IF ~ (bits \subseteq 0 .. (p.size - 1))
           THEN pstate' = "wild" /\ UNCHANGED phys
           ELSE IF ~ (bits \subseteq p.bits)
           THEN pstate' = "assert" /\ UNCHANGED phys
           ELSE phys' = PhysFree(phys, h.a, h.n) /\ UNCHANGED pstate

PhysNext ==
    \/ BootRegion
    \/ BootDone
    \/ \E n \in PhysRequests : Alloc(n)
    \/ \E h \in pheld : Free(h)

-----------------------------------------------------------------------------
Frames(h) == Run(h.a, h.n)

(* No frame is handed out twice: what callers hold, the kernel image and   *)
(* the bitmaps of the later pieces never overlap, whatever the map looked  *)
(* like and however the frames were freed and taken again (phys.cpp:106).  *)
LiveFramesDisjoint ==
    \A g, h \in pheld : g # h => Frames(g) \cap Frames(h) = {}

(* Until a free() goes astray every piece's frames_free, which alloc()     *)
(* trusts before it scans, is its size less the frames held from it, so a  *)
(* frame once freed can be found again (frame_piece.hpp:53, 75).           *)
FreeCountExact ==
    pstate \in {"ok", "full"} =>
        \A k \in DOMAIN phys.pieces :
            LET p == phys.pieces[k]
                mine == {h \in pheld : h.a \in p.start .. (p.start + p.size - 1)}
            IN  p.free = p.size - Cardinality(UNION {Frames(h) : h \in mine})

\* A frame is given to one owner at a time and can be given again once it is
\* freed.
FramesAccounted == LiveFramesDisjoint /\ FreeCountExact
=============================================================================
