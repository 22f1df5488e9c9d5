----------------------------- MODULE HeapProofs -----------------------------
(* Proofs of the properties of Heap, for any number of threads, slabs and  *)
(* pieces.                                                                 *)
EXTENDS Heap, FiniteSetTheorems, WellFoundedInduction, TLAPS

(* A set of naturals that is not empty has a least element.               *)
LEMMA LeastNat ==
  ASSUME NEW S \in SUBSET Nat, S # {}
  PROVE  \E m \in S : \A k \in S : m <= k
<1> DEFINE R == OpToRel(<, Nat)
<1>1. IsWellFoundedOn(R, Nat)
  BY NatLessThanWellFounded, Zenon
<1>2. PICK m \in S : \A k \in S : ~(<<k, m>> \in R)
  <2> HIDE DEF R
  <2> QED BY <1>1, WFMin, Zenon
<1>3. \A k \in S : ~(k < m)
  BY <1>2, Zenon DEF OpToRel
<1> QED BY <1>3

HeapPcs == {"idle", "alloc", "marked", "header", "next", "lock", "extend", "free", "unmarked"}
HeapBlocks == [s : Nat, i : Nat, n : Nat, by : Nat]

HeapType ==
    /\ hbits \in [1 .. HeapSlabs -> SUBSET HeapPiece]
    /\ hmem \in [1 .. HeapSlabs -> [HeapPiece -> Int]]
    /\ hlock \in Seq(Nat)
    /\ Len(hlock) >= 1 /\ Len(hlock) <= HeapSlabs
    /\ heapFree \in Int
    /\ hheld \in SUBSET HeapBlocks
    /\ hpc \in [HeapThreads -> HeapPcs]
    /\ hloc \in [HeapThreads -> [s : Nat, n : Nat, i : Nat, word : Int, old : HeapBlocks]]

(* The block a thread is allocating or freeing.                            *)
BlockOf(t) == Block(hloc[t].i, hloc[t].n)
Allocating(t) == hpc[t] \in {"marked", "header"}

(* What is known of a thread from where it is.                             *)
ThreadOK(t) ==
    /\ hpc[t] \notin {"idle", "free"} => hloc[t].s \in DOMAIN hlock /\ hloc[t].n # 0
    /\ hpc[t] \in {"marked", "unmarked"} => hlock[hloc[t].s] = t
    /\ Allocating(t) => BlockOf(t) \subseteq hbits[hloc[t].s]
    /\ hpc[t] = "unmarked" => BlockOf(t) \cap hbits[hloc[t].s] = {}
    /\ hpc[t] \notin {"idle", "unmarked", "free"} =>
         hloc[t].old = NoBlock \/ (hloc[t].old \in hheld /\ hloc[t].old.by = t)
    /\ hpc[t] = "free" => hloc[t].old \in hheld /\ hloc[t].old.by = t

HeldOK ==
    \A b \in hheld :
        /\ b.s \in DOMAIN hlock /\ b.n # 0 /\ b.by \in HeapThreads
        /\ Block(b.i, b.n) \subseteq hbits[b.s]

(* No piece belongs to two blocks.                                         *)
Disjoint ==
    /\ \A b, c \in hheld : b # c /\ b.s = c.s => Block(b.i, b.n) \cap Block(c.i, c.n) = {}
    /\ \A b \in hheld, t \in HeapThreads : Allocating(t) /\ b.s = hloc[t].s =>
         Block(b.i, b.n) \cap BlockOf(t) = {}
    /\ \A t, u \in HeapThreads :
         t # u /\ Allocating(t) /\ Allocating(u) /\ hloc[t].s = hloc[u].s =>
           BlockOf(t) \cap BlockOf(u) = {}

FreshSlabs == \A s \in 1 .. HeapSlabs : s \notin DOMAIN hlock => hbits[s] = {}

(* The pieces heap_free counts: the clear ones and those of the blocks     *)
(* that are marked and not yet subtracted.                                 *)
Counted ==
    {c \in Slabs \X HeapPiece :
        \/ c[2] \notin hbits[c[1]]
        \/ \E t \in HeapThreads : Allocating(t) /\ hloc[t].s = c[1] /\ c[2] \in BlockOf(t)}

HeapInv ==
    /\ \A t \in HeapThreads : ThreadOK(t)
    /\ HeldOK /\ Disjoint /\ FreshSlabs /\ BlocksKept
    /\ heapFree = Cardinality(Counted)

-----------------------------------------------------------------------------
(* A block of n pieces has n.                                             *)
LEMMA BlockFacts ==
  ASSUME NEW i \in Nat, NEW n \in Nat, n # 0, NEW s
  PROVE  /\ i \in Block(i, n)
         /\ IsFiniteSet({s} \X Block(i, n))
         /\ Cardinality({s} \X Block(i, n)) = n
<1>1. i \in Block(i, n)
  BY DEF Block
<1>2. IsFiniteSet(Block(i, n)) /\ Cardinality(Block(i, n)) = n
  <2>1. i + n - 1 \in Int /\ i \in Int /\ ~(i > i + n - 1) /\ (i + n - 1) - i + 1 = n
    OBVIOUS
  <2> QED BY <2>1, FS_Interval DEF Block
<1>3. IsFiniteSet({s}) /\ Cardinality({s}) = 1
  BY FS_Singleton
<1>4. /\ IsFiniteSet({s} \X Block(i, n))
      /\ Cardinality({s} \X Block(i, n)) = Cardinality({s}) * Cardinality(Block(i, n))
  BY <1>2, <1>3, FS_Product
<1> QED BY <1>1, <1>2, <1>3, <1>4

(* What findFree() returns is a run of clear bits inside the slab.        *)
LEMMA FindFreeFits ==
  ASSUME NEW bits, NEW n \in Nat, FitsAt(bits, n) # {}
  PROVE  /\ FindFree(bits, n) \in HeapPiece
         /\ Block(FindFree(bits, n), n) \subseteq HeapPiece
         /\ Block(FindFree(bits, n), n) \cap bits = {}
<1> DEFINE F == FitsAt(bits, n)
<1>1. F \in SUBSET Nat /\ F # {}
  BY DEF FitsAt, HeapPiece
<1>2. \E k \in F : \A j \in F : k <= j
  <2> HIDE DEF F
  <2> QED BY <1>1, LeastNat
<1>3. FindFree(bits, n) \in F
  BY <1>2 DEF FindFree
<1>4. \A k \in F : Block(k, n) \subseteq HeapPiece
  BY HeapAssumption DEF FitsAt, Block, HeapPiece
<1> QED BY <1>3, <1>4 DEF FitsAt

(* Sets apart are counted one by one.                                     *)
LEMMA CardinalityAdd ==
  ASSUME NEW S, NEW T, IsFiniteSet(S), IsFiniteSet(T), S \cap T = {}
  PROVE  /\ Cardinality(S \union T) = Cardinality(S) + Cardinality(T)
         /\ Cardinality(S) \in Nat /\ Cardinality(T) \in Nat
<1>1. Cardinality(S \union T) = Cardinality(S) + Cardinality(T) - Cardinality(S \cap T)
  BY FS_Union
<1>2. Cardinality(S \cap T) = 0
  BY FS_EmptySet
<1>3. Cardinality(S) \in Nat /\ Cardinality(T) \in Nat
  BY FS_CardinalityType
<1> QED BY <1>1, <1>2, <1>3

(* The slabs are the ones that were made.                                 *)
LEMMA SlabRange ==
  ASSUME HeapType
  PROVE  DOMAIN hlock \subseteq 1 .. HeapSlabs
<1>1. DOMAIN hlock = 1 .. Len(hlock) /\ Len(hlock) \in Nat /\ Len(hlock) <= HeapSlabs
  BY DEF HeapType
<1>2. HeapSlabs \in Nat
  BY HeapAssumption
<1> QED BY <1>1, <1>2

(* The pieces in use are finitely many.                                   *)
LEMMA CountedFinite ==
  ASSUME HeapType
  PROVE  IsFiniteSet(Counted)
<1>1. DOMAIN hlock = 1 .. Len(hlock) /\ Len(hlock) \in Nat
  BY DEF HeapType
<1>2. IsFiniteSet(1 .. Len(hlock)) /\ IsFiniteSet(HeapPiece)
  BY <1>1, FS_Interval, HeapAssumption DEF HeapPiece
<1>3. IsFiniteSet(Slabs \X HeapPiece)
  BY <1>1, <1>2, FS_Product DEF Slabs
<1>4. Counted \in SUBSET (Slabs \X HeapPiece)
  BY DEF Counted
<1> QED BY <1>3, <1>4, FS_Subset

(* A step in which only a thread that has no block in hand moves.          *)
LEMMA QuietStep ==
  ASSUME HeapType, HeapInv, HeapType', NEW t \in HeapThreads,
         UNCHANGED <<hbits, hmem, hlock, heapFree, hheld>>,
         \A u \in HeapThreads : u # t => hpc'[u] = hpc[u] /\ hloc'[u] = hloc[u],
         hpc[t] \notin {"marked", "header", "unmarked"},
         hpc'[t] \notin {"marked", "header", "unmarked"},
         ThreadOK(t)'
  PROVE  HeapInv'
<1>1. \A u \in HeapThreads : u # t => (Allocating(u)' <=> Allocating(u)) /\ BlockOf(u)' = BlockOf(u)
  BY DEF Allocating, BlockOf
<1>2. ~Allocating(t) /\ ~Allocating(t)'
  BY DEF Allocating
<1>3. ASSUME NEW u \in HeapThreads
      PROVE  ThreadOK(u)'
  BY <1>1 DEF HeapInv, ThreadOK
<1>4. HeldOK' /\ FreshSlabs' /\ BlocksKept'
  BY DEF HeapInv, HeldOK, FreshSlabs, BlocksKept
<1>5. Disjoint'
  BY <1>1, <1>2 DEF HeapInv, Disjoint
<1>6. Counted' = Counted
  BY <1>1, <1>2 DEF Counted, Slabs
<1> QED BY <1>3, <1>4, <1>5, <1>6 DEF HeapInv

(* The steps of malloc() and free() that have no block in hand.            *)
LEMMA CallStep ==
  ASSUME HeapType, HeapInv, NEW t \in HeapThreads,
         \/ \E size \in HeapSizes : CallMalloc(t, size, NoBlock)
         \/ \E b \in hheld : b.by = t /\ CallFree(t, b)
         \/ \E b \in hheld, size \in HeapSizes : b.by = t /\ CallMalloc(t, size, b)
  PROVE  HeapType' /\ HeapInv'
<1>0. DOMAIN hlock = 1 .. Len(hlock) /\ 1 \in DOMAIN hlock /\ NoBlock \in HeapBlocks
  BY DEF HeapType, NoBlock, HeapBlocks
<1>1. ASSUME NEW old, old = NoBlock \/ (old \in hheld /\ old.by = t),
             NEW size \in HeapSizes, CallMalloc(t, size, old)
      PROVE  HeapType' /\ HeapInv'
  <2>0. size + 1 \in Nat /\ size + 1 # 0 /\ old \in HeapBlocks
    BY <1>0, <1>1, HeapAssumption DEF HeapType
  <2>1. /\ hloc' = [hloc EXCEPT ![t] = [s |-> 1, n |-> size + 1, i |-> 0, word |-> 0, old |-> old]]
        /\ hpc[t] = "idle" /\ hpc' = [hpc EXCEPT ![t] = "alloc"]
        /\ UNCHANGED <<hbits, hmem, hlock, heapFree, hheld>>
    BY <1>1 DEF CallMalloc, At, Goto, WithHeader, Locals
  <2>2. HeapType'
    BY <2>0, <2>1 DEF HeapType, HeapPcs
  <2>3. hpc'[t] = "alloc" /\ hloc'[t].s = 1 /\ hloc'[t].n = size + 1 /\ hloc'[t].old = old
    BY <2>1 DEF HeapType
  <2>4. ThreadOK(t)'
    BY <1>0, <1>1, <2>0, <2>1, <2>3 DEF ThreadOK, Allocating
  <2>5. \A u \in HeapThreads : u # t => hpc'[u] = hpc[u] /\ hloc'[u] = hloc[u]
    BY <2>1 DEF HeapType
  <2> QED BY <2>1, <2>2, <2>3, <2>4, <2>5, QuietStep
<1>2. ASSUME NEW b \in hheld, b.by = t, CallFree(t, b)
      PROVE  HeapType' /\ HeapInv'
  <2>0. b \in HeapBlocks
    BY <1>2 DEF HeapType
  <2>1. /\ hloc' = [hloc EXCEPT ![t] = [s |-> 0, n |-> 0, i |-> 0, word |-> 0, old |-> b]]
        /\ hpc[t] = "idle" /\ hpc' = [hpc EXCEPT ![t] = "free"]
        /\ UNCHANGED <<hbits, hmem, hlock, heapFree, hheld>>
    BY <1>2 DEF CallFree, At, Goto, Locals
  <2>2. HeapType'
    BY <2>0, <2>1 DEF HeapType, HeapPcs
  <2>3. hpc'[t] = "free" /\ hloc'[t].old = b
    BY <2>1 DEF HeapType
  <2>4. ThreadOK(t)'
    BY <1>2, <2>1, <2>3 DEF ThreadOK, Allocating
  <2>5. \A u \in HeapThreads : u # t => hpc'[u] = hpc[u] /\ hloc'[u] = hloc[u]
    BY <2>1 DEF HeapType
  <2> QED BY <2>1, <2>2, <2>3, <2>4, <2>5, QuietStep
<1> QED BY <1>1, <1>2

(* The steps of the search for a slab have no block in hand.              *)
LEMMA SearchStep ==
  ASSUME HeapType, HeapInv, NEW t \in HeapThreads,
         \/ AllocFails(t) \/ NextSlab(t) \/ NextMissing(t) \/ NextLock(t) \/ ExtendSeen(t)
         \/ FreePanics(t)
  PROVE  HeapType' /\ HeapInv'
<1> DEFINE quiet == {"alloc", "next", "lock", "extend", "free"}
<1>0. ThreadOK(t) /\ DOMAIN hlock = 1 .. Len(hlock) /\ Len(hlock) \in Nat
  BY DEF HeapInv, HeapType
<1>1. CASE NextSlab(t)
  <2>1. /\ hloc' = [hloc EXCEPT ![t].s = @ + 1] /\ hloc[t].s < Len(hlock)
        /\ hpc[t] = "next" /\ hpc' = [hpc EXCEPT ![t] = "alloc"]
        /\ UNCHANGED <<hbits, hmem, hlock, heapFree, hheld>>
    BY <1>1 DEF NextSlab, At, Goto
  <2>4. hloc[t].s \in Nat /\ hloc[t].s + 1 \in Nat
    BY DEF HeapType
  <2>2. HeapType'
    <3>0. hloc' = [hloc EXCEPT ![t].s = hloc[t].s + 1]
      BY <2>1 DEF HeapType
    <3>1. hloc' \in [HeapThreads -> [s : Nat, n : Nat, i : Nat, word : Int, old : HeapBlocks]]
      BY <2>4, <3>0, Zenon DEF HeapType
    <3> QED BY <2>1, <3>1, SMTT(30) DEF HeapType, HeapPcs
  <2>3. /\ hpc'[t] = "alloc" /\ hloc'[t].s = hloc[t].s + 1 /\ hloc'[t].n = hloc[t].n
        /\ hloc'[t].old = hloc[t].old
    BY <2>1 DEF HeapType
  <2>5. hloc'[t].s \in DOMAIN hlock
    BY <1>0, <2>1, <2>3, <2>4
  <2>6. ThreadOK(t)'
    BY <1>0, <2>1, <2>3, <2>5 DEF ThreadOK, Allocating
  <2>7. \A u \in HeapThreads : u # t => hpc'[u] = hpc[u] /\ hloc'[u] = hloc[u]
    BY <2>1 DEF HeapType
  <2> QED BY <2>1, <2>2, <2>3, <2>6, <2>7, QuietStep
<1>2. CASE ~NextSlab(t)
  <2>1. UNCHANGED <<hbits, hmem, hlock, heapFree, hheld, hloc>>
    BY <1>2 DEF AllocFails, NextMissing, NextLock, ExtendSeen, FreePanics
  <2>2. /\ hpc[t] \in quiet
        /\ \/ hpc' = hpc
           \/ hpc[t] # "free" /\ \E to \in {"alloc", "next", "lock", "extend"} :
                                    hpc' = [hpc EXCEPT ![t] = to]
    BY <1>2 DEF AllocFails, NextMissing, NextLock, ExtendSeen, FreePanics, At, Goto
  <2>3. HeapType'
    BY <2>1, <2>2, Zenon DEF HeapType, HeapPcs
  <2>4. /\ hpc'[t] \in quiet /\ (hpc'[t] = "free" <=> hpc[t] = "free")
        /\ \A u \in HeapThreads : u # t => hpc'[u] = hpc[u] /\ hloc'[u] = hloc[u]
    BY <2>1, <2>2 DEF HeapType
  <2>5. ThreadOK(t)'
    BY <1>0, <2>1, <2>2, <2>4 DEF ThreadOK, Allocating
  <2> QED BY <2>1, <2>2, <2>3, <2>4, <2>5, QuietStep
<1> QED BY <1>1, <1>2

(* A new slab has only clear bits, and they are counted.                   *)
LEMMA ExtendStep ==
  ASSUME HeapType, HeapInv, NEW t \in HeapThreads, Extend(t)
  PROVE  HeapType' /\ HeapInv'
<1> DEFINE N == Len(hlock)
<1>0. ThreadOK(t) /\ DOMAIN hlock = 1 .. N /\ N \in Nat /\ HeapPieces \in Nat /\ 0 \in Nat
      /\ HeapSlabs \in Nat
  BY HeapAssumption DEF HeapInv, HeapType
<1>1. /\ hpc[t] = "extend" /\ hloc[t].s = N /\ N < HeapSlabs
      /\ hlock' = Append(hlock, 0) /\ heapFree' = heapFree + HeapPieces
      /\ hloc' = [hloc EXCEPT ![t].s = hloc[t].s + 1] /\ hpc' = [hpc EXCEPT ![t] = "alloc"]
      /\ UNCHANGED <<hbits, hmem, hheld>>
  BY DEF Extend, ExtendBy, At, Goto, HeapNil, HeapType
<1>2. /\ hlock' \in Seq(Nat) /\ Len(hlock') = N + 1 /\ DOMAIN hlock' = 1 .. N + 1
      /\ \A s \in 1 .. N : hlock'[s] = hlock[s]
  BY <1>0, <1>1 DEF HeapType
<1>3. /\ hpc'[t] = "alloc" /\ hloc'[t].s = N + 1 /\ hloc'[t].n = hloc[t].n
      /\ hloc'[t].old = hloc[t].old
      /\ \A u \in HeapThreads : u # t => hpc'[u] = hpc[u] /\ hloc'[u] = hloc[u]
  BY <1>0, <1>1 DEF HeapType
<1>4. HeapType'
  <2>1. hloc[t].s + 1 \in Nat
    BY DEF HeapType
  <2>2. hloc' \in [HeapThreads -> [s : Nat, n : Nat, i : Nat, word : Int, old : HeapBlocks]]
    BY <2>1, <1>1, Zenon DEF HeapType
  <2>3. Len(hlock') >= 1 /\ Len(hlock') <= HeapSlabs /\ heapFree' \in Int
    BY <1>0, <1>1, <1>2 DEF HeapType
  <2> QED BY <2>2, <2>3, <1>1, <1>2, Zenon DEF HeapType, HeapPcs
<1> HIDE DEF N
<1>5. \A u \in HeapThreads : (Allocating(u)' <=> Allocating(u)) /\ (u # t => BlockOf(u)' = BlockOf(u))
  BY <1>1, <1>3 DEF Allocating, BlockOf
<1>6. ~Allocating(t) /\ \A s \in DOMAIN hlock : s \in DOMAIN hlock' /\ hlock'[s] = hlock[s]
  BY <1>0, <1>1, <1>2 DEF Allocating
<1>7. ASSUME NEW u \in HeapThreads
      PROVE  ThreadOK(u)'
  <2>1. CASE u = t
    <3>1. N + 1 \in DOMAIN hlock'
      BY <1>0, <1>2
    <3> QED BY <2>1, <3>1, <1>0, <1>1, <1>3, <1>5, <1>6 DEF ThreadOK
  <2>2. CASE u # t
    <3>1. ThreadOK(u)
      BY DEF HeapInv
    <3> QED BY <2>2, <3>1, <1>1, <1>3, <1>5, <1>6 DEF ThreadOK
  <2> QED BY <2>1, <2>2
<1>8. HeldOK' /\ FreshSlabs' /\ BlocksKept'
  BY <1>1, <1>6, Zenon DEF HeapInv, HeldOK, FreshSlabs, BlocksKept
<1>9. Disjoint'
  <2>1. \A u \in HeapThreads : Allocating(u)' =>
           Allocating(u) /\ hloc'[u] = hloc[u] /\ BlockOf(u)' = BlockOf(u)
    BY <1>3, <1>5, <1>6
  <2> QED BY <1>1, <2>1, ZenonT(60) DEF HeapInv, Disjoint
<1>10. heapFree' = Cardinality(Counted')
  <2> DEFINE new == {N + 1} \X HeapPiece
  <2>1. N + 1 \in 1 .. HeapSlabs /\ N + 1 \notin DOMAIN hlock
    BY <1>0, <1>1
  <2>2. hbits[N + 1] = {}
    BY <2>1 DEF HeapInv, FreshSlabs
  <2>3. DOMAIN hlock' = DOMAIN hlock \union {N + 1}
    BY <1>0, <1>2
  <2>4. \A u \in HeapThreads : Allocating(u) => u # t /\ hloc'[u] = hloc[u]
    BY <1>3, <1>6
  <2>5. \A c \in new : c \in Counted' /\ c \notin Counted
    BY <2>1, <2>2, <2>3, <1>1 DEF Counted, Slabs
  <2>6. \A c : c \in Counted' => c \in new \/ c \in Counted
    BY <2>3, <2>4, <1>1, <1>5 DEF Counted, Slabs
  <2>7. \A c : c \in Counted => c \in Counted'
    BY <2>3, <2>4, <1>1, <1>5 DEF Counted, Slabs
  <2> HIDE DEF new
  <2>8. Counted' = Counted \union new /\ Counted \cap new = {}
    BY <2>5, <2>6, <2>7
  <2>9. IsFiniteSet(new) /\ Cardinality(new) = HeapPieces
    <3>1. IsFiniteSet(HeapPiece) /\ Cardinality(HeapPiece) = HeapPieces
      <4>1. HeapPieces - 1 \in Int /\ ~(0 > HeapPieces - 1) /\ (HeapPieces - 1) - 0 + 1 = HeapPieces
        BY HeapAssumption
      <4> QED BY <4>1, FS_Interval DEF HeapPiece
    <3>2. IsFiniteSet({N + 1}) /\ Cardinality({N + 1}) = 1
      BY FS_Singleton, Zenon
    <3>3. IsFiniteSet(new) /\ Cardinality(new) = Cardinality({N + 1}) * Cardinality(HeapPiece)
      BY <3>1, <3>2, FS_Product DEF new
    <3> QED BY <3>1, <3>2, <3>3, <1>0
  <2>10. IsFiniteSet(Counted)
    BY CountedFinite
  <2>11. Cardinality(Counted') = Cardinality(Counted) + HeapPieces
    BY <2>8, <2>9, <2>10, CardinalityAdd
  <2> QED BY <2>11, <1>1 DEF HeapInv
<1> QED BY <1>4, <1>7, <1>8, <1>9, <1>10 DEF HeapInv

(* The run that is marked was clear, so it is nobody's.                    *)
LEMMA MarkStep ==
  ASSUME HeapType, HeapInv, NEW t \in HeapThreads, AllocMark(t)
  PROVE  HeapType' /\ HeapInv'
<1> DEFINE s == hloc[t].s
           n == hloc[t].n
           i == FindFree(hbits[s], n)
<1>0. ThreadOK(t) /\ DOMAIN hlock = 1 .. Len(hlock) /\ s \in DOMAIN hlock /\ s \in 1 .. HeapSlabs
      /\ n \in Nat /\ n # 0 /\ 0 \notin HeapThreads /\ 0 \in HeapPiece
  BY HeapAssumption, SMTT(30) DEF HeapInv, HeapType, ThreadOK, AllocMark, At, HeapPiece
<1>1. /\ hpc[t] = "alloc" /\ hlock[s] = 0 /\ FitsAt(hbits[s], n) # {}
      /\ hlock' = [hlock EXCEPT ![s] = t]
      /\ hbits' = [hbits EXCEPT ![s] = @ \cup Block(i, n)]
      /\ hloc' = [hloc EXCEPT ![t].i = i, ![t].word = hmem[s][0]]
      /\ hpc' = [hpc EXCEPT ![t] = "marked"]
      /\ UNCHANGED <<hmem, heapFree, hheld>>
  BY DEF AllocMark, At, Goto, HeapNil
<1>2. i \in HeapPiece /\ i \in Nat /\ Block(i, n) \subseteq HeapPiece /\ Block(i, n) \cap hbits[s] = {}
  BY <1>0, <1>1, FindFreeFits DEF HeapPiece
<1> HIDE DEF i
<1>3. /\ hlock' \in Seq(Nat) /\ Len(hlock') = Len(hlock) /\ DOMAIN hlock' = DOMAIN hlock
      /\ hlock'[s] = t /\ \A r \in DOMAIN hlock : r # s => hlock'[r] = hlock[r]
  BY <1>0, <1>1, HeapAssumption DEF HeapType
<1>4. /\ hpc'[t] = "marked" /\ hloc'[t].s = s /\ hloc'[t].n = n /\ hloc'[t].i = i
      /\ hloc'[t].old = hloc[t].old
      /\ \A u \in HeapThreads : u # t => hpc'[u] = hpc[u] /\ hloc'[u] = hloc[u]
  BY <1>1 DEF HeapType
<1>5. /\ hbits'[s] = hbits[s] \union Block(i, n)
      /\ \A r \in 1 .. HeapSlabs : r # s => hbits'[r] = hbits[r]
      /\ hbits' \in [1 .. HeapSlabs -> SUBSET HeapPiece]
  BY <1>0, <1>1, <1>2 DEF HeapType
<1>6. HeapType'
  <2>1. hmem[s][0] \in Int
    BY <1>0 DEF HeapType
  <2>2. hloc' \in [HeapThreads -> [s : Nat, n : Nat, i : Nat, word : Int, old : HeapBlocks]]
    BY <2>1, <1>1, <1>2, Zenon DEF HeapType
  <2> QED BY <2>2, <1>1, <1>3, <1>5, SMTT(30) DEF HeapType, HeapPcs
<1>7. /\ Allocating(t)' /\ ~Allocating(t) /\ BlockOf(t)' = Block(i, n)
      /\ \A u \in HeapThreads : u # t =>
           (Allocating(u)' <=> Allocating(u)) /\ BlockOf(u)' = BlockOf(u)
  BY <1>1, <1>4, Zenon DEF Allocating, BlockOf
<1>8. \A r \in 1 .. HeapSlabs : hbits[r] \subseteq hbits'[r]
  BY <1>5
<1>9. DOMAIN hlock \subseteq 1 .. HeapSlabs
  BY SlabRange
<1>10. ASSUME NEW u \in HeapThreads
       PROVE  ThreadOK(u)'
  <2>1. CASE u = t
    <3>1. BlockOf(t)' \subseteq hbits'[hloc'[t].s]
      BY <1>4, <1>5, <1>7
    <3>2. hloc[t].old = NoBlock \/ (hloc[t].old \in hheld /\ hloc[t].old.by = t)
      BY <1>0, <1>1 DEF ThreadOK
    <3>3. hloc'[t].s \in DOMAIN hlock' /\ hloc'[t].n # 0 /\ hlock'[hloc'[t].s] = t /\ hheld' = hheld
      BY <1>0, <1>1, <1>3, <1>4
    <3> HIDE DEF s, n
    <3> QED BY <2>1, <3>1, <3>2, <3>3, <1>4 DEF ThreadOK
  <2>2. CASE u # t
    <3>1. ThreadOK(u)
      BY DEF HeapInv
    <3>2. hpc[u] \in {"marked", "unmarked"} => hloc[u].s # s
      BY <3>1, <1>0, <1>1 DEF ThreadOK
    <3>3. hpc[u] \notin {"idle", "free"} => hloc[u].s \in DOMAIN hlock
      BY <3>1 DEF ThreadOK
    <3>4. Allocating(u) => BlockOf(u)' \subseteq hbits'[hloc'[u].s]
      BY <2>2, <3>1, <3>3, <1>4, <1>7, <1>8, <1>9 DEF ThreadOK, Allocating
    <3>5. hpc[u] = "unmarked" => BlockOf(u)' \cap hbits'[hloc'[u].s] = {}
      BY <2>2, <3>1, <3>2, <3>3, <1>4, <1>5, <1>7, <1>9 DEF ThreadOK
    <3>6. hpc[u] \in {"marked", "unmarked"} => hlock'[hloc'[u].s] = u
      BY <2>2, <3>1, <3>2, <3>3, <1>3, <1>4 DEF ThreadOK
    <3>7. /\ hheld' = hheld /\ DOMAIN hlock' = DOMAIN hlock
          /\ hpc'[u] = hpc[u] /\ hloc'[u] = hloc[u] /\ (Allocating(u)' <=> Allocating(u))
      BY <2>2, <1>1, <1>3, <1>4, <1>7, Zenon
    <3> QED BY <3>1, <3>3, <3>4, <3>5, <3>6, <3>7 DEF ThreadOK
  <2> QED BY <2>1, <2>2
<1>11. HeldOK' /\ FreshSlabs' /\ BlocksKept'
  <2>1. HeldOK'
    BY <1>1, <1>3, <1>8, <1>9, Zenon DEF HeapInv, HeldOK
  <2>2. FreshSlabs'
    BY <1>0, <1>3, <1>5 DEF HeapInv, FreshSlabs
  <2> QED BY <2>1, <2>2, <1>1 DEF HeapInv, BlocksKept
<1>12. Disjoint'
  <2>1. ASSUME NEW b \in hheld, NEW u \in HeapThreads, Allocating(u)', b.s = hloc'[u].s
        PROVE  Block(b.i, b.n) \cap BlockOf(u)' = {}
    <3>1. CASE u = t
      <4>1. Block(b.i, b.n) \subseteq hbits[s]
        BY <2>1, <3>1, <1>4 DEF HeapInv, HeldOK
      <4> QED BY <3>1, <4>1, <1>2, <1>7
    <3>2. CASE u # t
      BY <2>1, <3>2, <1>4, <1>7 DEF HeapInv, Disjoint
    <3> QED BY <3>1, <3>2
  <2>2. ASSUME NEW u \in HeapThreads, u # t, Allocating(u), hloc[u].s = s
        PROVE  BlockOf(u) \cap Block(i, n) = {}
    <3>1. BlockOf(u) \subseteq hbits[s]
      BY <2>2 DEF HeapInv, ThreadOK
    <3> QED BY <3>1, <1>2
  <2>3. ASSUME NEW u \in HeapThreads, NEW v \in HeapThreads, u # v,
               Allocating(u)', Allocating(v)', hloc'[u].s = hloc'[v].s
        PROVE  BlockOf(u)' \cap BlockOf(v)' = {}
    <3>1. CASE u = t
      BY <2>2, <2>3, <3>1, <1>4, <1>7
    <3>2. CASE v = t
      BY <2>2, <2>3, <3>2, <1>4, <1>7
    <3>3. CASE u # t /\ v # t
      BY <2>3, <3>3, <1>4, <1>7 DEF HeapInv, Disjoint
    <3> QED BY <3>1, <3>2, <3>3
  <2>4. \A b, c \in hheld' : b # c /\ b.s = c.s => Block(b.i, b.n) \cap Block(c.i, c.n) = {}
    BY <1>1, SMTT(30) DEF HeapInv, Disjoint
  <2> QED BY <2>1, <2>3, <2>4, <1>1, Zenon DEF Disjoint
<1>13. Counted' = Counted
  <2>1. Slabs' = Slabs
    BY <1>3 DEF Slabs
  <2>2. \A r \in Slabs : r \in 1 .. HeapSlabs
    BY <1>9 DEF Slabs
  <2>3. ASSUME NEW c \in Slabs \X HeapPiece
        PROVE  c \in Counted' <=> c \in Counted
    <3>1. c[1] \in 1 .. HeapSlabs
      BY <2>2
    <3>2. CASE c[1] # s
      <4>1. hbits'[c[1]] = hbits[c[1]]
        BY <3>1, <3>2, <1>5
      <4> QED BY <2>1, <2>3, <3>2, <4>1, <1>4, <1>7 DEF Counted
    <3>3. CASE c[1] = s /\ c[2] \in Block(i, n)
      <4>1. c[2] \notin hbits[c[1]]
        BY <3>3, <1>2
      <4>2. c \in Counted
        BY <2>3, <4>1 DEF Counted
      <4>3. c \in Counted'
        BY <2>1, <2>3, <3>3, <1>4, <1>7 DEF Counted
      <4> QED BY <4>2, <4>3
    <3>4. CASE c[1] = s /\ c[2] \notin Block(i, n)
      <4>1. c[2] \in hbits'[c[1]] <=> c[2] \in hbits[c[1]]
        BY <3>4, <1>5
      <4> QED BY <2>1, <2>3, <3>4, <4>1, <1>4, <1>7 DEF Counted
    <3> QED BY <3>2, <3>3, <3>4
  <2>4. Counted \subseteq Slabs \X HeapPiece /\ Counted' \subseteq Slabs \X HeapPiece
    BY <2>1 DEF Counted
  <2> QED BY <2>3, <2>4
<1> QED BY <1>1, <1>6, <1>10, <1>11, <1>12, <1>13 DEF HeapInv

(* The pieces a block's contents depend on are not piece 0.                *)
LEMMA KeptUnchanged ==
  ASSUME HeapType, HeapInv, hheld' \subseteq hheld,
         \A b \in hheld' : \A p \in Block(b.i, b.n) : p # 0 => hmem'[b.s][p] = hmem[b.s][p]
  PROVE  BlocksKept'
<1> SUFFICES ASSUME NEW b \in hheld'
             PROVE  /\ \A p \in Block(b.i, b.n) \ {b.i} : hmem'[b.s][p] = b.by
                    /\ b.i = 0 \/ hmem'[b.s][b.i] = Header(b.n)
  BY DEF BlocksKept
<1>1. b \in hheld /\ b.i \in Nat /\ b.n \in Nat /\ b.n # 0
  BY DEF HeapType, HeapBlocks, HeapInv, HeldOK
<1>2. /\ \A p \in Block(b.i, b.n) \ {b.i} : hmem[b.s][p] = b.by
      /\ b.i = 0 \/ hmem[b.s][b.i] = Header(b.n)
  BY <1>1 DEF HeapInv, BlocksKept
<1>3. b.i \in Block(b.i, b.n) /\ \A p \in Block(b.i, b.n) \ {b.i} : p # 0
  BY <1>1 DEF Block
<1> QED BY <1>2, <1>3

(* The release of a slab's lock keeps the invariant.                      *)
LEMMA UnlockStep ==
  ASSUME HeapType, HeapInv, NEW t \in HeapThreads, AllocUnlock(t)
  PROVE  HeapType' /\ HeapInv'
<1> DEFINE s == hloc[t].s
<1>0. ThreadOK(t) /\ DOMAIN hlock \subseteq 1 .. HeapSlabs /\ 0 \in HeapPiece
  BY HeapAssumption, SlabRange DEF HeapInv, HeapPiece
<1>1. /\ hpc[t] = "marked" /\ hmem' = [hmem EXCEPT ![s] = WriteBack(t)]
      /\ hlock' = [hlock EXCEPT ![s] = 0] /\ hpc' = [hpc EXCEPT ![t] = "header"]
      /\ UNCHANGED <<hbits, heapFree, hheld, hloc>>
  BY DEF AllocUnlock, At, Goto, HeapNil
<1>2. s \in DOMAIN hlock /\ hlock[s] = t /\ s \in 1 .. HeapSlabs
  BY <1>0, <1>1 DEF ThreadOK
<1>3. /\ WriteBack(t) \in [HeapPiece -> Int]
      /\ \A p \in HeapPiece : p # 0 => WriteBack(t)[p] = hmem[s][p]
  BY <1>0, <1>2 DEF WriteBack, HeapType
<1>4. /\ hlock' \in Seq(Nat) /\ Len(hlock') = Len(hlock) /\ DOMAIN hlock' = DOMAIN hlock
      /\ \A r \in DOMAIN hlock : r # s => hlock'[r] = hlock[r]
  BY <1>1, <1>2 DEF HeapType
<1>5. /\ hmem' \in [1 .. HeapSlabs -> [HeapPiece -> Int]]
      /\ \A r \in 1 .. HeapSlabs, p \in HeapPiece : p # 0 => hmem'[r][p] = hmem[r][p]
  BY <1>1, <1>2, <1>3 DEF HeapType
<1>6. hpc'[t] = "header" /\ \A u \in HeapThreads : u # t => hpc'[u] = hpc[u]
  BY <1>1 DEF HeapType
<1>7. HeapType'
  BY <1>1, <1>4, <1>5, SMTT(30) DEF HeapType, HeapPcs
<1>8. \A u \in HeapThreads : (Allocating(u)' <=> Allocating(u)) /\ BlockOf(u)' = BlockOf(u)
  BY <1>1, <1>6 DEF Allocating, BlockOf
<1>9. ASSUME NEW u \in HeapThreads
      PROVE  ThreadOK(u)'
  <2>1. ThreadOK(u) /\ hloc'[u] = hloc[u] /\ hheld' = hheld /\ hbits' = hbits
    BY <1>1 DEF HeapInv
  <2>2. CASE u = t
    BY <2>1, <2>2, <1>1, <1>4, <1>6, <1>8 DEF ThreadOK
  <2>3. CASE u # t
    <3>1. hpc[u] \in {"marked", "unmarked"} => hlock'[hloc[u].s] = u
      BY <2>1, <2>3, <1>2, <1>4 DEF ThreadOK
    <3> QED BY <2>1, <2>3, <3>1, <1>4, <1>6, <1>8 DEF ThreadOK
  <2> QED BY <2>2, <2>3
<1>10. HeldOK' /\ FreshSlabs'
  BY <1>1, <1>4, Zenon DEF HeapInv, HeldOK, FreshSlabs
<1>11. BlocksKept'
  <2>1. ASSUME NEW b \in hheld, NEW p \in Block(b.i, b.n), p # 0
        PROVE  hmem'[b.s][p] = hmem[b.s][p]
    <3>1. b.s \in 1 .. HeapSlabs /\ p \in HeapPiece
      BY <1>0 DEF HeapInv, HeldOK, HeapType
    <3> QED BY <2>1, <3>1, <1>5
  <2> QED BY <2>1, <1>1, KeptUnchanged
<1>12. Disjoint'
  BY <1>1, <1>8 DEF HeapInv, Disjoint
<1>13. Counted' = Counted
  BY <1>1, <1>4, <1>8 DEF Counted, Slabs
<1> QED BY <1>1, <1>7, <1>9, <1>10, <1>11, <1>12, <1>13 DEF HeapInv

(* free() fills the pieces of a block that nobody holds any more.         *)
LEMMA FreeFillStep ==
  ASSUME HeapType, HeapInv, NEW t \in HeapThreads, FreeFill(t)
  PROVE  HeapType' /\ HeapInv'
<1> DEFINE s == hloc[t].s
           m == WriteBack(t)
           filled == [p \in HeapPiece |-> IF p \in BlockOf(t) THEN Filled5A ELSE m[p]]
<1>0. ThreadOK(t) /\ DOMAIN hlock \subseteq 1 .. HeapSlabs /\ 0 \in HeapPiece
  BY HeapAssumption, SlabRange DEF HeapInv, HeapPiece
<1>1. /\ hpc[t] = "unmarked" /\ hmem' = [hmem EXCEPT ![s] = filled]
      /\ hlock' = [hlock EXCEPT ![s] = 0] /\ hpc' = [hpc EXCEPT ![t] = "idle"]
      /\ hloc' = [hloc EXCEPT ![t] = HeapIdle]
      /\ UNCHANGED <<hbits, heapFree, hheld>>
  BY DEF FreeFill, At, Goto, HeapNil, BlockOf
<1>2. /\ s \in DOMAIN hlock /\ hlock[s] = t /\ s \in 1 .. HeapSlabs
      /\ BlockOf(t) \cap hbits[s] = {}
  BY <1>0, <1>1 DEF ThreadOK
<1>3. /\ m \in [HeapPiece -> Int]
      /\ \A p \in HeapPiece : p # 0 => m[p] = hmem[s][p]
  BY <1>0, <1>2 DEF WriteBack, HeapType
<1> HIDE DEF m
<1>4. /\ hlock' \in Seq(Nat) /\ Len(hlock') = Len(hlock) /\ DOMAIN hlock' = DOMAIN hlock
      /\ \A r \in DOMAIN hlock : r # s => hlock'[r] = hlock[r]
  BY <1>1, <1>2 DEF HeapType
<1>5. /\ filled \in [HeapPiece -> Int]
      /\ \A p \in hbits[s] : p # 0 => filled[p] = hmem[s][p]
  BY <1>2, <1>3 DEF HeapType, Filled5A
<1> HIDE DEF filled
<1>6. /\ hmem' \in [1 .. HeapSlabs -> [HeapPiece -> Int]]
      /\ \A r \in 1 .. HeapSlabs : \A p \in hbits[r] : p # 0 => hmem'[r][p] = hmem[r][p]
  BY <1>1, <1>2, <1>5 DEF HeapType
<1>7. /\ hpc'[t] = "idle"
      /\ \A u \in HeapThreads : u # t => hpc'[u] = hpc[u] /\ hloc'[u] = hloc[u]
  BY <1>1 DEF HeapType
<1>8. HeapType'
  <2>1. HeapIdle \in [s : Nat, n : Nat, i : Nat, word : Int, old : HeapBlocks]
    BY DEF HeapIdle, Locals, HeapBlocks, NoBlock
  <2> HIDE DEF s
  <2> QED BY <2>1, <1>1, <1>4, <1>6, Zenon DEF HeapType, HeapPcs
<1>9. /\ ~Allocating(t) /\ ~Allocating(t)'
      /\ \A u \in HeapThreads : u # t =>
            (Allocating(u)' <=> Allocating(u)) /\ BlockOf(u)' = BlockOf(u)
  BY <1>1, <1>7 DEF Allocating, BlockOf
<1>10. ASSUME NEW u \in HeapThreads
       PROVE  ThreadOK(u)'
  <2>1. ThreadOK(u) /\ hheld' = hheld /\ hbits' = hbits
    BY <1>1 DEF HeapInv
  <2>2. CASE u = t
    BY <2>2, <1>7, <1>9 DEF ThreadOK
  <2>3. CASE u # t
    <3>1. hpc[u] \in {"marked", "unmarked"} => hlock'[hloc[u].s] = u
      BY <2>1, <2>3, <1>2, <1>4 DEF ThreadOK
    <3> QED BY <2>1, <2>3, <3>1, <1>4, <1>7, <1>9 DEF ThreadOK
  <2> QED BY <2>2, <2>3
<1>11. HeldOK' /\ FreshSlabs'
  BY <1>1, <1>4, Zenon DEF HeapInv, HeldOK, FreshSlabs
<1>12. BlocksKept'
  <2>1. ASSUME NEW b \in hheld, NEW p \in Block(b.i, b.n), p # 0
        PROVE  hmem'[b.s][p] = hmem[b.s][p]
    <3>1. b.s \in 1 .. HeapSlabs /\ p \in hbits[b.s]
      BY <1>0 DEF HeapInv, HeldOK
    <3> QED BY <2>1, <3>1, <1>6
  <2> QED BY <2>1, <1>1, KeptUnchanged
<1>13. Disjoint'
  <2>1. \A u \in HeapThreads : Allocating(u)' =>
           Allocating(u) /\ hloc'[u] = hloc[u] /\ BlockOf(u)' = BlockOf(u)
    BY <1>7, <1>9
  <2> QED BY <1>1, <2>1, SMTT(30) DEF HeapInv, Disjoint
<1>14. Counted' = Counted
  <2>1. \A u \in HeapThreads : (Allocating(u)' <=> Allocating(u))
          /\ (Allocating(u) => hloc'[u] = hloc[u] /\ BlockOf(u)' = BlockOf(u))
    BY <1>7, <1>9
  <2> QED BY <1>1, <1>4, <2>1, SMTT(30) DEF Counted, Slabs
<1> QED BY <1>1, <1>8, <1>10, <1>11, <1>12, <1>13, <1>14 DEF HeapInv

(* The block becomes the caller's.                                         *)
LEMMA FillStep ==
  ASSUME HeapType, HeapInv, NEW t \in HeapThreads, AllocFill(t)
  PROVE  HeapType' /\ HeapInv'
<1> DEFINE s == hloc[t].s
           n == hloc[t].n
           i == hloc[t].i
           old == hloc[t].old
           blk == [s |-> s, i |-> i, n |-> n, by |-> t]
           wrote == [p \in HeapPiece |-> IF p = i THEN Header(n)
                                         ELSE IF p \in BlockOf(t) \ {i} THEN t ELSE hmem[s][p]]
<1>0. ThreadOK(t) /\ DOMAIN hlock \subseteq 1 .. HeapSlabs /\ t \in Nat /\ Header(n) \in Int
  BY HeapAssumption, SlabRange, SMTT(30) DEF HeapInv, HeapType, Header
<1>1. /\ hpc[t] = "header" /\ hmem' = [hmem EXCEPT ![s] = wrote]
      /\ heapFree' = heapFree - n
      /\ hheld' = hheld \union {blk}
      /\ UNCHANGED <<hbits, hlock>>
  BY DEF AllocFill, At, BlockOf
<1>2. /\ s \in DOMAIN hlock /\ s \in 1 .. HeapSlabs /\ n \in Nat /\ n # 0 /\ i \in Nat
      /\ BlockOf(t) \subseteq hbits[s] /\ i \in BlockOf(t) /\ Allocating(t)
      /\ old \in HeapBlocks
      /\ old = NoBlock \/ (old \in hheld /\ old.by = t)
  BY <1>0, <1>1, BlockFacts, Zenon DEF ThreadOK, Allocating, HeapType, BlockOf
<1>3. \/ hpc' = [hpc EXCEPT ![t] = "idle"] /\ hloc' = [hloc EXCEPT ![t] = HeapIdle]
      \/ /\ hpc' = [hpc EXCEPT ![t] = "free"] /\ old \in hheld /\ old.by = t
         /\ hloc' = [hloc EXCEPT ![t] = Locals(0, 0, 0, 0, old)]
  BY <1>2 DEF AllocFill, Goto
<1>4. /\ hpc'[t] \in {"idle", "free"}
      /\ hpc'[t] = "free" => hloc'[t].old = old /\ old \in hheld /\ old.by = t
      /\ \A u \in HeapThreads : u # t => hpc'[u] = hpc[u] /\ hloc'[u] = hloc[u]
  BY <1>3 DEF HeapType, Locals
<1>5. blk \in HeapBlocks
  BY <1>0, <1>2 DEF HeapType, HeapBlocks
<1>6. /\ wrote \in [HeapPiece -> Int]
      /\ \A p \in BlockOf(t) \ {i} : wrote[p] = t
      /\ wrote[i] = Header(n)
      /\ \A p \in HeapPiece : p \notin BlockOf(t) => wrote[p] = hmem[s][p]
  BY <1>0, <1>2 DEF HeapType
<1> HIDE DEF wrote
<1>7. hmem' \in [1 .. HeapSlabs -> [HeapPiece -> Int]] /\ hmem'[s] = wrote
      /\ \A r \in 1 .. HeapSlabs : r # s => hmem'[r] = hmem[r]
  BY <1>1, <1>2, <1>6 DEF HeapType
<1>8. HeapType'
  <2>1. hloc' \in [HeapThreads -> [s : Nat, n : Nat, i : Nat, word : Int, old : HeapBlocks]]
    <3>1. /\ HeapIdle \in [s : Nat, n : Nat, i : Nat, word : Int, old : HeapBlocks]
          /\ Locals(0, 0, 0, 0, old) \in [s : Nat, n : Nat, i : Nat, word : Int, old : HeapBlocks]
      BY <1>2 DEF HeapIdle, Locals, HeapBlocks, NoBlock
    <3> HIDE DEF old
    <3> QED BY <1>3, <3>1, Zenon DEF HeapType
  <2>2. hpc' \in [HeapThreads -> HeapPcs]
    BY <1>3, Zenon DEF HeapType, HeapPcs
  <2>3. heapFree' \in Int
    BY <1>1, <1>2 DEF HeapType
  <2>4. hheld' \in SUBSET HeapBlocks
    BY <1>1, <1>5 DEF HeapType
  <2> QED BY <2>1, <2>2, <2>3, <2>4, <1>1, <1>7, Zenon DEF HeapType
<1>9. /\ ~Allocating(t)'
      /\ \A u \in HeapThreads : u # t =>
            (Allocating(u)' <=> Allocating(u)) /\ BlockOf(u)' = BlockOf(u)
  BY <1>4 DEF Allocating, BlockOf
<1>10. ASSUME NEW u \in HeapThreads
       PROVE  ThreadOK(u)'
  <2>1. ThreadOK(u) /\ hheld \subseteq hheld' /\ hbits' = hbits /\ hlock' = hlock
    BY <1>1 DEF HeapInv
  <2>2. CASE u = t
    BY <2>1, <2>2, <1>4, <1>9 DEF ThreadOK
  <2>3. CASE u # t
    BY <2>1, <2>3, <1>4, <1>9 DEF ThreadOK
  <2> QED BY <2>2, <2>3
<1>11. blk.s = s /\ blk.i = i /\ blk.n = n /\ blk.by = t /\ Block(blk.i, blk.n) = BlockOf(t)
  BY DEF BlockOf
<1> HIDE DEF blk
<1>12. HeldOK' /\ FreshSlabs'
  <2>1. HeldOK'
    BY <1>1, <1>2, <1>11 DEF HeapInv, HeldOK
  <2> QED BY <2>1, <1>1 DEF HeapInv, FreshSlabs
<1>13. BlocksKept'
  <2>1. ASSUME NEW b \in hheld
        PROVE  /\ \A p \in Block(b.i, b.n) \ {b.i} : hmem'[b.s][p] = b.by
               /\ b.i = 0 \/ hmem'[b.s][b.i] = Header(b.n)
    <3>1. /\ \A p \in Block(b.i, b.n) \ {b.i} : hmem[b.s][p] = b.by
          /\ b.i = 0 \/ hmem[b.s][b.i] = Header(b.n)
      BY DEF HeapInv, BlocksKept
    <3>2. b.s \in 1 .. HeapSlabs /\ Block(b.i, b.n) \subseteq HeapPiece
      BY <1>0 DEF HeapInv, HeldOK, HeapType
    <3>3. b.i \in Block(b.i, b.n)
      BY BlockFacts, Zenon DEF HeapInv, HeldOK, HeapType, HeapBlocks
    <3>4. \A p \in Block(b.i, b.n) : hmem'[b.s][p] = hmem[b.s][p]
      <4>1. CASE b.s = s
        <5>1. Block(b.i, b.n) \cap BlockOf(t) = {}
          BY <4>1, <1>2 DEF HeapInv, Disjoint
        <5> QED BY <4>1, <5>1, <3>2, <1>6, <1>7
      <4>2. CASE b.s # s
        BY <4>2, <3>2, <1>7
      <4> QED BY <4>1, <4>2
    <3> QED BY <3>1, <3>3, <3>4
  <2>2. /\ \A p \in Block(blk.i, blk.n) \ {blk.i} : hmem'[blk.s][p] = blk.by
        /\ hmem'[blk.s][blk.i] = Header(blk.n)
    BY <1>6, <1>7, <1>11
  <2> QED BY <2>1, <2>2, <1>1 DEF BlocksKept
<1>14. Disjoint'
  <2>1. \A u \in HeapThreads : Allocating(u)' =>
           u # t /\ Allocating(u) /\ hloc'[u] = hloc[u] /\ BlockOf(u)' = BlockOf(u)
    BY <1>4, <1>9
  <2>2. \A c \in hheld : c.s = s => Block(c.i, c.n) \cap BlockOf(t) = {}
    BY <1>2 DEF HeapInv, Disjoint
  <2>3. \A u \in HeapThreads : u # t /\ Allocating(u) /\ hloc[u].s = s => BlockOf(u) \cap BlockOf(t) = {}
    BY <1>2 DEF HeapInv, Disjoint
  <2>4. ASSUME NEW b \in hheld', NEW c \in hheld', b # c, b.s = c.s
        PROVE  Block(b.i, b.n) \cap Block(c.i, c.n) = {}
    <3>1. CASE b \in hheld /\ c \in hheld
      BY <2>4, <3>1 DEF HeapInv, Disjoint
    <3>2. CASE b = blk
      BY <2>2, <2>4, <3>2, <1>1, <1>11
    <3>3. CASE c = blk
      BY <2>2, <2>4, <3>3, <1>1, <1>11
    <3> QED BY <3>1, <3>2, <3>3, <1>1
  <2>5. ASSUME NEW b \in hheld', NEW u \in HeapThreads, Allocating(u)', b.s = hloc'[u].s
        PROVE  Block(b.i, b.n) \cap BlockOf(u)' = {}
    <3>1. CASE b \in hheld
      BY <2>1, <2>5, <3>1 DEF HeapInv, Disjoint
    <3>2. CASE b = blk
      BY <2>1, <2>3, <2>5, <3>2, <1>11
    <3> QED BY <3>1, <3>2, <1>1
  <2>6. \A u, v \in HeapThreads :
           u # v /\ Allocating(u)' /\ Allocating(v)' /\ hloc'[u].s = hloc'[v].s =>
             BlockOf(u)' \cap BlockOf(v)' = {}
    BY <2>1 DEF HeapInv, Disjoint
  <2> QED BY <2>4, <2>5, <2>6 DEF Disjoint
<1>15. heapFree' = Cardinality(Counted')
  <2> DEFINE X == {s} \X BlockOf(t)
  <2>1. \A u \in HeapThreads : Allocating(u)' <=> u # t /\ Allocating(u)
    BY <1>9
  <2>2. \A u \in HeapThreads : u # t => hloc'[u] = hloc[u] /\ BlockOf(u)' = BlockOf(u)
    BY <1>4, <1>9
  <2>3. BlockOf(t) \subseteq HeapPiece
    BY <1>2 DEF HeapType
  <2>4. \A c \in X : c \in Counted /\ c \notin Counted'
    <3> SUFFICES ASSUME NEW c \in X PROVE c \in Counted /\ c \notin Counted'
      OBVIOUS
    <3>1. c[1] = s /\ c[2] \in BlockOf(t) /\ c \in Slabs \X HeapPiece
      BY <2>3, <1>2 DEF Slabs
    <3>2. c \in Counted
      BY <3>1, <1>2 DEF Counted
    <3>3. c[2] \in hbits'[c[1]]
      BY <3>1, <1>1, <1>2
    <3>4. ASSUME NEW u \in HeapThreads, Allocating(u)', hloc'[u].s = c[1]
          PROVE  c[2] \notin BlockOf(u)'
      <4>1. u # t /\ Allocating(u) /\ hloc[u].s = s /\ BlockOf(u)' = BlockOf(u)
        BY <2>1, <2>2, <3>1, <3>4
      <4>2. BlockOf(u) \cap BlockOf(t) = {}
        BY <4>1, <1>2 DEF HeapInv, Disjoint
      <4> QED BY <3>1, <4>1, <4>2
    <3> QED BY <3>2, <3>3, <3>4 DEF Counted
  <2>5. \A c \in Counted' : c \in Counted
    BY <2>1, <2>2, <1>1 DEF Counted, Slabs
  <2>6. \A c \in Counted : c \in Counted' \/ c \in X
    <3> SUFFICES ASSUME NEW c \in Counted, c \notin Counted' PROVE c \in X
      OBVIOUS
    <3>1. c \in Slabs' \X HeapPiece /\ c \in Slabs \X HeapPiece
      BY <1>1 DEF Counted, Slabs
    <3>2. c[2] \in hbits[c[1]]
      BY <3>1, <1>1 DEF Counted
    <3>3. PICK u \in HeapThreads : Allocating(u) /\ hloc[u].s = c[1] /\ c[2] \in BlockOf(u)
      BY <3>2 DEF Counted
    <3>4. u = t
      BY <2>1, <2>2, <3>1, <3>3 DEF Counted
    <3>5. c[1] = s /\ c[2] \in BlockOf(t) /\ c = <<c[1], c[2]>>
      BY <3>1, <3>3, <3>4
    <3> QED BY <3>5
  <2>7. IsFiniteSet(X) /\ Cardinality(X) = n
    BY <1>2, BlockFacts, Zenon DEF BlockOf
  <2>8. IsFiniteSet(Counted')
    <3>1. IsFiniteSet(Counted)
      BY CountedFinite
    <3> QED BY <2>5, <3>1, FS_Subset
  <2> HIDE DEF X
  <2>9. Counted = Counted' \union X /\ Counted' \cap X = {}
    BY <2>4, <2>5, <2>6
  <2>10. Cardinality(Counted) = Cardinality(Counted') + n /\ Cardinality(Counted') \in Nat
    BY <2>7, <2>8, <2>9, CardinalityAdd, Zenon
  <2> HIDE DEF n
  <2> QED BY <2>10, <1>1, <1>2 DEF HeapInv
<1> QED BY <1>8, <1>10, <1>12, <1>13, <1>14, <1>15 DEF HeapInv

(* The block is nobody's any more; the thread still has the slab's lock.   *)
LEMMA UnmarkStep ==
  ASSUME HeapType, HeapInv, NEW t \in HeapThreads, FreeUnmark(t)
  PROVE  HeapType' /\ HeapInv'
<1> DEFINE b == hloc[t].old
           blk == Block(b.i, b.n)
<1>0. /\ ThreadOK(t) /\ DOMAIN hlock \subseteq 1 .. HeapSlabs /\ 0 \in HeapPiece
      /\ 0 \notin HeapThreads /\ t \in Nat
  BY HeapAssumption, SlabRange, SMTT(30) DEF HeapInv, HeapPiece
<1>1. /\ hpc[t] = "free" /\ hlock[b.s] = 0
      /\ hlock' = [hlock EXCEPT ![b.s] = t]
      /\ hbits' = [hbits EXCEPT ![b.s] = @ \ blk]
      /\ heapFree' = heapFree + b.n /\ hheld' = hheld \ {b}
      /\ hloc' = [hloc EXCEPT ![t] = Locals(b.s, b.n, b.i, hmem[b.s][0], NoBlock)]
      /\ hpc' = [hpc EXCEPT ![t] = "unmarked"]
      /\ hmem' = hmem
  BY DEF FreeUnmark, At, Goto, HeapNil
<1>2. /\ b \in hheld /\ b.by = t /\ b.s \in DOMAIN hlock /\ b.n # 0 /\ blk \subseteq hbits[b.s]
      /\ b.s \in Nat /\ b.i \in Nat /\ b.n \in Nat
  BY <1>0, <1>1, SMTT(30) DEF ThreadOK, HeapInv, HeldOK, HeapType, HeapBlocks
<1>3. b.s \in 1 .. HeapSlabs
  BY <1>0, <1>2
<1> HIDE DEF b
<1>4. /\ hlock' \in Seq(Nat) /\ Len(hlock') = Len(hlock) /\ DOMAIN hlock' = DOMAIN hlock
      /\ hlock'[b.s] = t /\ \A r \in DOMAIN hlock : r # b.s => hlock'[r] = hlock[r]
  BY <1>0, <1>1, <1>2, SMTT(30) DEF HeapType
<1>5. /\ hbits'[b.s] = hbits[b.s] \ blk
      /\ \A r \in 1 .. HeapSlabs : r # b.s => hbits'[r] = hbits[r]
      /\ hbits' \in [1 .. HeapSlabs -> SUBSET HeapPiece]
  BY <1>1, <1>3 DEF HeapType
<1>6. /\ hpc'[t] = "unmarked" /\ hloc'[t].s = b.s /\ hloc'[t].n = b.n /\ hloc'[t].i = b.i
      /\ \A u \in HeapThreads : u # t => hpc'[u] = hpc[u] /\ hloc'[u] = hloc[u]
  BY <1>1 DEF HeapType, Locals
<1>7. HeapType'
  <2>1. hmem[b.s][0] \in Int
    BY <1>0, <1>3 DEF HeapType
  <2>2. Locals(b.s, b.n, b.i, hmem[b.s][0], NoBlock)
            \in [s : Nat, n : Nat, i : Nat, word : Int, old : HeapBlocks]
    BY <2>1, <1>2 DEF Locals, NoBlock, HeapBlocks
  <2>3. hloc' \in [HeapThreads -> [s : Nat, n : Nat, i : Nat, word : Int, old : HeapBlocks]]
    BY <2>2, <1>1 DEF HeapType
  <2>4. hpc' \in [HeapThreads -> HeapPcs] /\ hheld' \in SUBSET HeapBlocks /\ heapFree' \in Int
    BY <1>1, <1>2, SMTT(30) DEF HeapType, HeapPcs
  <2> QED BY <2>3, <2>4, <1>1, <1>4, <1>5, Zenon DEF HeapType
<1>8. /\ ~Allocating(t) /\ ~Allocating(t)' /\ BlockOf(t)' = blk
      /\ \A u \in HeapThreads : u # t =>
            (Allocating(u)' <=> Allocating(u)) /\ BlockOf(u)' = BlockOf(u)
  BY <1>1, <1>6 DEF Allocating, BlockOf
<1>9. \A r \in 1 .. HeapSlabs : hbits'[r] \subseteq hbits[r]
  BY <1>5
<1>10. \A u \in HeapThreads : Allocating(u) /\ hloc[u].s = b.s => BlockOf(u) \cap blk = {}
  BY <1>2 DEF HeapInv, Disjoint
<1>11. \A c \in hheld : c # b /\ c.s = b.s => Block(c.i, c.n) \cap blk = {}
  BY <1>2 DEF HeapInv, Disjoint
<1> HIDE DEF blk
<1>12. ASSUME NEW u \in HeapThreads
       PROVE  ThreadOK(u)'
  <2>1. CASE u = t
    <3>1. BlockOf(t)' \cap hbits'[hloc'[t].s] = {}
      BY <1>5, <1>6, <1>8
    <3>2. hloc'[t].s \in DOMAIN hlock' /\ hloc'[t].n # 0 /\ hlock'[hloc'[t].s] = t
      BY <1>2, <1>4, <1>6
    <3> QED BY <2>1, <3>1, <3>2, <1>6, <1>8 DEF ThreadOK
  <2>2. CASE u # t
    <3>1. ThreadOK(u)
      BY DEF HeapInv
    <3>2. hpc[u] \notin {"idle", "free"} => hloc[u].s \in DOMAIN hlock
      BY <3>1 DEF ThreadOK
    <3>3. hpc[u] \in {"marked", "unmarked"} => hloc[u].s # b.s
      BY <3>1, <1>0, <1>1 DEF ThreadOK
    <3>4. hpc[u] \in {"marked", "unmarked"} => hlock'[hloc[u].s] = u
      BY <3>1, <3>2, <3>3, <1>4, Zenon DEF ThreadOK
    <3>5. Allocating(u) => BlockOf(u) \subseteq hbits'[hloc[u].s]
      <4> SUFFICES ASSUME Allocating(u) PROVE BlockOf(u) \subseteq hbits'[hloc[u].s]
        OBVIOUS
      <4>1. BlockOf(u) \subseteq hbits[hloc[u].s] /\ hloc[u].s \in DOMAIN hlock
        BY <3>1, <3>2 DEF ThreadOK, Allocating
      <4>2. CASE hloc[u].s = b.s
        BY <4>1, <4>2, <1>5, <1>10
      <4>3. CASE hloc[u].s # b.s
        BY <4>1, <4>3, <1>0, <1>5
      <4> QED BY <4>2, <4>3
    <3>6. hpc[u] = "unmarked" => BlockOf(u) \cap hbits'[hloc[u].s] = {}
      BY <3>1, <3>2, <1>0, <1>9 DEF ThreadOK
    <3>7. \A c : c \in hheld /\ c.by = u => c \in hheld'
      BY <2>2, <1>1, <1>2
    <3>8. /\ DOMAIN hlock' = DOMAIN hlock /\ hpc'[u] = hpc[u] /\ hloc'[u] = hloc[u]
          /\ (Allocating(u)' <=> Allocating(u)) /\ BlockOf(u)' = BlockOf(u)
      BY <2>2, <1>4, <1>6, <1>8
    <3> QED BY <3>1, <3>4, <3>5, <3>6, <3>7, <3>8 DEF ThreadOK
  <2> QED BY <2>1, <2>2
<1>13. HeldOK'
  <2> SUFFICES ASSUME NEW c \in hheld'
               PROVE  /\ c.s \in DOMAIN hlock' /\ c.n # 0 /\ c.by \in HeapThreads
                      /\ Block(c.i, c.n) \subseteq hbits'[c.s]
    BY DEF HeldOK
  <2>1. /\ c \in hheld /\ c # b /\ c.s \in DOMAIN hlock /\ c.n # 0 /\ c.by \in HeapThreads
        /\ Block(c.i, c.n) \subseteq hbits[c.s]
    BY <1>1 DEF HeapInv, HeldOK
  <2>2. CASE c.s = b.s
    BY <2>1, <2>2, <1>4, <1>5, <1>11
  <2>3. CASE c.s # b.s
    BY <2>1, <2>3, <1>0, <1>4, <1>5, Zenon
  <2> QED BY <2>2, <2>3
<1>14. FreshSlabs'
  BY <1>4, <1>9 DEF HeapInv, FreshSlabs
<1>15. BlocksKept'
  BY <1>1, Zenon DEF HeapInv, BlocksKept
<1>16. Disjoint'
  <2>1. \A u \in HeapThreads : Allocating(u)' =>
           Allocating(u) /\ hloc'[u] = hloc[u] /\ BlockOf(u)' = BlockOf(u)
    BY <1>6, <1>8
  <2> QED BY <1>1, <2>1, Zenon DEF HeapInv, Disjoint
<1>17. heapFree' = Cardinality(Counted')
  <2> DEFINE X == {b.s} \X blk
  <2>1. \A u \in HeapThreads : (Allocating(u)' <=> Allocating(u))
          /\ (Allocating(u) => hloc'[u] = hloc[u] /\ BlockOf(u)' = BlockOf(u))
    BY <1>6, <1>8
  <2>2. blk \subseteq HeapPiece
    BY <1>2, <1>3 DEF HeapType
  <2>3. Slabs' = Slabs /\ Slabs \subseteq 1 .. HeapSlabs
    BY <1>0, <1>4 DEF Slabs
  <2>4. \A c \in X : c \in Counted' /\ c \notin Counted
    <3> SUFFICES ASSUME NEW c \in X PROVE c \in Counted' /\ c \notin Counted
      OBVIOUS
    <3>1. c[1] = b.s /\ c[2] \in blk /\ c \in Slabs \X HeapPiece
      BY <2>2, <1>2 DEF Slabs
    <3>2. c[2] \notin hbits'[c[1]]
      BY <3>1, <1>5
    <3>3. c \in Counted'
      BY <2>3, <3>1, <3>2 DEF Counted
    <3>4. c[2] \in hbits[c[1]]
      BY <3>1, <1>2
    <3>5. \A u \in HeapThreads : Allocating(u) /\ hloc[u].s = c[1] => c[2] \notin BlockOf(u)
      BY <3>1, <1>10
    <3> QED BY <3>3, <3>4, <3>5 DEF Counted
  <2>5. \A c \in Counted : c \in Counted'
    <3> SUFFICES ASSUME NEW c \in Counted PROVE c \in Counted'
      OBVIOUS
    <3>1. c \in Slabs \X HeapPiece /\ c[1] \in 1 .. HeapSlabs
      BY <2>3, Zenon DEF Counted
    <3>2. c[2] \notin hbits[c[1]] => c[2] \notin hbits'[c[1]]
      BY <3>1, <1>9
    <3> QED BY <2>1, <2>3, <3>1, <3>2 DEF Counted
  <2>6. \A c \in Counted' : c \in Counted \/ c \in X
    <3> SUFFICES ASSUME NEW c \in Counted', c \notin Counted PROVE c \in X
      OBVIOUS
    <3>1. c \in Slabs \X HeapPiece /\ c[1] \in 1 .. HeapSlabs
      BY <2>3 DEF Counted
    <3>2. c[2] \in hbits[c[1]] /\ c[2] \notin hbits'[c[1]]
      BY <2>1, <2>3, <3>1 DEF Counted
    <3>3. c[1] = b.s /\ c[2] \in blk /\ c = <<c[1], c[2]>>
      BY <3>1, <3>2, <1>5
    <3> QED BY <3>3
  <2>7. IsFiniteSet(X) /\ Cardinality(X) = b.n
    BY <1>2, BlockFacts, Zenon DEF blk
  <2>8. IsFiniteSet(Counted)
    BY CountedFinite
  <2> HIDE DEF X
  <2>9. Counted' = Counted \union X /\ Counted \cap X = {}
    BY <2>4, <2>5, <2>6
  <2>10. Cardinality(Counted') = Cardinality(Counted) + b.n
    BY <2>7, <2>8, <2>9, CardinalityAdd
  <2> QED BY <2>10, <1>1 DEF HeapInv
<1> QED BY <1>7, <1>12, <1>13, <1>14, <1>15, <1>16, <1>17 DEF HeapInv

(* At first there is no slab.                                             *)
LEMMA HeapInitInv == HeapInit => HeapType /\ HeapInv
<1> SUFFICES ASSUME HeapInit PROVE HeapType /\ HeapInv
  OBVIOUS
<1>0. HeapPieces \in Nat /\ HeapPieces # 0 /\ HeapSlabs \in Nat /\ HeapSlabs # 0 /\ 1 \in 1 .. HeapSlabs
  BY HeapAssumption
<1>1. HeapIdle \in [s : Nat, n : Nat, i : Nat, word : Int, old : HeapBlocks]
  BY DEF HeapIdle, Locals, HeapBlocks, NoBlock
<1>2. hlock \in Seq(Nat) /\ Len(hlock) = 1 /\ DOMAIN hlock = {1}
  BY DEF HeapInit, HeapNil
<1>3. HeapType
  BY <1>0, <1>1, <1>2 DEF HeapInit, HeapType, HeapPcs, Zeroed
<1>4. \A t \in HeapThreads : hpc[t] = "idle" /\ ~Allocating(t)
  BY DEF HeapInit, Allocating
<1>5. \A t \in HeapThreads : ThreadOK(t)
  BY <1>4 DEF ThreadOK
<1>6. HeldOK /\ Disjoint /\ FreshSlabs /\ BlocksKept
  BY <1>4 DEF HeapInit, HeldOK, Disjoint, FreshSlabs, BlocksKept
<1>7. heapFree = Cardinality(Counted)
  <2>1. hbits[1] = {} /\ heapFree = HeapPieces
    BY <1>0 DEF HeapInit
  <2>2. \A c \in {1} \X HeapPiece : c \in Counted
    BY <1>2, <2>1, Zenon DEF Counted, Slabs
  <2>3. Counted \subseteq {1} \X HeapPiece
    BY <1>2 DEF Counted, Slabs
  <2>4. Counted = {1} \X HeapPiece
    BY <2>2, <2>3
  <2>5. HeapPiece = Block(0, HeapPieces)
    BY <1>0 DEF HeapPiece, Block
  <2> QED BY <2>1, <2>4, <2>5, <1>0, BlockFacts, Zenon
<1> QED BY <1>3, <1>5, <1>6, <1>7 DEF HeapInv

(* Blocks kept apart and counted mean that the heap's account is right.   *)
LEMMA HeapInvImplies == HeapType /\ HeapInv => HeapAccounted
<1> SUFFICES ASSUME HeapType, HeapInv PROVE HeapAccounted
  OBVIOUS
<1>1. BlocksKept
  BY DEF HeapInv
<1>2. HeapFreeExact
  <2> SUFFICES ASSUME \A t \in HeapThreads : hpc[t] = "idle"
               PROVE  Counted = {c \in Slabs \X HeapPiece : c[2] \notin hbits[c[1]]}
    BY DEF HeapInv, HeapFreeExact
  <2>1. \A t \in HeapThreads : ~Allocating(t)
    BY DEF Allocating
  <2> QED BY <2>1 DEF Counted
<1> QED BY <1>1, <1>2 DEF HeapAccounted

(* A block is its owner's from malloc() to free(): no other overlaps it   *)
(* and it keeps what was written to it; and when no call is under way the *)
(* count of free pieces is exact: for every number of threads, slabs and  *)
(* pieces (mem/heap.cpp).                                                 *)
THEOREM HeapCorrect == HeapSpec => []HeapAccounted
<1>1. HeapType /\ HeapInv /\ [HeapNext]_heapVars => HeapType' /\ HeapInv'
  <2> SUFFICES ASSUME HeapType, HeapInv, [HeapNext]_heapVars PROVE HeapType' /\ HeapInv'
    OBVIOUS
  <2>1. ASSUME NEW t \in HeapThreads, HeapStep(t)
        PROVE  HeapType' /\ HeapInv'
    BY <2>1, CallStep, SearchStep, ExtendStep, MarkStep, UnlockStep, FillStep, UnmarkStep,
       FreeFillStep DEF HeapStep
  <2>2. CASE UNCHANGED heapVars
    <3> USE <2>2 DEF heapVars
    <3>1. HeapType'
      BY DEF HeapType
    <3>2. \A t \in HeapThreads : (Allocating(t)' <=> Allocating(t)) /\ BlockOf(t)' = BlockOf(t)
      BY DEF Allocating, BlockOf
    <3>3. (\A t \in HeapThreads : ThreadOK(t))' /\ Disjoint'
      <4>1. ASSUME NEW t \in HeapThreads PROVE ThreadOK(t)'
        <5>1. ThreadOK(t)
          BY SMTT(30) DEF HeapInv
        <5> QED BY <3>2, <5>1 DEF ThreadOK
      <4>2. Disjoint'
        BY <3>2 DEF HeapInv, Disjoint
      <4> QED BY <4>1, <4>2
    <3>4. HeldOK' /\ FreshSlabs' /\ BlocksKept'
      BY DEF HeapInv, HeldOK, FreshSlabs, BlocksKept
    <3>5. Counted' = Counted
      BY <3>2 DEF Counted, Slabs
    <3> QED BY <3>1, <3>3, <3>4, <3>5 DEF HeapInv
  <2> QED BY <2>1, <2>2 DEF HeapNext
<1> QED BY <1>1, HeapInitInv, HeapInvImplies, PTL DEF HeapSpec

=============================================================================
