----------------------------- MODULE SmartArray -----------------------------
(* The array of counted objects that the kernel keeps its devices, drivers, *)
(* buses, modules and mounts in (src/include/aex/mem/smartarray.hpp), with   *)
(* SmartPointer's counting (smartptr.hpp).  m_lock covers get(), addRef()    *)
(* and remove(), each a step; what a SmartPointer does to a counter outside  *)
(* of them, as in the assignment of next(), is a step for every change.      *)
EXTENDS Integers, Sequences, FiniteSets

CONSTANTS ArThreads, ArObjects, ArNull

ASSUME ArAssumption == ArNull \notin ArObjects /\ IsFiniteSet(ArThreads)

VARIABLES arElements,  \* m_elements: the object of a slot, ArNull after die()
          arRefs,      \* object |-> refs of its sp_shared
          arState,     \* object |-> new, live, deleted
          arPc,
          arPtr,       \* thread |-> the SmartPointer that get() gave it
          arCurrent,   \* thread |-> m_current of its iterator
          arIndex,     \* thread |-> m_index, from 1
          arStayed,    \* thread |-> what was in the array ever since getIterator()
          arSeen       \* thread |-> what its iterator has returned

arVars == <<arElements, arRefs, arState, arPc, arPtr, arCurrent, arIndex, arStayed, arSeen>>

ArGoto(t, from, to) == arPc[t] = from /\ arPc' = [arPc EXCEPT ![t] = to]

Increment(o) == arRefs' = [arRefs EXCEPT ![o] = @ + 1]

\* decrement(), and the delete of whoever takes the counter to 0.
Decrement(o) ==
    /\ arRefs' = [arRefs EXCEPT ![o] = @ - 1]
    /\ arState' = IF arRefs[o] = 1 THEN [arState EXCEPT ![o] = "deleted"] ELSE arState

----------------------------------------------------------------------------
(* Under m_lock.                                                            *)

FreeSlots == {i \in DOMAIN arElements : arElements[i] = ArNull \/ arRefs[arElements[i]] = 0}

\* addRef() with findSlotOrMakeSlot(): the first free slot, or one more.
AddRef(t, o) ==
    /\ arPc[t] = "idle" /\ arState[o] = "new"
    /\ \/ \E i \in FreeSlots : (\A j \in FreeSlots : i <= j) /\ arElements' = [arElements EXCEPT ![i] = o]
       \/ FreeSlots = {} /\ arElements' = Append(arElements, o)
    /\ arRefs' = [arRefs EXCEPT ![o] = 1]
    /\ arState' = [arState EXCEPT ![o] = "live"]
    /\ UNCHANGED <<arPc, arPtr, arCurrent, arIndex, arStayed, arSeen>>

\* remove(): die(), which gives the array's reference up.
Remove(t, i) ==
    /\ arPc[t] = "idle" /\ i \in DOMAIN arElements /\ arElements[i] # ArNull
    /\ Decrement(arElements[i])
    /\ arElements' = [arElements EXCEPT ![i] = ArNull]
    /\ arStayed' = [u \in ArThreads |-> arStayed[u] \ {arElements[i]}]
    /\ UNCHANGED <<arPc, arPtr, arCurrent, arIndex, arSeen>>

\* get(), kept in a SmartPointer.
Get(t, i) ==
    /\ ArGoto(t, "idle", "hold")
    /\ i \in DOMAIN arElements /\ arElements[i] # ArNull
    /\ arPtr' = [arPtr EXCEPT ![t] = arElements[i]]
    /\ Increment(arElements[i])
    /\ UNCHANGED <<arElements, arState, arCurrent, arIndex, arStayed, arSeen>>

\* ~SmartPointer() of it.
DropHeld(t) ==
    /\ ArGoto(t, "hold", "idle")
    /\ Decrement(arPtr[t])
    /\ arPtr' = [arPtr EXCEPT ![t] = ArNull]
    /\ UNCHANGED <<arElements, arCurrent, arIndex, arStayed, arSeen>>

----------------------------------------------------------------------------
(* Iterator.                                                                *)

GetIterator(t) ==
    /\ ArGoto(t, "idle", "next")
    /\ arIndex' = [arIndex EXCEPT ![t] = 1]
    /\ arStayed' = [arStayed EXCEPT ![t] = {arElements[i] : i \in DOMAIN arElements} \ {ArNull}]
    /\ arSeen' = [arSeen EXCEPT ![t] = {}]
    /\ UNCHANGED <<arElements, arRefs, arState, arPtr, arCurrent>>

\* Mutant: an empty slot is taken for the end.
PastHoleEnds(t) == ArGoto(t, "next", "end") /\ UNCHANGED arIndex
\* next() goes on over an empty slot.
PastHole(t) == arPc[t] = "next" /\ arIndex' = [arIndex EXCEPT ![t] = @ + 1] /\ UNCHANGED arPc

NextHole(t) ==
    /\ PastHole(t)
    /\ arIndex[t] \in DOMAIN arElements /\ arElements[arIndex[t]] = ArNull
    /\ UNCHANGED <<arElements, arRefs, arState, arPtr, arCurrent, arStayed, arSeen>>

NextGet(t) ==
    /\ ArGoto(t, "next", "assign")
    /\ arIndex[t] \in DOMAIN arElements /\ arElements[arIndex[t]] # ArNull
    /\ arPtr' = [arPtr EXCEPT ![t] = arElements[arIndex[t]]]
    /\ Increment(arElements[arIndex[t]])
    /\ UNCHANGED <<arElements, arState, arCurrent, arIndex, arStayed, arSeen>>

NextEnds(t) ==
    /\ ArGoto(t, "next", "end")
    /\ arIndex[t] > Len(arElements)
    /\ UNCHANGED <<arElements, arRefs, arState, arPtr, arCurrent, arIndex, arStayed, arSeen>>

ReleaseCurrent(t) ==
    IF arCurrent[t] = ArNull THEN UNCHANGED <<arRefs, arState>> ELSE Decrement(arCurrent[t])

\* m_current = ptr: operator=() gives up what it had ...
AssignRelease(t) ==
    /\ ArGoto(t, "assign", "take")
    /\ ReleaseCurrent(t)
    /\ arCurrent' = [arCurrent EXCEPT ![t] = ArNull]
    /\ UNCHANGED <<arElements, arPtr, arIndex, arStayed, arSeen>>

CountCurrent(t) == Increment(arPtr[t])

\* ... and counts what it gets.
AssignTake(t) ==
    /\ ArGoto(t, "take", "drop")
    /\ CountCurrent(t)
    /\ arCurrent' = [arCurrent EXCEPT ![t] = arPtr[t]]
    /\ arIndex' = [arIndex EXCEPT ![t] = @ + 1]
    /\ UNCHANGED <<arElements, arState, arPtr, arStayed, arSeen>>

\* ~SmartPointer() of next()'s own pointer, and next() returns.
NextReturns(t) ==
    /\ ArGoto(t, "drop", "next")
    /\ Decrement(arPtr[t])
    /\ arPtr' = [arPtr EXCEPT ![t] = ArNull]
    /\ arSeen' = [arSeen EXCEPT ![t] = @ \cup {arPtr[t]}]
    /\ UNCHANGED <<arElements, arCurrent, arIndex, arStayed>>

\* The loop is over, or left, and the iterator goes.
Leave(t) ==
    /\ ArGoto(t, "next", "idle") \/ ArGoto(t, "end", "idle")
    /\ ReleaseCurrent(t)
    /\ arCurrent' = [arCurrent EXCEPT ![t] = ArNull]
    /\ arStayed' = [arStayed EXCEPT ![t] = {}] /\ arSeen' = [arSeen EXCEPT ![t] = {}]
    /\ UNCHANGED <<arElements, arPtr, arIndex>>

ArInit ==
    /\ arElements = <<>>
    /\ arRefs = [o \in ArObjects |-> 0] /\ arState = [o \in ArObjects |-> "new"]
    /\ arPc = [t \in ArThreads |-> "idle"]
    /\ arPtr = [t \in ArThreads |-> ArNull] /\ arCurrent = [t \in ArThreads |-> ArNull]
    /\ arIndex = [t \in ArThreads |-> 1]
    /\ arStayed = [t \in ArThreads |-> {}] /\ arSeen = [t \in ArThreads |-> {}]

ArStep(t) ==
    \/ \E o \in ArObjects : AddRef(t, o)
    \/ \E i \in DOMAIN arElements : Remove(t, i) \/ Get(t, i)
    \/ GetIterator(t) \/ NextHole(t) \/ NextGet(t) \/ NextEnds(t)
    \/ AssignRelease(t) \/ AssignTake(t) \/ NextReturns(t) \/ DropHeld(t) \/ Leave(t)

ArNext == \E t \in ArThreads : ArStep(t)
ArSpec == ArInit /\ [][ArNext]_arVars

----------------------------------------------------------------------------
(* Properties.                                                             *)

\* The pointers to an object: those of slots, of get() and of iterators.
SlotsOf(o) == {i \in DOMAIN arElements : arElements[i] = o}
PtrsOf(o) == {t \in ArThreads : arPtr[t] = o}
CurrentsOf(o) == {t \in ArThreads : arCurrent[t] = o}
Held(o) == SlotsOf(o) # {} \/ PtrsOf(o) # {} \/ CurrentsOf(o) # {}

\* What a slot, a pointer or an iterator refers to has not been deleted, though
\* the object may be removed from the array at any time (smartarray.hpp:57-69,
\* smartptr.hpp:86-100).
HeldIsLive == \A o \in ArObjects : Held(o) => arState[o] = "live"

\* An object that nothing refers to any more has been deleted.
DeletedWithLast == \A o \in ArObjects : arState[o] = "live" => Held(o)

\* A loop that runs to its end has met every object that was in the array from
\* the loop's beginning on, in spite of objects that come and go, and none of
\* them twice (smartarray.hpp:20-38).
IterationComplete ==
    \A t \in ArThreads : /\ arPc[t] = "end" => arStayed[t] \subseteq arSeen[t]
                         /\ arPc[t] = "drop" => arPtr[t] \notin arSeen[t]
=============================================================================
