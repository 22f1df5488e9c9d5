-------------------------- MODULE SmartArrayProofs --------------------------
(* Proofs, for any finite set of threads and any set of objects, of the     *)
(* properties of SmartArray.                                                *)
EXTENDS SmartArray, FiniteSetTheorems, TLAPS

Pointers == ArObjects \cup {ArNull}

(* The variables have the types of the fields they stand for.              *)
ArTypeOK ==
    /\ arElements \in Seq(Pointers)
    /\ arRefs \in [ArObjects -> Int]
    /\ arState \in [ArObjects -> {"new", "live", "deleted"}]
    /\ arPc \in [ArThreads -> {"idle", "hold", "next", "assign", "take", "drop", "end"}]
    /\ arPtr \in [ArThreads -> Pointers] /\ arCurrent \in [ArThreads -> Pointers]
    /\ arIndex \in [ArThreads -> Nat \ {0}]
    /\ arStayed \in [ArThreads -> SUBSET ArObjects]
    /\ arSeen \in [ArThreads -> SUBSET ArObjects]

(* Where a thread is determines which of its pointers are set.             *)
PlaceInv ==
    \A t \in ArThreads :
        /\ arPtr[t] # ArNull <=> arPc[t] \in {"hold", "assign", "take", "drop"}
        /\ arPc[t] \in {"idle", "hold", "take"} => arCurrent[t] = ArNull
        /\ arPc[t] \in {"idle", "hold"} => arStayed[t] = {} /\ arSeen[t] = {}

(* A counter is the number of pointers to its object, and an object lives  *)
(* as long as there is one.                                                *)
Counted(o) ==
    /\ arRefs[o] = Cardinality(SlotsOf(o)) + Cardinality(PtrsOf(o)) + Cardinality(CurrentsOf(o))
    /\ arState[o] = "live" <=> Held(o)
CountInv == \A o \in ArObjects : Counted(o)

OneSlot ==
    \A i, j \in DOMAIN arElements : arElements[i] = arElements[j] /\ i # j => arElements[i] = ArNull

Taking(t) == arPc[t] \in {"assign", "take"}

(* What an iterator has returned is behind it.                             *)
SeenInv ==
    \A t \in ArThreads :
        /\ \A o \in arSeen[t] \cup arStayed[t] : arState[o] # "new"
        /\ arPtr[t] \notin arSeen[t]
        /\ \A i \in DOMAIN arElements :
              /\ arElements[i] \in arSeen[t] => i < arIndex[t]
              /\ arElements[i] = arPtr[t] /\ arPc[t] = "drop" => i < arIndex[t]
              /\ arElements[i] = arPtr[t] /\ Taking(t) => i <= arIndex[t]

(* What stays and has not been returned is ahead of it.                    *)
Covered(t, o) ==
    \/ o \in arSeen[t] \/ o = arPtr[t]
    \/ /\ arPc[t] # "end"
       /\ \E i \in DOMAIN arElements :
             arElements[i] = o /\ i >= arIndex[t] /\ (Taking(t) => i > arIndex[t])
CoverInv == \A t \in ArThreads : \A o \in arStayed[t] : Covered(t, o)

ArInv == ArTypeOK /\ PlaceInv /\ CountInv /\ OneSlot /\ SeenInv /\ CoverInv

----------------------------------------------------------------------------
(* The pointers to an object are finitely many.                            *)
LEMMA HoldersFinite ==
    ASSUME ArTypeOK, NEW o
    PROVE  /\ IsFiniteSet(SlotsOf(o)) /\ Cardinality(SlotsOf(o)) \in Nat
           /\ IsFiniteSet(PtrsOf(o)) /\ Cardinality(PtrsOf(o)) \in Nat
           /\ IsFiniteSet(CurrentsOf(o)) /\ Cardinality(CurrentsOf(o)) \in Nat
           /\ Cardinality(SlotsOf(o)) = 0 <=> SlotsOf(o) = {}
           /\ Cardinality(PtrsOf(o)) = 0 <=> PtrsOf(o) = {}
           /\ Cardinality(CurrentsOf(o)) = 0 <=> CurrentsOf(o) = {}
<1>1. DOMAIN arElements = 1..Len(arElements) /\ Len(arElements) \in Nat
  BY DEF ArTypeOK
<1>2. IsFiniteSet(1..Len(arElements))
  BY <1>1, FS_Interval
<1>3. SlotsOf(o) \in SUBSET (1..Len(arElements))
  BY <1>1 DEF SlotsOf
<1>4. PtrsOf(o) \in SUBSET ArThreads /\ CurrentsOf(o) \in SUBSET ArThreads
  BY DEF PtrsOf, CurrentsOf
<1>5. IsFiniteSet(SlotsOf(o)) /\ IsFiniteSet(PtrsOf(o)) /\ IsFiniteSet(CurrentsOf(o))
  BY <1>2, <1>3, <1>4, FS_Subset, ArAssumption
<1> QED
  BY <1>5, FS_CardinalityType, FS_EmptySet

(* A set that gains or loses an element.                                   *)
LEMMA SizeChanges ==
    ASSUME NEW S, NEW x, IsFiniteSet(S)
    PROVE  /\ x \notin S => Cardinality(S \cup {x}) = Cardinality(S) + 1
           /\ x \in S => Cardinality(S \ {x}) = Cardinality(S) - 1
BY FS_AddElement, FS_RemoveElement

(* Nothing changes for an object that no pointer gains or loses.           *)
LEMMA CountedStays ==
    ASSUME NEW o \in ArObjects, Counted(o),
           arRefs'[o] = arRefs[o], arState'[o] = arState[o],
           SlotsOf(o)' = SlotsOf(o), PtrsOf(o)' = PtrsOf(o), CurrentsOf(o)' = CurrentsOf(o)
    PROVE  Counted(o)'
BY DEF Counted, Held

(* One more pointer and one more reference.                                *)
LEMMA CountedGains ==
    ASSUME ArTypeOK, NEW o \in ArObjects, Counted(o), NEW x,
           arRefs'[o] = arRefs[o] + 1, arState'[o] = "live",
           \/ /\ x \notin SlotsOf(o) /\ SlotsOf(o)' = SlotsOf(o) \cup {x}
              /\ PtrsOf(o)' = PtrsOf(o) /\ CurrentsOf(o)' = CurrentsOf(o)
           \/ /\ x \notin PtrsOf(o) /\ PtrsOf(o)' = PtrsOf(o) \cup {x}
              /\ SlotsOf(o)' = SlotsOf(o) /\ CurrentsOf(o)' = CurrentsOf(o)
           \/ /\ x \notin CurrentsOf(o) /\ CurrentsOf(o)' = CurrentsOf(o) \cup {x}
              /\ SlotsOf(o)' = SlotsOf(o) /\ PtrsOf(o)' = PtrsOf(o)
    PROVE  Counted(o)'
<1>1. Held(o)'
  BY DEF Held
<1>2. Cardinality(SlotsOf(o))' + Cardinality(PtrsOf(o))' + Cardinality(CurrentsOf(o))'
        = Cardinality(SlotsOf(o)) + Cardinality(PtrsOf(o)) + Cardinality(CurrentsOf(o)) + 1
  BY HoldersFinite, SizeChanges, SMTT(30)
<1> QED
  BY <1>1, <1>2 DEF Counted

(* One pointer and one reference fewer; the last one deletes the object.   *)
LEMMA CountedLoses ==
    ASSUME ArTypeOK, NEW o \in ArObjects, Counted(o), NEW x,
           arRefs'[o] = arRefs[o] - 1,
           arState'[o] = IF arRefs[o] = 1 THEN "deleted" ELSE arState[o],
           \/ /\ x \in SlotsOf(o) /\ SlotsOf(o)' = SlotsOf(o) \ {x}
              /\ PtrsOf(o)' = PtrsOf(o) /\ CurrentsOf(o)' = CurrentsOf(o)
           \/ /\ x \in PtrsOf(o) /\ PtrsOf(o)' = PtrsOf(o) \ {x}
              /\ SlotsOf(o)' = SlotsOf(o) /\ CurrentsOf(o)' = CurrentsOf(o)
           \/ /\ x \in CurrentsOf(o) /\ CurrentsOf(o)' = CurrentsOf(o) \ {x}
              /\ SlotsOf(o)' = SlotsOf(o) /\ PtrsOf(o)' = PtrsOf(o)
    PROVE  Counted(o)'
<1> DEFINE a == Cardinality(SlotsOf(o))
           b == Cardinality(PtrsOf(o))
           c == Cardinality(CurrentsOf(o))
<1>1. a \in Nat /\ b \in Nat /\ c \in Nat
  BY HoldersFinite
<1>2. a' + b' + c' = (a + b + c) - 1
  BY <1>1, HoldersFinite, SizeChanges
<1>3. arState[o] = "live" /\ arRefs[o] = a + b + c
  BY DEF Counted, Held
<1>4. a' \in Nat /\ b' \in Nat /\ c' \in Nat
  <2>1. IsFiniteSet(SlotsOf(o))' /\ IsFiniteSet(PtrsOf(o))' /\ IsFiniteSet(CurrentsOf(o))'
    BY HoldersFinite, FS_RemoveElement
  <2> QED
    BY <2>1, FS_CardinalityType
<1>5. Held(o)' <=> a' + b' + c' # 0
  <2>1. IsFiniteSet(SlotsOf(o))' /\ IsFiniteSet(PtrsOf(o))' /\ IsFiniteSet(CurrentsOf(o))'
    BY HoldersFinite, FS_RemoveElement
  <2>2. /\ a' = 0 <=> SlotsOf(o)' = {}
        /\ b' = 0 <=> PtrsOf(o)' = {}
        /\ c' = 0 <=> CurrentsOf(o)' = {}
    BY <2>1, FS_EmptySet
  <2> HIDE DEF a, b, c
  <2> QED
    BY <1>4, <2>2 DEF Held
<1>6. (a + b + c) - 1 = a' + b' + c' /\ (a + b + c = 1 <=> a' + b' + c' = 0)
  BY <1>1, <1>2, <1>4
<1>7. arRefs'[o] = a' + b' + c'
  BY <1>3, <1>6, Zenon
<1>8. arRefs[o] = 1 <=> a' + b' + c' = 0
  BY <1>3, <1>6, Zenon
<1>9. arState'[o] = "live" <=> a' + b' + c' # 0
  BY <1>3, <1>8
<1>10. arState'[o] = "live" <=> Held(o)'
  BY <1>5, <1>9, Zenon
<1> QED
  BY <1>7, <1>10, Zenon DEF Counted

(* What the counting does to the types.                                    *)
LEMMA CountingTyped ==
    ASSUME ArTypeOK, NEW o \in ArObjects
    PROVE  /\ Increment(o) => arRefs' \in [ArObjects -> Int]
           /\ Decrement(o) => /\ arRefs' \in [ArObjects -> Int]
                              /\ arState' \in [ArObjects -> {"new", "live", "deleted"}]
<1>1. [arRefs EXCEPT ![o] = @ + 1] \in [ArObjects -> Int]
  BY DEF ArTypeOK
<1>2. [arRefs EXCEPT ![o] = @ - 1] \in [ArObjects -> Int]
  BY DEF ArTypeOK
<1>3. [arState EXCEPT ![o] = "deleted"] \in [ArObjects -> {"new", "live", "deleted"}]
  BY DEF ArTypeOK
<1> QED
  BY <1>1, <1>2, <1>3, Zenon DEF Increment, Decrement, ArTypeOK

(* Replacing a slot changes neither the type nor the length of m_elements. *)
LEMMA SlotTyped ==
    ASSUME NEW S, NEW e \in Seq(S), NEW i \in DOMAIN e, NEW x \in S
    PROVE  [e EXCEPT ![i] = x] \in Seq(S) /\ DOMAIN [e EXCEPT ![i] = x] = DOMAIN e
OBVIOUS

(* An object with a pointer to it has a positive counter.                  *)
LEMMA HeldCounts ==
    ASSUME ArTypeOK, NEW o \in ArObjects, Counted(o), Held(o)
    PROVE  arRefs[o] > 0 /\ arState[o] = "live"
<1> DEFINE a == Cardinality(SlotsOf(o))
           b == Cardinality(PtrsOf(o))
           c == Cardinality(CurrentsOf(o))
<1>1. a \in Nat /\ b \in Nat /\ c \in Nat
  BY HoldersFinite
<1>2. a # 0 \/ b # 0 \/ c # 0
  BY HoldersFinite DEF Held
<1>3. arRefs[o] = a + b + c /\ arState[o] = "live"
  BY DEF Counted
<1> HIDE DEF a, b, c
<1> QED
  BY <1>1, <1>2, <1>3

(* addRef() puts the object into a slot that was empty or is new.          *)
LEMMA AddRefFills ==
    ASSUME ArTypeOK, CountInv, NEW t \in ArThreads, NEW o \in ArObjects, AddRef(t, o)
    PROVE  \E i \in Nat \ {0} :
              /\ arElements' \in Seq(Pointers)
              /\ DOMAIN arElements' = DOMAIN arElements \cup {i}
              /\ arElements'[i] = o
              /\ \A j \in DOMAIN arElements : j # i => arElements'[j] = arElements[j]
              /\ i \in DOMAIN arElements => arElements[i] = ArNull
<1>1. CASE \E i \in FreeSlots : arElements' = [arElements EXCEPT ![i] = o]
  <2>1. PICK i \in FreeSlots : arElements' = [arElements EXCEPT ![i] = o]
    BY <1>1, Zenon
  <2>2. i \in DOMAIN arElements /\ i \in Nat \ {0} /\ arElements[i] \in Pointers
    BY DEF FreeSlots, ArTypeOK
  <2>3. ASSUME arElements[i] # ArNull PROVE FALSE
    <3>1. arElements[i] \in ArObjects /\ arRefs[arElements[i]] = 0
      BY <2>2, <2>3 DEF FreeSlots, Pointers
    <3>2. Held(arElements[i])
      BY <2>2 DEF Held, SlotsOf
    <3>3. arRefs[arElements[i]] > 0
      BY <3>1, <3>2, HeldCounts DEF CountInv
    <3> QED
      BY <3>1, <3>3
  <2>4. arElements' \in Seq(Pointers) /\ DOMAIN arElements' = DOMAIN arElements \cup {i}
    <3>1. arElements \in Seq(Pointers) /\ o \in Pointers
      BY DEF ArTypeOK, Pointers
    <3> QED
      BY <2>1, <2>2, <3>1, SlotTyped, Zenon
  <2>5. arElements'[i] = o /\ \A j \in DOMAIN arElements : j # i => arElements'[j] = arElements[j]
    BY <2>1, <2>2 DEF ArTypeOK
  <2> QED
    BY <2>2, <2>3, <2>4, <2>5
<1>2. CASE arElements' = Append(arElements, o)
  <2> DEFINE i == Len(arElements) + 1
  <2>1. i \in Nat \ {0} /\ DOMAIN arElements = 1..Len(arElements) /\ Len(arElements) \in Nat
    BY DEF ArTypeOK
  <2>2. arElements' \in Seq(Pointers) /\ Len(arElements') = i
    BY <1>2 DEF ArTypeOK, Pointers
  <2>3. DOMAIN arElements' = DOMAIN arElements \cup {i}
    BY <2>1, <2>2
  <2>4. arElements'[i] = o /\ \A j \in DOMAIN arElements : j # i => arElements'[j] = arElements[j]
    BY <1>2, <2>1 DEF ArTypeOK
  <2>5. i \notin DOMAIN arElements
    BY <2>1
  <2> QED
    BY <2>1, <2>2, <2>3, <2>4, <2>5
<1> QED
  BY <1>1, <1>2, Zenon DEF AddRef

(* The types.                                                              *)
LEMMA TypeStep ==
    ASSUME ArInv, NEW t \in ArThreads, ArStep(t)
    PROVE  ArTypeOK'
<1> USE DEF ArInv, ArTypeOK
<1>1. ASSUME NEW o \in ArObjects, AddRef(t, o) PROVE ArTypeOK'
  <2>1. arElements' \in Seq(Pointers)
    BY <1>1, AddRefFills, Zenon
  <2> QED
    BY <1>1, <2>1 DEF AddRef
<1>2. ASSUME NEW i \in DOMAIN arElements, Remove(t, i) PROVE ArTypeOK'
  <2>1. arElements' \in Seq(Pointers)
    BY <1>2 DEF Remove, Pointers
  <2>2. arRefs' \in [ArObjects -> Int] /\ arState' \in [ArObjects -> {"new", "live", "deleted"}]
    <3>1. arElements[i] \in ArObjects
      BY <1>2 DEF Remove, Pointers
    <3> QED
      BY <1>2, <3>1, CountingTyped DEF Remove
  <2>3. arStayed' \in [ArThreads -> SUBSET ArObjects]
    BY <1>2 DEF Remove
  <2> QED
    BY <1>2, <2>1, <2>2, <2>3 DEF Remove
<1>3. ASSUME NEW i \in DOMAIN arElements, Get(t, i) PROVE ArTypeOK'
  <2>1. arElements[i] \in ArObjects
    BY <1>3 DEF Get, Pointers
  <2>2. arRefs' \in [ArObjects -> Int]
    BY <1>3, <2>1, CountingTyped DEF Get
  <2> QED
    BY <1>3, <2>1, <2>2 DEF Get, ArGoto, Pointers
<1>4. CASE GetIterator(t)
  <2>1. {arElements[i] : i \in DOMAIN arElements} \ {ArNull} \in SUBSET ArObjects
    BY DEF Pointers
  <2> QED
    BY <1>4, <2>1 DEF GetIterator, ArGoto
<1>5. CASE NextHole(t)
  BY <1>5 DEF NextHole, PastHole
<1>6. CASE NextGet(t)
  <2>1. arElements[arIndex[t]] \in ArObjects
    BY <1>6 DEF NextGet, Pointers
  <2>2. arRefs' \in [ArObjects -> Int]
    BY <1>6, <2>1, CountingTyped DEF NextGet
  <2> QED
    BY <1>6, <2>1, <2>2 DEF NextGet, ArGoto, Pointers
<1>7. CASE NextEnds(t)
  BY <1>7 DEF NextEnds, ArGoto
<1>8. CASE AssignRelease(t)
  <2>1. arRefs' \in [ArObjects -> Int] /\ arState' \in [ArObjects -> {"new", "live", "deleted"}]
    BY <1>8, CountingTyped DEF AssignRelease, ReleaseCurrent, Pointers
  <2> QED
    BY <1>8, <2>1 DEF AssignRelease, ArGoto, Pointers
<1>9. CASE AssignTake(t)
  <2>1. arPtr[t] \in ArObjects
    BY <1>9 DEF AssignTake, ArGoto, PlaceInv, Pointers
  <2>2. arRefs' \in [ArObjects -> Int]
    BY <1>9, <2>1, CountingTyped DEF AssignTake, CountCurrent
  <2> QED
    BY <1>9, <2>2 DEF AssignTake, ArGoto
<1>10. CASE NextReturns(t)
  <2>1. arPtr[t] \in ArObjects
    BY <1>10 DEF NextReturns, ArGoto, PlaceInv, Pointers
  <2>2. arRefs' \in [ArObjects -> Int] /\ arState' \in [ArObjects -> {"new", "live", "deleted"}]
    BY <1>10, <2>1, CountingTyped DEF NextReturns
  <2> QED
    BY <1>10, <2>1, <2>2 DEF NextReturns, ArGoto, Pointers
<1>11. CASE DropHeld(t)
  <2>1. arPtr[t] \in ArObjects
    BY <1>11 DEF DropHeld, ArGoto, PlaceInv, Pointers
  <2>2. arRefs' \in [ArObjects -> Int] /\ arState' \in [ArObjects -> {"new", "live", "deleted"}]
    BY <1>11, <2>1, CountingTyped DEF DropHeld
  <2> QED
    BY <1>11, <2>2 DEF DropHeld, ArGoto, Pointers
<1>12. CASE Leave(t)
  <2>1. arRefs' \in [ArObjects -> Int] /\ arState' \in [ArObjects -> {"new", "live", "deleted"}]
    BY <1>12, CountingTyped DEF Leave, ReleaseCurrent, Pointers
  <2> QED
    BY <1>12, <2>1, Zenon DEF Leave, ArGoto, Pointers
<1> QED
  BY <1>1, <1>2, <1>3, <1>4, <1>5, <1>6, <1>7, <1>8, <1>9, <1>10, <1>11, <1>12 DEF ArStep

(* Where a thread is, and its pointers.                                    *)
LEMMA PlaceStep ==
    ASSUME ArInv, NEW t \in ArThreads, ArStep(t)
    PROVE  PlaceInv'
<1> USE DEF ArInv, ArTypeOK, PlaceInv, ArGoto
<1>1. ASSUME NEW o \in ArObjects, AddRef(t, o) PROVE PlaceInv'
  BY <1>1 DEF AddRef
<1>2. ASSUME NEW i \in DOMAIN arElements, Remove(t, i) PROVE PlaceInv'
  BY <1>2 DEF Remove
<1>3. ASSUME NEW i \in DOMAIN arElements, Get(t, i) PROVE PlaceInv'
  BY <1>3 DEF Get
<1>4. CASE GetIterator(t)
  BY <1>4 DEF GetIterator
<1>5. CASE NextHole(t)
  BY <1>5 DEF NextHole, PastHole
<1>6. CASE NextGet(t)
  BY <1>6 DEF NextGet
<1>7. CASE NextEnds(t)
  BY <1>7 DEF NextEnds
<1>8. CASE AssignRelease(t)
  BY <1>8 DEF AssignRelease
<1>9. CASE AssignTake(t)
  BY <1>9 DEF AssignTake
<1>10. CASE NextReturns(t)
  BY <1>10 DEF NextReturns
<1>11. CASE DropHeld(t)
  BY <1>11 DEF DropHeld
<1>12. CASE Leave(t)
  BY <1>12 DEF Leave
<1> QED
  BY <1>1, <1>2, <1>3, <1>4, <1>5, <1>6, <1>7, <1>8, <1>9, <1>10, <1>11, <1>12 DEF ArStep

(* How the pointers to an object follow a change of one pointer.           *)
LEMMA PointersChange ==
    ASSUME ArTypeOK, NEW o, NEW t \in ArThreads, NEW p
    PROVE  /\ arPtr' = [arPtr EXCEPT ![t] = p]
              => PtrsOf(o)' = IF p = o THEN PtrsOf(o) \cup {t} ELSE PtrsOf(o) \ {t}
           /\ arCurrent' = [arCurrent EXCEPT ![t] = p]
              => CurrentsOf(o)' = IF p = o THEN CurrentsOf(o) \cup {t} ELSE CurrentsOf(o) \ {t}
BY DEF ArTypeOK, PtrsOf, CurrentsOf

(* get(): the array's reference keeps the object alive until it is counted. *)
LEMMA GetCounts ==
    ASSUME ArInv, NEW t \in ArThreads, NEW i \in DOMAIN arElements,
           arElements[i] # ArNull, arPtr[t] = ArNull,
           arPtr' = [arPtr EXCEPT ![t] = arElements[i]], Increment(arElements[i]),
           UNCHANGED <<arElements, arState, arCurrent>>
    PROVE  CountInv'
<1> DEFINE p == arElements[i]
<1>1. p \in ArObjects /\ Held(p)
  BY DEF ArInv, ArTypeOK, Pointers, Held, SlotsOf
<1>2. arState[p] = "live"
  BY <1>1 DEF ArInv, CountInv, Counted
<1>3. SUFFICES ASSUME NEW o \in ArObjects PROVE Counted(o)'
  BY DEF CountInv
<1>4. SlotsOf(o)' = SlotsOf(o) /\ CurrentsOf(o)' = CurrentsOf(o) /\ Counted(o) /\ ArTypeOK
  BY DEF SlotsOf, CurrentsOf, ArInv, CountInv
<1>5. PtrsOf(o)' = IF p = o THEN PtrsOf(o) \cup {t} ELSE PtrsOf(o) \ {t}
  BY PointersChange, Zenon DEF ArInv
<1>6. t \notin PtrsOf(o)
  BY ArAssumption DEF PtrsOf
<1>7. CASE o = p
  <2>1. arRefs'[o] = arRefs[o] + 1 /\ arState'[o] = "live"
    BY <1>2, <1>7 DEF Increment, ArInv, ArTypeOK
  <2> QED
    BY <1>4, <1>5, <1>6, <1>7, <2>1, CountedGains
<1>8. CASE o # p
  <2>1. arRefs'[o] = arRefs[o] /\ arState'[o] = arState[o]
    BY <1>8 DEF Increment, ArInv, ArTypeOK
  <2>2. PtrsOf(o)' = PtrsOf(o)
    BY <1>5, <1>6, <1>8
  <2> QED
    BY <1>4, <2>1, <2>2, CountedStays
<1> QED
  BY <1>7, <1>8

(* ~SmartPointer() of a pointer of get().                                  *)
LEMMA PtrDropCounts ==
    ASSUME ArInv, NEW t \in ArThreads, arPtr[t] # ArNull,
           arPtr' = [arPtr EXCEPT ![t] = ArNull], Decrement(arPtr[t]),
           UNCHANGED <<arElements, arCurrent>>
    PROVE  CountInv'
<1>1. arPtr[t] \in ArObjects
  BY DEF ArInv, ArTypeOK, Pointers
<1>2. SUFFICES ASSUME NEW o \in ArObjects PROVE Counted(o)'
  BY DEF CountInv
<1>3. SlotsOf(o)' = SlotsOf(o) /\ CurrentsOf(o)' = CurrentsOf(o) /\ Counted(o) /\ ArTypeOK
  BY DEF SlotsOf, CurrentsOf, ArInv, CountInv
<1>4. PtrsOf(o)' = PtrsOf(o) \ {t}
  BY PointersChange, ArAssumption, ZenonT(30) DEF ArInv
<1>5. CASE o = arPtr[t]
  <2>1. t \in PtrsOf(o)
    BY <1>5 DEF PtrsOf
  <2>2. /\ arRefs'[o] = arRefs[o] - 1
        /\ arState'[o] = IF arRefs[o] = 1 THEN "deleted" ELSE arState[o]
    BY <1>5 DEF Decrement, ArInv, ArTypeOK
  <2> QED
    BY <1>3, <1>4, <2>1, <2>2, CountedLoses
<1>6. CASE o # arPtr[t]
  <2>1. arRefs'[o] = arRefs[o] /\ arState'[o] = arState[o]
    BY <1>6 DEF Decrement, ArInv, ArTypeOK
  <2>2. PtrsOf(o)' = PtrsOf(o)
    BY <1>4, <1>6 DEF PtrsOf
  <2> QED
    BY <1>3, <2>1, <2>2, CountedStays
<1> QED
  BY <1>5, <1>6

(* m_current gives up what it refers to, if anything.                      *)
LEMMA CurrentDropCounts ==
    ASSUME ArInv, NEW t \in ArThreads,
           arCurrent' = [arCurrent EXCEPT ![t] = ArNull], ReleaseCurrent(t),
           UNCHANGED <<arElements, arPtr>>
    PROVE  CountInv'
<1>1. SUFFICES ASSUME NEW o \in ArObjects PROVE Counted(o)'
  BY DEF CountInv
<1>2. SlotsOf(o)' = SlotsOf(o) /\ PtrsOf(o)' = PtrsOf(o) /\ Counted(o) /\ ArTypeOK
  BY DEF SlotsOf, PtrsOf, ArInv, CountInv
<1>3. CurrentsOf(o)' = CurrentsOf(o) \ {t}
  BY PointersChange, ArAssumption, Zenon DEF ArInv
<1>4. CASE o = arCurrent[t]
  <2>1. t \in CurrentsOf(o) /\ arCurrent[t] # ArNull
    BY <1>4, ArAssumption DEF CurrentsOf
  <2>2. /\ arRefs'[o] = arRefs[o] - 1
        /\ arState'[o] = IF arRefs[o] = 1 THEN "deleted" ELSE arState[o]
    BY <1>4, <2>1 DEF ReleaseCurrent, Decrement, ArInv, ArTypeOK
  <2> QED
    BY <1>2, <1>3, <2>1, <2>2, CountedLoses
<1>5. CASE o # arCurrent[t]
  <2>1. arRefs'[o] = arRefs[o] /\ arState'[o] = arState[o]
    BY <1>5 DEF ReleaseCurrent, Decrement, ArInv, ArTypeOK
  <2>2. CurrentsOf(o)' = CurrentsOf(o)
    BY <1>3, <1>5 DEF CurrentsOf
  <2> QED
    BY <1>2, <2>1, <2>2, CountedStays
<1> QED
  BY <1>4, <1>5

(* The counters.                                                           *)
LEMMA CountStep ==
    ASSUME ArInv, NEW t \in ArThreads, ArStep(t)
    PROVE  CountInv'
<1>1. ASSUME NEW p \in ArObjects, AddRef(t, p) PROVE CountInv'
  <2>1. PICK i \in Nat \ {0} :
           /\ DOMAIN arElements' = DOMAIN arElements \cup {i}
           /\ arElements'[i] = p
           /\ \A j \in DOMAIN arElements : j # i => arElements'[j] = arElements[j]
           /\ i \in DOMAIN arElements => arElements[i] = ArNull
    BY <1>1, AddRefFills, Zenon DEF ArInv
  <2>2. SUFFICES ASSUME NEW o \in ArObjects PROVE Counted(o)'
    BY DEF CountInv
  <2>3. PtrsOf(o)' = PtrsOf(o) /\ CurrentsOf(o)' = CurrentsOf(o) /\ Counted(o) /\ ArTypeOK
    BY <1>1 DEF PtrsOf, CurrentsOf, ArInv, CountInv, AddRef
  <2>4. i \notin SlotsOf(o)
    BY <2>1, ArAssumption DEF SlotsOf
  <2>5. CASE o = p
    <3>1. SlotsOf(o)' = SlotsOf(o) \cup {i}
      BY <2>1, <2>5 DEF SlotsOf
    <3>2. ~Held(o)
      BY <1>1, <2>3, <2>5 DEF AddRef, Counted
    <3>3. arRefs[o] = 0
      BY <2>3, <3>2, FS_EmptySet DEF Counted, Held
    <3>4. arRefs'[o] = arRefs[o] + 1 /\ arState'[o] = "live"
      BY <1>1, <2>3, <2>5, <3>3 DEF AddRef, ArTypeOK
    <3> QED
      BY <2>3, <2>4, <3>1, <3>4, CountedGains
  <2>6. CASE o # p
    <3>1. SlotsOf(o)' = SlotsOf(o)
      BY <2>1, <2>4, <2>6 DEF SlotsOf
    <3>2. arRefs'[o] = arRefs[o] /\ arState'[o] = arState[o]
      BY <1>1, <2>3, <2>6 DEF AddRef, ArTypeOK
    <3> QED
      BY <2>3, <3>1, <3>2, CountedStays
  <2> QED
    BY <2>5, <2>6
<1>2. ASSUME NEW i \in DOMAIN arElements, Remove(t, i) PROVE CountInv'
  <2>1. SUFFICES ASSUME NEW o \in ArObjects PROVE Counted(o)'
    BY DEF CountInv
  <2>2. PtrsOf(o)' = PtrsOf(o) /\ CurrentsOf(o)' = CurrentsOf(o) /\ Counted(o) /\ ArTypeOK
    BY <1>2 DEF PtrsOf, CurrentsOf, ArInv, CountInv, Remove
  <2>3. SlotsOf(o)' = SlotsOf(o) \ {i}
    BY <1>2, <2>2, ArAssumption DEF SlotsOf, Remove, ArTypeOK
  <2>4. CASE o = arElements[i]
    <3>1. i \in SlotsOf(o)
      BY <2>4 DEF SlotsOf
    <3>2. /\ arRefs'[o] = arRefs[o] - 1
          /\ arState'[o] = IF arRefs[o] = 1 THEN "deleted" ELSE arState[o]
      BY <1>2, <2>2, <2>4 DEF Remove, Decrement, ArTypeOK
    <3> QED
      BY <2>2, <2>3, <3>1, <3>2, CountedLoses
  <2>5. CASE o # arElements[i]
    <3>1. arRefs'[o] = arRefs[o] /\ arState'[o] = arState[o]
      BY <1>2, <2>2, <2>5 DEF Remove, Decrement, ArTypeOK
    <3>2. SlotsOf(o)' = SlotsOf(o)
      BY <2>3, <2>5 DEF SlotsOf
    <3> QED
      BY <2>2, <3>1, <3>2, CountedStays
  <2> QED
    BY <2>4, <2>5
<1>3. ASSUME NEW i \in DOMAIN arElements, Get(t, i) PROVE CountInv'
  <2>1. arPtr[t] = ArNull
    BY <1>3 DEF Get, ArGoto, ArInv, PlaceInv
  <2> QED
    BY <1>3, <2>1, GetCounts, Zenon DEF Get
<1>4. ASSUME UNCHANGED <<arElements, arRefs, arState, arPtr, arCurrent>> PROVE CountInv'
  BY <1>4 DEF ArInv, CountInv, Counted, Held, SlotsOf, PtrsOf, CurrentsOf
<1>5. CASE GetIterator(t) \/ NextHole(t) \/ NextEnds(t)
  BY <1>4, <1>5 DEF GetIterator, NextHole, NextEnds
<1>6. CASE NextGet(t)
  <2>1. arPtr[t] = ArNull
    BY <1>6 DEF NextGet, ArGoto, ArInv, PlaceInv
  <2> QED
    BY <1>6, <2>1, GetCounts, Zenon DEF NextGet
<1>7. CASE AssignRelease(t) \/ Leave(t)
  BY <1>7, CurrentDropCounts DEF AssignRelease, Leave
<1>8. CASE AssignTake(t)
  <2>1. arPtr[t] \in ArObjects /\ arCurrent[t] = ArNull
    BY <1>8 DEF AssignTake, ArGoto, ArInv, PlaceInv, ArTypeOK, Pointers
  <2>2. SUFFICES ASSUME NEW o \in ArObjects PROVE Counted(o)'
    BY DEF CountInv
  <2>3. SlotsOf(o)' = SlotsOf(o) /\ PtrsOf(o)' = PtrsOf(o) /\ Counted(o) /\ ArTypeOK
    BY <1>8 DEF SlotsOf, PtrsOf, ArInv, CountInv, AssignTake
  <2>4. CurrentsOf(o)' = IF arPtr[t] = o THEN CurrentsOf(o) \cup {t} ELSE CurrentsOf(o) \ {t}
    BY <1>8, PointersChange, Zenon DEF ArInv, AssignTake
  <2>5. t \notin CurrentsOf(o)
    BY <2>1, ArAssumption DEF CurrentsOf
  <2>6. CASE o = arPtr[t]
    <3>1. Held(o)
      BY <2>6 DEF Held, PtrsOf
    <3>2. arRefs'[o] = arRefs[o] + 1 /\ arState'[o] = "live"
      BY <1>8, <2>3, <2>6, <3>1 DEF AssignTake, CountCurrent, Increment, ArTypeOK, Counted
    <3> QED
      BY <2>3, <2>4, <2>5, <2>6, <3>2, CountedGains
  <2>7. CASE o # arPtr[t]
    <3>1. arRefs'[o] = arRefs[o] /\ arState'[o] = arState[o]
      BY <1>8, <2>3, <2>7 DEF AssignTake, CountCurrent, Increment, ArTypeOK
    <3>2. CurrentsOf(o)' = CurrentsOf(o)
      BY <2>4, <2>5, <2>7
    <3> QED
      BY <2>3, <3>1, <3>2, CountedStays
  <2> QED
    BY <2>6, <2>7
<1>9. CASE NextReturns(t) \/ DropHeld(t)
  <2>1. arPtr[t] # ArNull
    BY <1>9 DEF NextReturns, DropHeld, ArGoto, ArInv, PlaceInv
  <2> QED
    BY <1>9, <2>1, PtrDropCounts DEF NextReturns, DropHeld
<1> QED
  BY <1>1, <1>2, <1>3, <1>5, <1>6, <1>7, <1>8, <1>9 DEF ArStep

(* An object in the array, or behind a pointer, is not new, and none gets   *)
(* new again.                                                               *)
LEMMA NotNew ==
    ASSUME ArInv
    PROVE  /\ \A i \in DOMAIN arElements : arElements[i] # ArNull => arState[arElements[i]] # "new"
           /\ \A t \in ArThreads : arPtr[t] # ArNull => arState[arPtr[t]] # "new"
<1>1. \A o \in ArObjects : Held(o) => arState[o] # "new"
  BY DEF ArInv, CountInv, Counted
<1>2. \A i \in DOMAIN arElements : arElements[i] # ArNull => arElements[i] \in ArObjects /\ Held(arElements[i])
  BY DEF ArInv, ArTypeOK, Pointers, Held, SlotsOf
<1>3. \A t \in ArThreads : arPtr[t] # ArNull => arPtr[t] \in ArObjects /\ Held(arPtr[t])
  BY DEF ArInv, ArTypeOK, Pointers, Held, PtrsOf
<1> QED
  BY <1>1, <1>2, <1>3

(* No step makes an object new again that was once in an array.            *)
LEMMA NeverNewAgain ==
    ASSUME ArInv, NEW t \in ArThreads, ArStep(t), NEW o \in ArObjects, arState[o] # "new"
    PROVE  arState'[o] # "new"
<1>1. ASSUME NEW p, Decrement(p) PROVE arState'[o] # "new"
  BY <1>1 DEF Decrement, ArInv, ArTypeOK
<1>2. ASSUME NEW p \in ArObjects, AddRef(t, p) PROVE arState'[o] # "new"
  BY <1>2 DEF AddRef, ArInv, ArTypeOK
<1>3. ASSUME NEW i \in DOMAIN arElements, Remove(t, i) \/ Get(t, i) PROVE arState'[o] # "new"
  BY <1>1, <1>3 DEF Remove, Get
<1>4. CASE GetIterator(t) \/ NextHole(t) \/ NextGet(t) \/ NextEnds(t) \/ AssignTake(t)
  BY <1>4 DEF GetIterator, NextHole, NextGet, NextEnds, AssignTake
<1>5. CASE AssignRelease(t) \/ Leave(t)
  BY <1>1, <1>5 DEF AssignRelease, Leave, ReleaseCurrent
<1>6. CASE NextReturns(t) \/ DropHeld(t)
  BY <1>1, <1>6 DEF NextReturns, DropHeld
<1> QED
  BY <1>2, <1>3, <1>4, <1>5, <1>6 DEF ArStep

(* An object is in one slot at most.                                       *)
LEMMA OneSlotStep ==
    ASSUME ArInv, NEW t \in ArThreads, ArStep(t)
    PROVE  OneSlot'
<1>1. ASSUME NEW p \in ArObjects, AddRef(t, p) PROVE OneSlot'
  <2>1. PICK i \in Nat \ {0} :
           /\ DOMAIN arElements' = DOMAIN arElements \cup {i}
           /\ arElements'[i] = p
           /\ \A j \in DOMAIN arElements : j # i => arElements'[j] = arElements[j]
    BY <1>1, AddRefFills, Zenon DEF ArInv
  <2>2. \A j \in DOMAIN arElements : arElements[j] # p
    BY <1>1, NotNew, ArAssumption DEF AddRef
  <2> QED
    BY <2>1, <2>2 DEF ArInv, OneSlot
<1>2. ASSUME NEW i \in DOMAIN arElements, Remove(t, i) PROVE OneSlot'
  BY <1>2 DEF Remove, ArInv, ArTypeOK, OneSlot
<1>3. ASSUME NEW i \in DOMAIN arElements, Get(t, i) PROVE OneSlot'
  BY <1>3 DEF Get, ArInv, OneSlot
<1>4. CASE \/ GetIterator(t) \/ NextHole(t) \/ NextGet(t) \/ NextEnds(t)
           \/ AssignRelease(t) \/ AssignTake(t) \/ NextReturns(t) \/ DropHeld(t) \/ Leave(t)
  BY <1>4 DEF GetIterator, NextHole, NextGet, NextEnds, AssignRelease, AssignTake, NextReturns,
              DropHeld, Leave, ArInv, OneSlot
<1> QED
  BY <1>1, <1>2, <1>3, <1>4 DEF ArStep

(* What an iterator has returned.                                          *)
LEMMA SeenStep ==
    ASSUME ArInv, NEW t \in ArThreads, ArStep(t)
    PROVE  SeenInv'
<1> USE DEF ArInv
<1>1. ASSUME NEW p \in ArObjects, AddRef(t, p) PROVE SeenInv'
  <2>1. PICK i \in Nat \ {0} :
           /\ DOMAIN arElements' = DOMAIN arElements \cup {i}
           /\ arElements'[i] = p
           /\ \A j \in DOMAIN arElements : j # i => arElements'[j] = arElements[j]
    BY <1>1, AddRefFills, Zenon
  <2>2. \A u \in ArThreads : p \notin arSeen[u] /\ p # arPtr[u]
    BY <1>1, NotNew, ArAssumption, SMTT(30) DEF AddRef, SeenInv
  <2>3. \A u \in ArThreads : \A o \in arSeen[u] \cup arStayed[u] : arState'[o] # "new"
    BY <1>1, NeverNewAgain DEF SeenInv, ArTypeOK, ArStep
  <2>4. UNCHANGED <<arPc, arPtr, arIndex, arStayed, arSeen>>
    BY <1>1 DEF AddRef
  <2> QED
    BY <2>1, <2>2, <2>3, <2>4 DEF SeenInv, Taking
<1>2. ASSUME NEW i \in DOMAIN arElements, Remove(t, i) PROVE SeenInv'
  <2>1. \A u \in ArThreads : \A o \in arSeen[u] \cup arStayed[u] : arState'[o] # "new"
    BY <1>2, NeverNewAgain, SMTT(30) DEF SeenInv, ArTypeOK, ArStep
  <2>2. /\ DOMAIN arElements' = DOMAIN arElements /\ arElements'[i] = ArNull
        /\ \A j \in DOMAIN arElements : j # i => arElements'[j] = arElements[j]
    BY <1>2 DEF Remove, ArTypeOK
  <2>3. /\ UNCHANGED <<arPc, arPtr, arIndex, arSeen>>
        /\ \A u \in ArThreads : arStayed'[u] \subseteq arStayed[u]
    BY <1>2 DEF Remove
  <2>4. \A u \in ArThreads : ArNull \notin arSeen[u]
    BY ArAssumption DEF ArTypeOK
  <2>5. \A u \in ArThreads : Taking(u) \/ arPc[u] = "drop" => arPtr[u] # ArNull
    BY DEF PlaceInv, Taking
  <2>6. \A u \in ArThreads : Taking(u)' <=> Taking(u)
    BY <2>3 DEF Taking
  <2>7. \A u \in ArThreads : \A j \in DOMAIN arElements' :
              /\ arElements'[j] \in arSeen'[u] => j < arIndex'[u]
              /\ arElements'[j] = arPtr'[u] /\ arPc'[u] = "drop" => j < arIndex'[u]
              /\ arElements'[j] = arPtr'[u] /\ Taking(u)' => j <= arIndex'[u]
    BY <2>2, <2>3, <2>4, <2>5, <2>6 DEF SeenInv
  <2>8. \A u \in ArThreads : /\ arPtr'[u] \notin arSeen'[u]
                             /\ \A o \in arSeen'[u] \cup arStayed'[u] : arState'[o] # "new"
    BY <2>1, <2>3 DEF SeenInv
  <2> QED
    BY <2>7, <2>8, SMTT(30) DEF SeenInv
<1>3. ASSUME NEW i \in DOMAIN arElements, Get(t, i) PROVE SeenInv'
  BY <1>3 DEF Get, ArGoto, ArTypeOK, PlaceInv, SeenInv, Taking
<1>4. CASE GetIterator(t)
  <2>1. \A o \in {arElements[i] : i \in DOMAIN arElements} \ {ArNull} : arState[o] # "new"
    BY NotNew
  <2>2. arPtr[t] = ArNull
    BY <1>4 DEF GetIterator, ArGoto, PlaceInv
  <2> QED
    BY <1>4, <2>1, <2>2 DEF GetIterator, ArGoto, ArTypeOK, SeenInv, Taking
<1>5. CASE NextHole(t)
  BY <1>5 DEF NextHole, PastHole, ArTypeOK, SeenInv, Taking
<1>6. CASE NextGet(t)
  <2>1. arPtr'[t] \notin arSeen[t]
    BY <1>6 DEF NextGet, ArTypeOK, SeenInv
  <2>2. \A i \in DOMAIN arElements : arElements[i] = arPtr'[t] => i = arIndex[t]
    BY <1>6 DEF NextGet, ArTypeOK, OneSlot
  <2> QED
    BY <1>6, <2>1, <2>2 DEF NextGet, ArGoto, ArTypeOK, SeenInv, Taking
<1>7. CASE NextEnds(t)
  BY <1>7 DEF NextEnds, ArGoto, ArTypeOK, SeenInv, Taking
<1>8. CASE AssignRelease(t)
  <2>1. \A u \in ArThreads : \A o \in arSeen[u] \cup arStayed[u] : arState'[o] # "new"
    BY <1>8, NeverNewAgain DEF SeenInv, ArTypeOK, ArStep
  <2> QED
    BY <1>8, <2>1, SMTT(30) DEF AssignRelease, ArGoto, ArTypeOK, SeenInv, Taking
<1>9. CASE AssignTake(t)
  BY <1>9 DEF AssignTake, ArGoto, ArTypeOK, SeenInv, Taking
<1>10. CASE NextReturns(t)
  <2>1. arPtr[t] \in ArObjects /\ arState[arPtr[t]] # "new"
    BY <1>10, NotNew DEF NextReturns, ArGoto, PlaceInv, ArTypeOK, Pointers
  <2>2. \A u \in ArThreads : \A o \in arSeen'[u] \cup arStayed[u] : arState[o] # "new" /\ o \in ArObjects
    BY <1>10, <2>1, SMTT(30) DEF NextReturns, SeenInv, ArTypeOK
  <2>3. \A u \in ArThreads : \A o \in arSeen'[u] \cup arStayed'[u] : arState'[o] # "new"
    BY <1>10, <2>2, NeverNewAgain, Zenon DEF NextReturns, ArStep
  <2>4. ArNull \notin arSeen'[t]
    BY <1>10, <2>1, ArAssumption DEF NextReturns, ArTypeOK
  <2>5. \A u \in ArThreads : arPtr'[u] \notin arSeen'[u]
    BY <1>10, <2>4 DEF NextReturns, ArTypeOK, SeenInv
  <2>6. \A i \in DOMAIN arElements : arElements[i] \in arSeen'[t] => i < arIndex[t]
    BY <1>10 DEF NextReturns, ArGoto, ArTypeOK, SeenInv
  <2>7. \A u \in ArThreads : \A i \in DOMAIN arElements' :
              /\ arElements'[i] \in arSeen'[u] => i < arIndex'[u]
              /\ arElements'[i] = arPtr'[u] /\ arPc'[u] = "drop" => i < arIndex'[u]
              /\ arElements'[i] = arPtr'[u] /\ Taking(u)' => i <= arIndex'[u]
    BY <1>10, <2>6 DEF NextReturns, ArGoto, ArTypeOK, SeenInv, Taking
  <2> QED
    BY <2>3, <2>5, <2>7 DEF SeenInv
<1>11. CASE DropHeld(t)
  <2>1. \A u \in ArThreads : \A o \in arSeen[u] \cup arStayed[u] : arState'[o] # "new"
    BY <1>11, NeverNewAgain DEF SeenInv, ArTypeOK, ArStep
  <2> QED
    BY <1>11, <2>1, ArAssumption, SMTT(30) DEF DropHeld, ArGoto, ArTypeOK, SeenInv, Taking
<1>12. CASE Leave(t)
  <2>1. \A u \in ArThreads : \A o \in arSeen[u] \cup arStayed[u] : arState'[o] # "new"
    BY <1>12, NeverNewAgain DEF SeenInv, ArTypeOK, ArStep
  <2> QED
    BY <1>12, <2>1, SMTT(30) DEF Leave, ArGoto, ArTypeOK, SeenInv, Taking
<1> QED
  BY <1>1, <1>2, <1>3, <1>4, <1>5, <1>6, <1>7, <1>8, <1>9, <1>10, <1>11, <1>12 DEF ArStep

(* What an iterator has still to return.                                   *)
LEMMA CoverStep ==
    ASSUME ArInv, NEW t \in ArThreads, ArStep(t)
    PROVE  CoverInv'
<1> USE DEF ArInv
<1>1. ASSUME NEW p \in ArObjects, AddRef(t, p) PROVE CoverInv'
  <2>1. PICK i \in Nat \ {0} :
           /\ DOMAIN arElements' = DOMAIN arElements \cup {i}
           /\ \A j \in DOMAIN arElements : j # i => arElements'[j] = arElements[j]
           /\ i \in DOMAIN arElements => arElements[i] = ArNull
    BY <1>1, AddRefFills, Zenon
  <2>2. UNCHANGED <<arPc, arPtr, arIndex, arStayed, arSeen>>
    BY <1>1 DEF AddRef
  <2>3. \A o \in ArObjects : \A j \in DOMAIN arElements :
           arElements[j] = o => j \in DOMAIN arElements' /\ arElements'[j] = o
    BY <2>1, ArAssumption
  <2> QED
    BY <2>2, <2>3 DEF CoverInv, Covered, Taking, ArTypeOK
<1>2. ASSUME NEW i \in DOMAIN arElements, Remove(t, i) PROVE CoverInv'
  <2>1. UNCHANGED <<arPc, arPtr, arIndex, arSeen>>
    BY <1>2 DEF Remove
  <2>2. \A o \in ArObjects : \A j \in DOMAIN arElements :
           arElements[j] = o /\ o # arElements[i] => j \in DOMAIN arElements' /\ arElements'[j] = o
    BY <1>2 DEF Remove, ArTypeOK
  <2>3. \A u \in ArThreads : \A o \in arStayed'[u] :
           o \in arStayed[u] /\ o # arElements[i] /\ o \in ArObjects
    BY <1>2 DEF Remove, ArTypeOK
  <2> QED
    BY <2>1, <2>2, <2>3 DEF CoverInv, Covered, Taking
<1>3. ASSUME NEW i \in DOMAIN arElements, Get(t, i) PROVE CoverInv'
  BY <1>3 DEF Get, ArGoto, ArTypeOK, PlaceInv, CoverInv, Covered, Taking
<1>4. CASE GetIterator(t)
  <2>1. ASSUME NEW o \in {arElements[i] : i \in DOMAIN arElements} \ {ArNull} PROVE Covered(t, o)'
    BY <1>4, <2>1 DEF GetIterator, ArGoto, ArTypeOK, Covered, Taking
  <2>2. ASSUME NEW u \in ArThreads, u # t, NEW o \in arStayed[u] PROVE Covered(u, o)'
    BY <1>4, <2>2 DEF GetIterator, ArGoto, ArTypeOK, CoverInv, Covered, Taking
  <2> QED
    BY <1>4, <2>1, <2>2 DEF GetIterator, ArTypeOK, CoverInv
<1>5. CASE NextHole(t)
  <2>1. ASSUME NEW o \in arStayed[t] PROVE Covered(t, o)'
    <3>1. o # arElements[arIndex[t]]
      BY <1>5, ArAssumption DEF NextHole, ArTypeOK
    <3> QED
      BY <1>5, <3>1 DEF NextHole, PastHole, ArTypeOK, CoverInv, Covered, Taking
  <2>2. ASSUME NEW u \in ArThreads, u # t, NEW o \in arStayed[u] PROVE Covered(u, o)'
    BY <1>5, <2>2 DEF NextHole, PastHole, ArTypeOK, CoverInv, Covered, Taking
  <2> QED
    BY <1>5, <2>1, <2>2 DEF NextHole, CoverInv
<1>6. CASE NextGet(t)
  <2>1. ASSUME NEW o \in arStayed[t] PROVE Covered(t, o)'
    <3>1. arPtr[t] = ArNull
      BY <1>6 DEF NextGet, ArGoto, PlaceInv
    <3>2. o # ArNull
      BY ArAssumption DEF ArTypeOK
    <3> QED
      BY <1>6, <3>1, <3>2 DEF NextGet, ArGoto, ArTypeOK, CoverInv, Covered, Taking
  <2>2. ASSUME NEW u \in ArThreads, u # t, NEW o \in arStayed[u] PROVE Covered(u, o)'
    BY <1>6, <2>2 DEF NextGet, ArGoto, ArTypeOK, CoverInv, Covered, Taking
  <2> QED
    BY <1>6, <2>1, <2>2 DEF NextGet, CoverInv
<1>7. CASE NextEnds(t)
  <2>1. ASSUME NEW o \in arStayed[t] PROVE Covered(t, o)'
    BY <1>7 DEF NextEnds, ArGoto, ArTypeOK, CoverInv, Covered, Taking
  <2>2. ASSUME NEW u \in ArThreads, u # t, NEW o \in arStayed[u] PROVE Covered(u, o)'
    BY <1>7, <2>2 DEF NextEnds, ArGoto, ArTypeOK, CoverInv, Covered, Taking
  <2> QED
    BY <1>7, <2>1, <2>2 DEF NextEnds, CoverInv
<1>8. CASE AssignRelease(t)
  BY <1>8 DEF AssignRelease, ArGoto, ArTypeOK, CoverInv, Covered, Taking
<1>9. CASE AssignTake(t)
  <2>1. ASSUME NEW o \in arStayed[t] PROVE Covered(t, o)'
    BY <1>9 DEF AssignTake, ArGoto, ArTypeOK, CoverInv, Covered, Taking
  <2>2. ASSUME NEW u \in ArThreads, u # t, NEW o \in arStayed[u] PROVE Covered(u, o)'
    BY <1>9, <2>2 DEF AssignTake, ArGoto, ArTypeOK, CoverInv, Covered, Taking
  <2> QED
    BY <1>9, <2>1, <2>2 DEF AssignTake, CoverInv
<1>10. CASE NextReturns(t)
  <2>1. ASSUME NEW o \in arStayed[t] PROVE Covered(t, o)'
    BY <1>10 DEF NextReturns, ArGoto, ArTypeOK, CoverInv, Covered, Taking
  <2>2. ASSUME NEW u \in ArThreads, u # t, NEW o \in arStayed[u] PROVE Covered(u, o)'
    BY <1>10, <2>2 DEF NextReturns, ArGoto, ArTypeOK, CoverInv, Covered, Taking
  <2> QED
    BY <1>10, <2>1, <2>2 DEF NextReturns, CoverInv
<1>11. CASE DropHeld(t)
  <2>1. arStayed[t] = {}
    BY <1>11 DEF DropHeld, ArGoto, PlaceInv
  <2>2. ASSUME NEW u \in ArThreads, u # t, NEW o \in arStayed[u] PROVE Covered(u, o)'
    BY <1>11, <2>2 DEF DropHeld, ArGoto, ArTypeOK, CoverInv, Covered, Taking
  <2> QED
    BY <1>11, <2>1, <2>2 DEF DropHeld, CoverInv
<1>12. CASE Leave(t)
  <2>1. arStayed'[t] = {}
    BY <1>12 DEF Leave, ArTypeOK
  <2>2. ASSUME NEW u \in ArThreads, u # t, NEW o \in arStayed[u] PROVE Covered(u, o)'
    BY <1>12, <2>2 DEF Leave, ArGoto, ArTypeOK, CoverInv, Covered, Taking
  <2>3. \A u \in ArThreads : u # t => arStayed'[u] = arStayed[u]
    BY <1>12 DEF Leave, ArTypeOK
  <2> QED
    BY <2>1, <2>2, <2>3 DEF CoverInv
<1> QED
  BY <1>1, <1>2, <1>3, <1>4, <1>5, <1>6, <1>7, <1>8, <1>9, <1>10, <1>11, <1>12 DEF ArStep

----------------------------------------------------------------------------
(* The invariant holds in an empty array.                                  *)
LEMMA InitInv == ArInit => ArInv
<1> SUFFICES ASSUME ArInit PROVE ArInv
  OBVIOUS
<1> USE DEF ArInit
<1>1. arElements \in Seq(Pointers) /\ DOMAIN arElements = {}
  OBVIOUS
<1>2. ArTypeOK
  BY <1>1 DEF ArTypeOK, Pointers
<1>3. PlaceInv
  BY DEF PlaceInv
<1>4. CountInv
  <2>1. ASSUME NEW o \in ArObjects PROVE SlotsOf(o) = {} /\ PtrsOf(o) = {} /\ CurrentsOf(o) = {}
    BY <1>1, ArAssumption DEF SlotsOf, PtrsOf, CurrentsOf
  <2>2. Cardinality({}) = 0
    BY FS_EmptySet
  <2>3. ASSUME NEW o \in ArObjects
        PROVE  /\ arRefs[o] = Cardinality(SlotsOf(o)) + Cardinality(PtrsOf(o)) + Cardinality(CurrentsOf(o))
               /\ arState[o] # "live" /\ ~Held(o)
    <3>1. /\ Cardinality(SlotsOf(o)) = 0 /\ Cardinality(PtrsOf(o)) = 0
          /\ Cardinality(CurrentsOf(o)) = 0
      BY <2>1, <2>2, Zenon
    <3>2. arRefs[o] = 0 /\ arState[o] # "live"
      OBVIOUS
    <3>3. ~Held(o)
      BY <2>1 DEF Held
    <3> QED
      BY <3>1, <3>2, <3>3
  <2> QED
    BY <2>3, Zenon DEF CountInv, Counted
<1>5. OneSlot /\ SeenInv
  BY <1>1 DEF OneSlot, SeenInv
<1>6. CoverInv
  BY DEF CoverInv
<1> QED
  BY <1>2, <1>3, <1>4, <1>5, <1>6 DEF ArInv

(* Every step of a thread keeps the invariant.                             *)
LEMMA NextInv == ArInv /\ [ArNext]_arVars => ArInv'
<1> SUFFICES ASSUME ArInv, [ArNext]_arVars PROVE ArInv'
  OBVIOUS
<1>1. CASE ArNext
  <2>1. PICK t \in ArThreads : ArStep(t)
    BY <1>1 DEF ArNext
  <2> QED
    BY <2>1, TypeStep, PlaceStep, CountStep, OneSlotStep, SeenStep, CoverStep DEF ArInv
<1>2. CASE UNCHANGED arVars
  <2>1. ArTypeOK' /\ PlaceInv' /\ OneSlot'
    BY <1>2 DEF arVars, ArInv, ArTypeOK, PlaceInv, OneSlot
  <2>2. CountInv'
    BY <1>2 DEF arVars, ArInv, CountInv, Counted, Held, SlotsOf, PtrsOf, CurrentsOf
  <2>3. SeenInv' /\ CoverInv'
    BY <1>2 DEF arVars, ArInv, SeenInv, CoverInv, Covered, Taking
  <2> QED
    BY <2>1, <2>2, <2>3 DEF ArInv
<1> QED
  BY <1>1, <1>2

(* Every reachable state satisfies the inductive invariant.                *)
THEOREM ArrayInvariant == ArSpec => []ArInv
BY InitInv, NextInv, PTL DEF ArSpec

(* No slot, pointer or iterator refers to an object that was deleted, for  *)
(* any number of threads and of objects (smartarray.hpp:57-69,             *)
(* smartptr.hpp:70-100).                                                   *)
THEOREM HeldObjectsLive == ArSpec => []HeldIsLive
<1>1. ArInv => HeldIsLive
  BY DEF ArInv, CountInv, Counted, HeldIsLive
<1> QED
  BY <1>1, ArrayInvariant, PTL

(* The last reference deletes the object: none is left behind.             *)
THEOREM LastReferenceDeletes == ArSpec => []DeletedWithLast
<1>1. ArInv => DeletedWithLast
  BY DEF ArInv, CountInv, Counted, DeletedWithLast
<1> QED
  BY <1>1, ArrayInvariant, PTL

(* An iteration that ends has returned all that stayed in the array, and   *)
(* nothing twice (smartarray.hpp:20-38).                                   *)
THEOREM IterationsComplete == ArSpec => []IterationComplete
<1>1. ASSUME ArInv PROVE IterationComplete
  <2>1. \A t \in ArThreads : arPc[t] = "end" => arPtr[t] = ArNull
    BY <1>1 DEF ArInv, PlaceInv
  <2>2. \A t \in ArThreads : ArNull \notin arStayed[t]
    BY <1>1, ArAssumption DEF ArInv, ArTypeOK
  <2>3. \A t \in ArThreads : arPc[t] = "end" => arStayed[t] \subseteq arSeen[t]
    BY <1>1, <2>1, <2>2 DEF ArInv, CoverInv, Covered
  <2>4. \A t \in ArThreads : arPc[t] = "drop" => arPtr[t] \notin arSeen[t]
    BY <1>1 DEF ArInv, SeenInv
  <2> QED
    BY <2>3, <2>4 DEF IterationComplete
<1> QED
  BY <1>1, ArrayInvariant, PTL
=============================================================================
