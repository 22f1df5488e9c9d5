--------------------------- MODULE ThreadProofs ---------------------------
(* Proofs of the properties of RWMutex and Fault, for any finite set of    *)
(* threads and any number of CPUs.                                         *)
EXTENDS RWMutex, Fault, FiniteSetTheorems, TLAPS

-----------------------------------------------------------------------------
(* RWMutex: readers, writers, and those that change over.                   *)
(* m_lock is held exactly in the steps between its acquire and release.    *)
InnerLockInv == \A t \in RwThread : at[t] \in {"in", "add", "mid", "done"} <=> rw_m_lock = t

(* Where a thread is determines what it is doing and what it holds.        *)
PlaceInv ==
    \A t \in RwThread :
        /\ at[t] = "idle" <=> op[t] = "none"
        /\ at[t] \in {"want", "in"} => op[t] \notin Releases
        /\ at[t] \in {"want", "in", "assert", "sub"} => held[t] = Needs(op[t])
        /\ at[t] \in {"assert", "sub", "subBusy"} => op[t] \in Releases
        /\ at[t] = "add" => op[t] \in Acquires \union Tries
        /\ at[t] \in {"add", "subBusy"} => held[t] = "none"
        /\ at[t] = "mid" => op[t] \in {"upgrade", "downgrade"}
        /\ at[t] = "mid" <=> held[t] = "both"

(* The test made before addBusy() still holds at the atomic_add.           *)
AdmissionInv == \A t \in RwThread : at[t] = "add" => m_write = 0

BusyInv ==
    \A t \in RwThread :
        busy[t] = IF held[t] # "none" \/ at[t] \in {"add", "subBusy"} THEN 1 ELSE 0

RwIInv ==
    /\ RwTypeOK
    /\ InnerLockInv
    /\ PlaceInv
    /\ AdmissionInv
    /\ BusyInv
    /\ WriterExclusion
    /\ CountersExact

----------------------------------------------------------------------------
(* The readers and the writers are finitely many, and the counters are 0   *)
(* exactly when there are none.                                            *)
LEMMA HoldersFinite ==
    /\ IsFiniteSet(Readers) /\ Cardinality(Readers) \in Nat
    /\ IsFiniteSet(Writers) /\ Cardinality(Writers) \in Nat
    /\ Cardinality(Writers) = 0 <=> Writers = {}
<1>1. Readers \in SUBSET RwThread /\ Writers \in SUBSET RwThread
  BY DEF Readers, Writers
<1>2. IsFiniteSet(Readers) /\ IsFiniteSet(Writers)
  BY <1>1, ThreadAssumption, FS_Subset
<1> QED
  BY <1>2, FS_CardinalityType, FS_EmptySet

(* How the sets of readers and writers, and their sizes, follow a change   *)
(* of what one thread holds.                                               *)
LEMMA HoldersChange ==
    ASSUME RwTypeOK, NEW t \in RwThread, NEW h \in {"none", "read", "write", "both"},
           held' = [held EXCEPT ![t] = h]
    PROVE  /\ Readers' = IF h \in {"read", "both"} THEN Readers \union {t}
                                                   ELSE Readers \ {t}
           /\ Writers' = IF h \in {"write", "both"} THEN Writers \union {t}
                                                    ELSE Writers \ {t}
           /\ Cardinality(Readers') =
                 IF h \in {"read", "both"}
                   THEN IF t \in Readers THEN Cardinality(Readers)
                                         ELSE Cardinality(Readers) + 1
                   ELSE IF t \in Readers THEN Cardinality(Readers) - 1
                                         ELSE Cardinality(Readers)
           /\ Cardinality(Writers') =
                 IF h \in {"write", "both"}
                   THEN IF t \in Writers THEN Cardinality(Writers)
                                         ELSE Cardinality(Writers) + 1
                   ELSE IF t \in Writers THEN Cardinality(Writers) - 1
                                         ELSE Cardinality(Writers)
           /\ Cardinality(Readers') \in Nat
           /\ Cardinality(Writers') \in Nat
<1>1. Readers' = IF h \in {"read", "both"} THEN Readers \union {t} ELSE Readers \ {t}
  BY DEF Readers, RwTypeOK
<1>2. Writers' = IF h \in {"write", "both"} THEN Writers \union {t} ELSE Writers \ {t}
  BY DEF Writers, RwTypeOK
<1>3. /\ Cardinality(Readers \union {t}) =
            IF t \in Readers THEN Cardinality(Readers) ELSE Cardinality(Readers) + 1
      /\ Cardinality(Readers \ {t}) =
            IF t \in Readers THEN Cardinality(Readers) - 1 ELSE Cardinality(Readers)
  BY HoldersFinite, FS_AddElement, FS_RemoveElement, Zenon
<1>4. /\ Cardinality(Writers \union {t}) =
            IF t \in Writers THEN Cardinality(Writers) ELSE Cardinality(Writers) + 1
      /\ Cardinality(Writers \ {t}) =
            IF t \in Writers THEN Cardinality(Writers) - 1 ELSE Cardinality(Writers)
  BY HoldersFinite, FS_AddElement, FS_RemoveElement, Zenon
<1>5. Cardinality(Readers') \in Nat /\ Cardinality(Writers') \in Nat
  BY <1>1, <1>2, HoldersFinite, FS_AddElement, FS_RemoveElement, FS_CardinalityType, Zenon
<1> QED
  BY <1>1, <1>2, <1>3, <1>4, <1>5, HoldersFinite

(* The invariant holds for an unlocked RWMutex.                            *)
LEMMA InitInv == RwInit => RwIInv
<1> SUFFICES ASSUME RwInit PROVE RwIInv
  OBVIOUS
<1>1. Readers = {} /\ Writers = {}
  BY DEF RwInit, Readers, Writers
<1>2. CountersExact /\ WriterExclusion
  BY <1>1, FS_EmptySet DEF RwInit, CountersExact, WriterExclusion
<1> QED
  BY <1>2, ThreadAssumption
  DEF RwInit, RwIInv, RwTypeOK, InnerLockInv, PlaceInv, AdmissionInv, BusyInv

(* The parts of the invariant that a step other than the admission and the *)
(* departure of a thread leaves alone.                                     *)
LEMMA HoldersSame ==
    ASSUME RwIInv, UNCHANGED <<m_read, m_write, held>>
    PROVE  WriterExclusion' /\ CountersExact'
BY DEF RwIInv, WriterExclusion, CountersExact, Readers, Writers

(* An admission, a departure or half of an upgrade or downgrade keeps the  *)
(* counters exact and the writer alone.                                    *)
LEMMA HoldersStep ==
    ASSUME RwIInv, NEW t \in RwThread,
           \/ AdmitReader(t) \/ AdmitWriter(t) \/ Upgrade(t) \/ UpgradeEnd(t)
           \/ Downgrade(t) \/ DowngradeEnd(t) \/ ReleaseRead(t) \/ ReleaseWrite(t)
    PROVE  WriterExclusion' /\ CountersExact' /\ m_read' \in Nat /\ m_write' \in Nat
<1>1. RwTypeOK /\ CountersExact /\ WriterExclusion
  BY DEF RwIInv
<1>2. held[t] \in {"read", "both"} <=> t \in Readers
  BY DEF Readers
<1>3. held[t] \in {"write", "both"} <=> t \in Writers
  BY DEF Writers
<1>4. CASE AdmitReader(t)
  <2>1. held[t] = "none" /\ held' = [held EXCEPT ![t] = "read"]
    BY <1>4 DEF AdmitReader, RwIInv, PlaceInv, Needs, Acquires, Tries, Releases, ReadOps, WriteOps
  <2>2. /\ Writers' = Writers \ {t}
        /\ Cardinality(Readers') = Cardinality(Readers) + 1
        /\ Cardinality(Writers') = Cardinality(Writers)
        /\ Cardinality(Readers') \in Nat /\ Cardinality(Writers') \in Nat
    BY <1>1, <1>2, <1>3, <2>1, HoldersChange, Zenon
  <2> QED
    BY <1>1, <1>4, <2>2 DEF AdmitReader, CountersExact, WriterExclusion
<1>5. CASE AdmitWriter(t)
  <2>1. held[t] = "none" /\ held' = [held EXCEPT ![t] = "write"]
    BY <1>5 DEF AdmitWriter, RwIInv, PlaceInv, Needs, Acquires, Tries, Releases, ReadOps, WriteOps
  <2>2. /\ Writers' = Writers \union {t}
        /\ Cardinality(Readers') = Cardinality(Readers)
        /\ Cardinality(Writers') = Cardinality(Writers) + 1
        /\ Cardinality(Readers') \in Nat /\ Cardinality(Writers') \in Nat
    BY <1>1, <1>2, <1>3, <2>1, HoldersChange, Zenon
  <2>3. Writers = {}
    BY <1>1, <1>5, HoldersFinite
    DEF AdmitWriter, CountersExact, NoWriter, RwIInv, AdmissionInv
  <2> QED
    BY <1>1, <1>5, <2>2, <2>3 DEF AdmitWriter, CountersExact, WriterExclusion
<1>6. CASE Upgrade(t)
  <2>1. held[t] = "read" /\ held' = [held EXCEPT ![t] = "both"]
    BY <1>6 DEF Upgrade, RwIInv, PlaceInv, Needs, Acquires, Tries, Releases, ReadOps, WriteOps
  <2>2. /\ Writers' = Writers \union {t}
        /\ Cardinality(Readers') = Cardinality(Readers)
        /\ Cardinality(Writers') = Cardinality(Writers) + 1
        /\ Cardinality(Readers') \in Nat /\ Cardinality(Writers') \in Nat
    BY <1>1, <1>2, <1>3, <2>1, HoldersChange, Zenon
  <2>3. Writers = {}
    BY <1>1, <1>6, HoldersFinite
    DEF Upgrade, CountersExact, NoWriter, RwIInv, AdmissionInv
  <2> QED
    BY <1>1, <1>6, <2>2, <2>3 DEF Upgrade, CountersExact, WriterExclusion
<1>7. CASE UpgradeEnd(t)
  <2>1. held[t] = "both" /\ held' = [held EXCEPT ![t] = "write"]
    BY <1>7 DEF UpgradeEnd, RwIInv, PlaceInv, Needs, Acquires, Tries, Releases, ReadOps, WriteOps
  <2>2. /\ Writers' = Writers \union {t}
        /\ Cardinality(Readers') = Cardinality(Readers) - 1
        /\ Cardinality(Writers') = Cardinality(Writers)
        /\ Cardinality(Readers') \in Nat /\ Cardinality(Writers') \in Nat
    BY <1>1, <1>2, <1>3, <2>1, HoldersChange, Zenon
  <2> QED
    BY <1>1, <1>7, <2>2, <1>3, <2>1 DEF UpgradeEnd, CountersExact, WriterExclusion
<1>8. CASE Downgrade(t)
  <2>1. held[t] = "write" /\ held' = [held EXCEPT ![t] = "both"]
    BY <1>8 DEF Downgrade, RwIInv, PlaceInv, Needs, Acquires, Tries, Releases, ReadOps, WriteOps
  <2>2. /\ Writers' = Writers \union {t}
        /\ Cardinality(Readers') = Cardinality(Readers) + 1
        /\ Cardinality(Writers') = Cardinality(Writers)
        /\ Cardinality(Readers') \in Nat /\ Cardinality(Writers') \in Nat
    BY <1>1, <1>2, <1>3, <2>1, HoldersChange, Zenon
  <2> QED
    BY <1>1, <1>8, <2>2, <1>3, <2>1 DEF Downgrade, CountersExact, WriterExclusion
<1>9. CASE DowngradeEnd(t)
  <2>1. held[t] = "both" /\ held' = [held EXCEPT ![t] = "read"]
    BY <1>9 DEF DowngradeEnd, RwIInv, PlaceInv, Needs, Acquires, Tries, Releases, ReadOps, WriteOps
  <2>2. /\ Writers' = Writers \ {t}
        /\ Cardinality(Readers') = Cardinality(Readers)
        /\ Cardinality(Writers') = Cardinality(Writers) - 1
        /\ Cardinality(Readers') \in Nat /\ Cardinality(Writers') \in Nat
    BY <1>1, <1>2, <1>3, <2>1, HoldersChange, Zenon
  <2> QED
    BY <1>1, <1>9, <2>2 DEF DowngradeEnd, CountersExact, WriterExclusion
<1>10. CASE ReleaseRead(t)
  <2>1. held[t] = "read" /\ held' = [held EXCEPT ![t] = "none"]
    BY <1>10 DEF ReleaseRead, RwIInv, PlaceInv, Needs, Acquires, Tries, Releases, ReadOps, WriteOps
  <2>2. /\ Writers' = Writers \ {t}
        /\ Cardinality(Readers') = Cardinality(Readers) - 1
        /\ Cardinality(Writers') = Cardinality(Writers)
        /\ Cardinality(Readers') \in Nat /\ Cardinality(Writers') \in Nat
    BY <1>1, <1>2, <1>3, <2>1, HoldersChange, Zenon
  <2> QED
    BY <1>1, <1>10, <2>2 DEF ReleaseRead, CountersExact, WriterExclusion
<1>11. CASE ReleaseWrite(t)
  <2>1. held[t] = "write" /\ held' = [held EXCEPT ![t] = "none"]
    BY <1>11 DEF ReleaseWrite, RwIInv, PlaceInv, Needs, Acquires, Tries, Releases, ReadOps, WriteOps
  <2>2. /\ Writers' = Writers \ {t}
        /\ Cardinality(Readers') = Cardinality(Readers)
        /\ Cardinality(Writers') = Cardinality(Writers) - 1
        /\ Cardinality(Readers') \in Nat /\ Cardinality(Writers') \in Nat
    BY <1>1, <1>2, <1>3, <2>1, HoldersChange, Zenon
  <2> QED
    BY <1>1, <1>11, <2>2 DEF ReleaseWrite, CountersExact, WriterExclusion
<1> QED
  BY <1>4, <1>5, <1>6, <1>7, <1>8, <1>9, <1>10, <1>11

(* Every step of every thread preserves the invariant.                     *)
LEMMA StepInv ==
    ASSUME RwIInv, NEW t \in RwThread, Step(t) \/ \E o \in Ops : RwCall(t, o)
    PROVE  RwIInv'
<1>0. \/ AdmitReader(t) \/ AdmitWriter(t) \/ Upgrade(t) \/ UpgradeEnd(t)
      \/ Downgrade(t) \/ DowngradeEnd(t) \/ ReleaseRead(t) \/ ReleaseWrite(t)
      => WriterExclusion' /\ CountersExact' /\ m_read' \in Nat /\ m_write' \in Nat
  BY HoldersStep
<1> USE DEF RwIInv, RwTypeOK, InnerLockInv, PlaceInv, AdmissionInv, BusyInv,
            Acquires, Tries, Releases, ReadOps, WriteOps, Ops, Needs, NoWriter
<1>1. ASSUME NEW o \in Ops, RwCall(t, o) PROVE RwIInv'
  BY <1>1, HoldersSame DEF RwCall
<1>2. CASE TakeLock(t)
  BY <1>2, HoldersSame, ThreadAssumption DEF TakeLock
<1>3. CASE Unlock(t)
  BY <1>3, HoldersSame, ThreadAssumption DEF Unlock
<1>4. CASE Spin(t)
  BY <1>4, HoldersSame, ThreadAssumption DEF Spin
<1>5. CASE GiveUp(t)
  BY <1>5, HoldersSame, ThreadAssumption DEF GiveUp
<1>6. CASE AddBusy(t)
  BY <1>6, HoldersSame, ThreadAssumption DEF AddBusy
<1>7. CASE CheckCount(t)
  BY <1>7, HoldersSame, ThreadAssumption DEF CheckCount
<1>8. CASE RwSubBusy(t)
  BY <1>8, HoldersSame, ThreadAssumption DEF RwSubBusy
<1>9. CASE AdmitReader(t)
  BY <1>0, <1>9, ThreadAssumption DEF AdmitReader
<1>10. CASE AdmitWriter(t)
  BY <1>0, <1>10, ThreadAssumption DEF AdmitWriter
<1>11. CASE Upgrade(t)
  BY <1>0, <1>11, ThreadAssumption DEF Upgrade
<1>12. CASE UpgradeEnd(t)
  BY <1>0, <1>12, ThreadAssumption DEF UpgradeEnd
<1>13. CASE Downgrade(t)
  BY <1>0, <1>13, ThreadAssumption DEF Downgrade
<1>14. CASE DowngradeEnd(t)
  BY <1>0, <1>14, ThreadAssumption DEF DowngradeEnd
<1>15. CASE ReleaseRead(t)
  BY <1>0, <1>15, ThreadAssumption DEF ReleaseRead
<1>16. CASE ReleaseWrite(t)
  BY <1>0, <1>16, ThreadAssumption DEF ReleaseWrite
<1> QED
  BY <1>1, <1>2, <1>3, <1>4, <1>5, <1>6, <1>7, <1>8, <1>9, <1>10, <1>11, <1>12, <1>13, <1>14, <1>15, <1>16, Zenon DEF Step

(* The inductive invariant holds in every reachable state.                 *)
THEOREM Safety == RwSpec => []RwIInv
<1>1. RwIInv /\ [RwNext]_rwVars => RwIInv'
  <2> SUFFICES ASSUME RwIInv, [RwNext]_rwVars PROVE RwIInv'
    OBVIOUS
  <2>1. CASE RwNext
    BY <2>1, StepInv DEF RwNext
  <2>2. CASE UNCHANGED rwVars
    BY <2>2
    DEF rwVars, RwIInv, RwTypeOK, InnerLockInv, PlaceInv, AdmissionInv, BusyInv,
        WriterExclusion, CountersExact, Readers, Writers
  <2> QED
    BY <2>1, <2>2
<1> QED
  BY <1>1, InitInv, PTL DEF RwSpec

(* Type correctness: in particular m_read and m_write never go below 0, so *)
(* release_read and release_write never find a counter at 0.               *)
THEOREM RwTypeCorrect == RwSpec => []RwTypeOK
<1>1. RwIInv => RwTypeOK
  BY DEF RwIInv
<1> QED
  BY <1>1, Safety, PTL

(* At most one thread is a writer, whatever the number of threads and the  *)
(* mixture of acquire_write, tryAcquire_write, upgrade and downgrade.      *)
THEOREM WriterAlone == RwSpec => []WriterExclusion
<1>1. RwIInv => WriterExclusion
  BY DEF RwIInv
<1> QED
  BY <1>1, Safety, PTL

(* m_read and m_write count the readers and the writers in every state,    *)
(* the ones between two atomic operations of upgrade included.             *)
THEOREM CountersCount == RwSpec => []CountersExact
<1>1. RwIInv => CountersExact
  BY DEF RwIInv
<1> QED
  BY <1>1, Safety, PTL

(* A holder is busy, and a thread that let go is not.                      *)
THEOREM HoldersAreBusy == RwSpec => []BusyWhileHeld
<1>1. RwIInv => BusyWhileHeld
  BY DEF RwIInv, BusyInv, PlaceInv, BusyWhileHeld, Readers, Writers
<1> QED
  BY <1>1, Safety, PTL

(* A step that turns a thread holding nothing into a reader is taken when  *)
(* no writer is in: acquire_read's test of m_write cannot go stale.        *)
THEOREM ReadersWaitForWriter == RwSpec => NoReaderAdmittedDuringWrite
<1> DEFINE A == \A t \in RwThread :
                    held[t] = "none" /\ held'[t] = "read" => Writers = {}
<1>1. RwIInv /\ [RwNext]_rwVars => [A]_rwVars
  <2> SUFFICES ASSUME RwIInv, RwNext, NEW t \in RwThread,
                      held[t] = "none", held'[t] = "read"
               PROVE  Writers = {}
    OBVIOUS
  <2>1. AdmitReader(t)
    <3>1. PICK u \in RwThread : Step(u) \/ \E o \in Ops : RwCall(u, o)
      BY DEF RwNext
    <3>2. AdmitReader(u) \/ DowngradeEnd(u)
      BY <3>1
      DEF Step, RwCall, TakeLock, Unlock, Spin, GiveUp, AddBusy, AdmitReader,
          AdmitWriter, Upgrade, UpgradeEnd, Downgrade, DowngradeEnd, CheckCount,
          ReleaseRead, ReleaseWrite, RwSubBusy, RwIInv, RwTypeOK
    <3>3. u = t
      BY <3>2 DEF AdmitReader, DowngradeEnd, RwIInv, RwTypeOK
    <3> QED
      BY <3>2, <3>3 DEF DowngradeEnd, RwIInv, PlaceInv
  <2>2. m_write = 0
    BY <2>1 DEF AdmitReader, RwIInv, AdmissionInv
  <2> QED
    BY <2>2, HoldersFinite DEF RwIInv, CountersExact
<1> QED
  BY <1>1, Safety, PTL DEF RwSpec, NoReaderAdmittedDuringWrite

-----------------------------------------------------------------------------
(* Fault: the counters of threads and CPUs across an exception.             *)
FlSections == {"busy", "critical"}
FlPlaces == {"code", "out", "entered", "back", "sub", "return", "exit", "dead"}
CriticalIn(q) == Cardinality({i \in DOMAIN q : q[i] = "critical"})

FlType ==
    /\ flRun \in [FlCpus -> FlThreads \union {FlIdle}]
    /\ flIn \in [FlCpus -> Int]
    /\ flEnabled \in [FlCpus -> BOOLEAN]
    /\ flPc \in [FlThreads -> FlPlaces]
    /\ flOwn \in [FlThreads -> Seq(FlSections)]
    /\ flBusy \in [FlThreads -> Int]
    /\ flCritical \in [FlThreads -> Int]
    /\ flFaulting \in [FlThreads -> BOOLEAN]
    /\ flSaved \in [FlThreads -> [busy : Int, critical : Int, depth : Nat]]
    /\ flCpu \in [FlThreads -> FlCpus]

(* Where a thread's counters are, by where it is.                           *)
CountersKept(t) ==
    /\ flPc[t] \in {"code", "return"} =>
         flBusy[t] = Len(flOwn[t]) /\ flCritical[t] = CriticalIn(flOwn[t])
    /\ flPc[t] \in {"entered", "back", "sub"} =>
         flBusy[t] = Len(flOwn[t]) + 1 /\ flCritical[t] = CriticalIn(flOwn[t])
    /\ flPc[t] = "out" =>
         /\ flSaved[t].depth <= Len(flOwn[t])
         /\ flSaved[t].busy = flSaved[t].depth + 1
         /\ flSaved[t].critical = CriticalIn(SubSeq(flOwn[t], 1, flSaved[t].depth))
    /\ flPc[t] \in {"code", "return", "sub"} => ~flFaulting[t]
    /\ flPc[t] \in {"entered", "out"} => flFaulting[t]

InHandler(t) == flPc[t] \in {"entered", "back"}

(* Which CPU a handler holds.                                               *)
CpusHeld ==
    /\ \A c, d \in FlCpus : flRun[c] = flRun[d] /\ flRun[c] # FlIdle => c = d
    /\ \A t \in FlThreads : InHandler(t) => \E c \in FlCpus : flRun[c] = t
    /\ \A c \in FlCpus, t \in FlThreads : flRun[c] = t /\ InHandler(t) =>
         ~flEnabled[c] /\ flCpu[t] = c

FlInv ==
    /\ \A t \in FlThreads : CountersKept(t)
    /\ ~flHalted => CpusHeld
    /\ InInterruptExact

-----------------------------------------------------------------------------
(* One more section counts if it is a critical one.                       *)
LEMMA CriticalAppend ==
  ASSUME NEW q \in Seq(FlSections), NEW s \in FlSections
  PROVE  /\ CriticalIn(Append(q, s)) = IF s = "critical" THEN CriticalIn(q) + 1 ELSE CriticalIn(q)
         /\ CriticalIn(q) \in Nat
<1> DEFINE S == {i \in DOMAIN q : q[i] = "critical"}
           T == {i \in DOMAIN Append(q, s) : Append(q, s)[i] = "critical"}
<1>1. /\ DOMAIN q = 1 .. Len(q) /\ Len(q) \in Nat /\ DOMAIN Append(q, s) = 1 .. Len(q) + 1
      /\ Append(q, s)[Len(q) + 1] = s /\ \A i \in 1 .. Len(q) : Append(q, s)[i] = q[i]
  OBVIOUS
<1>2. IsFiniteSet(S) /\ Len(q) + 1 \notin S
  <2>1. IsFiniteSet(1 .. Len(q))
    BY <1>1, FS_Interval
  <2>2. S \in SUBSET (1 .. Len(q))
    BY <1>1
  <2> QED BY <1>1, <2>1, <2>2, FS_Subset
<1>3. T = IF s = "critical" THEN S \union {Len(q) + 1} ELSE S
  BY <1>1
<1> HIDE DEF S, T
<1>4. Cardinality(S) \in Nat /\ Cardinality(S \union {Len(q) + 1}) = Cardinality(S) + 1
  BY <1>2, FS_CardinalityType, FS_AddElement
<1> QED BY <1>3, <1>4, Zenon DEF CriticalIn, S, T

(* Sequences that agree everywhere are equal.                             *)
LEMMA SeqEqual ==
  ASSUME NEW S, NEW p \in Seq(S), NEW q \in Seq(S), Len(p) = Len(q),
         \A i \in 1 .. Len(q) : p[i] = q[i]
  PROVE  p = q
OBVIOUS

(* What a prefix of a sequence holds, position by position.               *)
LEMMA PrefixOf ==
  ASSUME NEW S, NEW q \in Seq(S), NEW m \in Nat, m <= Len(q)
  PROVE  /\ SubSeq(q, 1, m) \in Seq(S) /\ Len(SubSeq(q, 1, m)) = m
         /\ \A i \in 1 .. m : SubSeq(q, 1, m)[i] = q[i]
OBVIOUS

(* The section that is left counts if it is a critical one.               *)
LEMMA CriticalLast ==
  ASSUME NEW q \in Seq(FlSections), q # <<>>
  PROVE  /\ SubSeq(q, 1, Len(q) - 1) \in Seq(FlSections)
         /\ Len(SubSeq(q, 1, Len(q) - 1)) = Len(q) - 1
         /\ CriticalIn(SubSeq(q, 1, Len(q) - 1))
              = IF q[Len(q)] = "critical" THEN CriticalIn(q) - 1 ELSE CriticalIn(q)
<1> DEFINE r == SubSeq(q, 1, Len(q) - 1)   s == q[Len(q)]
<1>1. r \in Seq(FlSections) /\ Len(r) = Len(q) - 1 /\ s \in FlSections /\ q = Append(r, s)
  <2>1. Len(q) \in Nat /\ Len(q) >= 1
    OBVIOUS
  <2>2. r \in Seq(FlSections) /\ Len(r) = Len(q) - 1 /\ \A i \in 1 .. Len(q) - 1 : r[i] = q[i]
    <3> DEFINE m == Len(q) - 1
    <3>1. m \in Nat /\ m <= Len(q)
      BY <2>1
    <3> HIDE DEF m
    <3> QED BY <3>1, PrefixOf, Zenon DEF m
  <2>3. s \in FlSections
    BY <2>1
  <2> HIDE DEF r
  <2>4. Append(r, s) \in Seq(FlSections) /\ Len(Append(r, s)) = Len(q)
    BY <2>1, <2>2, <2>3
  <2>5. \A i \in 1 .. Len(q) : Append(r, s)[i] = q[i]
    BY <2>1, <2>2, <2>3
  <2> QED BY <2>2, <2>3, <2>4, <2>5, SeqEqual
<1> HIDE DEF r, s
<1>2. /\ CriticalIn(q) = IF s = "critical" THEN CriticalIn(r) + 1 ELSE CriticalIn(r)
      /\ CriticalIn(r) \in Nat
  BY <1>1, CriticalAppend
<1> QED BY <1>1, <1>2 DEF r, s

(* What lies below a depth of the sections stays while they are entered   *)
(* and left above it.                                                     *)
LEMMA PrefixKept ==
  ASSUME NEW q \in Seq(FlSections), NEW d \in Nat, d <= Len(q)
  PROVE  /\ \A s \in FlSections : SubSeq(Append(q, s), 1, d) = SubSeq(q, 1, d)
         /\ d < Len(q) => SubSeq(SubSeq(q, 1, Len(q) - 1), 1, d) = SubSeq(q, 1, d)
         /\ SubSeq(q, 1, Len(q)) = q
<1>1. \A s \in FlSections : SubSeq(Append(q, s), 1, d) = SubSeq(q, 1, d)
  OBVIOUS
<1>2. d < Len(q) => SubSeq(SubSeq(q, 1, Len(q) - 1), 1, d) = SubSeq(q, 1, d)
  OBVIOUS
<1>3. SubSeq(q, 1, Len(q)) = q
  OBVIOUS
<1> QED BY <1>1, <1>2, <1>3

-----------------------------------------------------------------------------
(* A step of one thread leaves the counters of the others.                *)
LEMMA OthersKept ==
  ASSUME NEW t \in FlThreads, \A u \in FlThreads : CountersKept(u), CountersKept(t)',
         \A u \in FlThreads \ {t} :
           /\ flPc'[u] = flPc[u] /\ flOwn'[u] = flOwn[u] /\ flBusy'[u] = flBusy[u]
           /\ flCritical'[u] = flCritical[u] /\ flFaulting'[u] = flFaulting[u]
           /\ flSaved'[u] = flSaved[u]
  PROVE  (\A u \in FlThreads : CountersKept(u))'
<1>1. \A u \in FlThreads \ {t} : CountersKept(u)'
  BY DEF CountersKept
<1> QED BY <1>1

\* What a step of t on c that stays, or not, in the handler owes of the CPUs.
LEMMA HandlerStep ==
  ASSUME FlType, FlType', NEW t \in FlThreads, NEW c \in FlCpus, ~flHalted,
         CpusHeld, InInterruptExact, flRun[c] = t, flRun' = flRun,
         \A u \in FlThreads \ {t} : flPc'[u] = flPc[u] /\ flCpu'[u] = flCpu[u],
         \A d \in FlCpus \ {c} : flIn'[d] = flIn[d] /\ flEnabled'[d] = flEnabled[d],
         flIn'[c] = IF flPc'[t] \in {"entered", "back"} THEN 1 ELSE 0,
         flPc'[t] \in {"entered", "back"} => ~flEnabled'[c] /\ flCpu'[t] = c
  PROVE  CpusHeld' /\ InInterruptExact'
<1>1. t # FlIdle
  BY FlAssumption
<1>2. \A d \in FlCpus \ {c} : flRun[d] # t
  BY <1>1 DEF CpusHeld
<1>3. CpusHeld'
  <2>1. \A u \in FlThreads : InHandler(u)' => \E d \in FlCpus : flRun'[d] = u
    BY DEF CpusHeld, InHandler
  <2>2. \A d \in FlCpus, u \in FlThreads : flRun'[d] = u /\ InHandler(u)' => ~flEnabled'[d] /\ flCpu'[u] = d
    BY <1>2 DEF CpusHeld, InHandler
  <2> QED BY <2>1, <2>2 DEF CpusHeld
<1>4. InInterruptExact'
  <2> SUFFICES ASSUME NEW d \in FlCpus
               PROVE  flIn'[d] = IF flRun'[d] # FlIdle /\ flPc'[flRun'[d]] \in {"entered", "back"} THEN 1 ELSE 0
    BY DEF InInterruptExact
  <2>1. CASE d = c
    BY <2>1, <1>1
  <2>2. CASE d # c
    <3>1. flRun'[d] = flRun[d] /\ flIn'[d] = flIn[d] /\ flRun[d] # t /\ flRun[d] \in FlThreads \union {FlIdle}
      BY <2>2, <1>2 DEF FlType
    <3>2. flRun[d] # FlIdle => flPc'[flRun[d]] = flPc[flRun[d]]
      BY <3>1
    <3> QED BY <3>1, <3>2 DEF InInterruptExact
  <2> QED BY <2>1, <2>2
<1> QED BY <1>3, <1>4

(* While the page is fetched the thread enters and leaves sections, and   *)
(* never one from before the fault.                                       *)
LEMMA OutKept ==
  ASSUME NEW t, CountersKept(t), flPc[t] = "out", flPc'[t] = "out",
         flSaved'[t] = flSaved[t], flFaulting'[t] = flFaulting[t],
         flSaved[t].depth <= Len(flOwn'[t]),
         SubSeq(flOwn'[t], 1, flSaved[t].depth) = SubSeq(flOwn[t], 1, flSaved[t].depth)
  PROVE  CountersKept(t)'
BY Zenon DEF CountersKept

(* A busy or critical section that is entered or left is counted.         *)
LEMMA EnterLeave ==
  ASSUME FlType, FlInv, NEW t \in FlThreads, NEW c \in FlCpus,
         (\E s \in FlSections : EnterSection(t, c, s)) \/ LeaveSection(t, c)
  PROVE  FlType' /\ FlInv'
<1> DEFINE q == flOwn[t]
<1>0. /\ q \in Seq(FlSections) /\ flBusy[t] \in Int /\ flCritical[t] \in Int /\ flSaved[t].depth \in Nat
      /\ CountersKept(t) /\ flPc[t] \in {"code", "out"} /\ flRun[c] = t /\ ~flHalted
      /\ flRun' = flRun /\ flIn' = flIn /\ flEnabled' = flEnabled /\ flFaulting' = flFaulting
      /\ flSaved' = flSaved /\ flCpu' = flCpu /\ flHalted' = flHalted
  BY DEF FlType, FlInv, EnterSection, LeaveSection, InCode, FlAt, flCpuVars, flFrameVars
<1>1. ASSUME NEW s \in FlSections, EnterSection(t, c, s)
      PROVE  FlType' /\ CountersKept(t)' /\ flPc' = flPc
             /\ \A u \in FlThreads \ {t} : flOwn'[u] = flOwn[u] /\ flBusy'[u] = flBusy[u] /\ flCritical'[u] = flCritical[u]
  <2>0. /\ flPc' = flPc /\ flOwn' = [flOwn EXCEPT ![t] = Append(q, s)]
        /\ flBusy' = [flBusy EXCEPT ![t] = flBusy[t] + 1]
        /\ flCritical' = [flCritical EXCEPT ![t] = IF s = "critical" THEN flCritical[t] + 1 ELSE flCritical[t]]
    BY <1>1 DEF EnterSection
  <2>1. FlType'
    <3>1. Append(q, s) \in Seq(FlSections)
      BY <1>0
    <3> HIDE DEF q
    <3> QED BY <2>0, <3>1, <1>0, SMTT(30) DEF FlType
  <2>2. /\ flOwn'[t] = Append(q, s) /\ flBusy'[t] = flBusy[t] + 1
        /\ flCritical'[t] = IF s = "critical" THEN flCritical[t] + 1 ELSE flCritical[t]
    BY <2>0 DEF FlType
  <2>3. CountersKept(t)'
    <3>1. CriticalIn(Append(q, s)) = IF s = "critical" THEN CriticalIn(q) + 1 ELSE CriticalIn(q)
      BY <1>0, CriticalAppend
    <3>2. Len(Append(q, s)) = Len(q) + 1 /\ Len(q) \in Nat
      BY <1>0
    <3>3. CASE flPc[t] = "code"
      BY <3>1, <3>2, <3>3, <2>0, <2>2, <1>0 DEF CountersKept
    <3>4. CASE flPc[t] = "out"
      <4>1. flSaved[t].depth <= Len(q)
        BY <3>4, <1>0 DEF CountersKept
      <4>2. SubSeq(Append(q, s), 1, flSaved[t].depth) = SubSeq(q, 1, flSaved[t].depth)
        BY <4>1, <1>0, PrefixKept
      <4> QED BY <3>2, <3>4, <4>1, <4>2, <2>0, <2>2, <1>0, OutKept
    <3> QED BY <3>3, <3>4, <1>0
  <2> QED BY <2>0, <2>1, <2>3, Zenon DEF FlType
<1>2. ASSUME LeaveSection(t, c)
      PROVE  /\ FlType' /\ CountersKept(t)' /\ flPc'[t] \in {"code", "out", "exit"}
             /\ \A u \in FlThreads \ {t} : /\ flOwn'[u] = flOwn[u] /\ flBusy'[u] = flBusy[u]
                                           /\ flCritical'[u] = flCritical[u] /\ flPc'[u] = flPc[u]
  <2> DEFINE r == SubSeq(q, 1, Len(q) - 1)   s == q[Len(q)]
  <2>0. /\ Len(q) > IF flFaulting[t] THEN flSaved[t].depth ELSE 0
        /\ flOwn' = [flOwn EXCEPT ![t] = r]
        /\ flBusy' = [flBusy EXCEPT ![t] = flBusy[t] - 1]
        /\ flCritical' = [flCritical EXCEPT ![t] = IF s = "critical" THEN flCritical[t] - 1 ELSE flCritical[t]]
    BY <1>2 DEF LeaveSection
  <2>1. \/ flPc' = flPc
        \/ flPc' = [flPc EXCEPT ![t] = "exit"]
    <3>1. CASE s = "critical"
      BY <1>2, <3>1 DEF LeaveSection
    <3>2. CASE s # "critical"
      <4>1. AfterBusy(t)
        BY <1>2, <3>2 DEF LeaveSection
      <4> QED BY <4>1, <1>0, Zenon DEF AfterBusy, GoesTo, FlType
    <3> QED BY <3>1, <3>2
  <2>2. q # <<>> /\ Len(q) \in Nat
    BY <2>0, <1>0
  <2>3. /\ r \in Seq(FlSections) /\ Len(r) = Len(q) - 1
        /\ CriticalIn(r) = IF s = "critical" THEN CriticalIn(q) - 1 ELSE CriticalIn(q)
    BY <2>2, <1>0, CriticalLast
  <2>4. flPc[t] = "out" => /\ flSaved[t].depth < Len(q)
                           /\ SubSeq(r, 1, flSaved[t].depth) = SubSeq(q, 1, flSaved[t].depth)
    <3> SUFFICES ASSUME flPc[t] = "out" PROVE flSaved[t].depth < Len(q) /\ SubSeq(r, 1, flSaved[t].depth) = SubSeq(q, 1, flSaved[t].depth)
      BY Zenon
    <3>1. flSaved[t].depth < Len(q)
      BY <2>0, <1>0 DEF CountersKept
    <3> QED BY <3>1, <2>2, <1>0, PrefixKept
  <2> HIDE DEF r, s
  <2>5. FlType'
    <3>1. flOwn' \in [FlThreads -> Seq(FlSections)] /\ flBusy' \in [FlThreads -> Int] /\ flCritical' \in [FlThreads -> Int]
      BY <2>0, <2>3, <1>0 DEF FlType
    <3>2. flPc' \in [FlThreads -> FlPlaces]
      BY <2>1, SMTT(30) DEF FlType, FlPlaces
    <3> QED BY <3>1, <3>2, <1>0, SMTT(30) DEF FlType
  <2>6. /\ flOwn'[t] = r /\ flBusy'[t] = flBusy[t] - 1
        /\ flCritical'[t] = IF s = "critical" THEN flCritical[t] - 1 ELSE flCritical[t]
        /\ flPc'[t] \in {flPc[t], "exit"}
    BY <2>0, <2>1 DEF FlType
  <2>7. CountersKept(t)'
    <3> HIDE DEF q
    <3> USE DEF CountersKept
    <3>1. flPc'[t] = "exit" => CountersKept(t)'
      BY SMTT(30)
    <3>2. CASE flPc'[t] = "code"
      <4>1. flPc[t] = "code" /\ flBusy[t] = Len(q) /\ flCritical[t] = CriticalIn(q) /\ ~flFaulting[t]
        BY <3>2, <2>6, <1>0 DEF q
      <4> QED BY <3>2, <4>1, <2>2, <2>3, <2>6, <1>0
    <3>3. CASE flPc'[t] = "out"
      <4>1. flPc[t] = "out" /\ flSaved[t].depth < Len(q) /\ Len(r) = Len(q) - 1
        BY <3>3, <2>4, <2>3, <2>6, <1>0
      <4>2. flSaved[t].depth <= Len(r)
        BY <4>1, <2>2, <1>0
      <4> QED BY <3>3, <4>1, <4>2, <2>4, <2>6, <1>0, OutKept, Zenon DEF q
    <3> QED BY <3>1, <3>2, <3>3, <2>6, <1>0, Zenon
  <2> QED BY <2>0, <2>1, <2>5, <2>6, <2>7, <1>0, SMTT(30) DEF FlType
<1>3. FlType' /\ CountersKept(t)' /\ flPc'[t] \in {"code", "out", "exit"}
      /\ \A u \in FlThreads \ {t} : /\ flOwn'[u] = flOwn[u] /\ flBusy'[u] = flBusy[u]
                                    /\ flCritical'[u] = flCritical[u] /\ flPc'[u] = flPc[u]
  BY <1>0, <1>1, <1>2, SMTT(30)
<1>4. (\A u \in FlThreads : CountersKept(u))'
  BY <1>3, <1>0, OthersKept DEF FlInv
<1>5. flIn[c] = 0
  BY <1>0, FlAssumption DEF FlInv, InInterruptExact
<1>6. CpusHeld /\ InInterruptExact
  BY <1>0 DEF FlInv
<1>7. CpusHeld' /\ InInterruptExact'
  BY <1>3, <1>5, <1>6, <1>0, HandlerStep
<1> QED BY <1>3, <1>4, <1>7 DEF FlInv

(* The entry of a fault counts its busy section and its interrupt.        *)
LEMMA RaiseStep ==
  ASSUME FlType, FlInv, NEW t \in FlThreads, NEW c \in FlCpus, NEW kind, RaiseFault(t, c, kind)
  PROVE  FlType' /\ FlInv'
<1>0. /\ flPc[t] \in {"code", "out"} /\ flRun[c] = t /\ ~flHalted /\ t # FlIdle
      /\ flRun' = flRun /\ flOwn' = flOwn /\ flCritical' = flCritical /\ flSaved' = flSaved
      /\ flIn' = [flIn EXCEPT ![c] = flIn[c] + 1]
      /\ flEnabled' = [flEnabled EXCEPT ![c] = FALSE]
      /\ flBusy' = [flBusy EXCEPT ![t] = flBusy[t] + 1]
  BY FlAssumption DEF RaiseFault, InCode, FlAt
<1>1. CASE flFaulting[t]
  <2>1. flHalted' = TRUE /\ flPc' = flPc /\ flFaulting' = flFaulting /\ flCpu' = flCpu
    BY <1>1 DEF RaiseFault
  <2>2. FlType'
    BY <1>0, <2>1, SMTT(30) DEF FlType
  <2>3. flPc[t] = "out" /\ CountersKept(t)
    BY <1>0, <1>1 DEF FlInv, CountersKept
  <2>4. CountersKept(t)'
    BY <1>0, <2>1, <2>3, OutKept, Zenon DEF CountersKept
  <2>5. (\A u \in FlThreads : CountersKept(u))'
    BY <1>0, <2>1, <2>4, OthersKept, Zenon DEF FlInv, FlType
  <2> QED BY <2>1, <2>2, <2>5 DEF FlInv, InInterruptExact
<1>2. CASE ~flFaulting[t]
  <2>1. /\ flPc' = [flPc EXCEPT ![t] = "entered"] /\ flFaulting' = [flFaulting EXCEPT ![t] = TRUE]
        /\ flCpu' = [flCpu EXCEPT ![t] = c] /\ flHalted' = flHalted
    BY <1>2 DEF RaiseFault, GoesTo
  <2>2. FlType'
    BY <1>0, <2>1, SMTT(30) DEF FlType, FlPlaces
  <2>3. /\ flPc[t] = "code" /\ flBusy[t] = Len(flOwn[t]) /\ flCritical[t] = CriticalIn(flOwn[t])
        /\ flPc'[t] = "entered" /\ flBusy'[t] = flBusy[t] + 1 /\ flCpu'[t] = c
        /\ flIn'[c] = flIn[c] + 1 /\ ~flEnabled'[c]
    BY <1>0, <1>2, <2>1 DEF FlInv, CountersKept, FlType
  <2>4. CountersKept(t)'
    <3>1. flFaulting'[t]
      BY <2>1 DEF FlType
    <3> QED BY <1>0, <2>3, <3>1 DEF CountersKept
  <2>5. (\A u \in FlThreads : CountersKept(u))'
    BY <1>0, <2>1, <2>4, OthersKept, Zenon DEF FlInv, FlType
  <2>6. flIn[c] = 0 /\ CpusHeld /\ InInterruptExact
    BY <1>0, <2>3 DEF FlInv, InInterruptExact
  <2>7. /\ \A u \in FlThreads \ {t} : flPc'[u] = flPc[u] /\ flCpu'[u] = flCpu[u]
        /\ \A d \in FlCpus \ {c} : flIn'[d] = flIn[d] /\ flEnabled'[d] = flEnabled[d]
    BY <1>0, <2>1 DEF FlType
  <2>8. CpusHeld' /\ InInterruptExact'
    <3>1. flIn'[c] = IF flPc'[t] \in {"entered", "back"} THEN 1 ELSE 0
      BY <2>3, <2>6
    <3> QED BY <1>0, <2>2, <2>3, <2>6, <2>7, <3>1, HandlerStep, Zenon
  <2> QED BY <2>2, <2>5, <2>8 DEF FlInv
<1> QED BY <1>1, <1>2

(* fault_enter() before the page is fetched: the counters are put aside   *)
(* with the depth they stand for.                                         *)
LEMMA OutStep ==
  ASSUME FlType, FlInv, NEW t \in FlThreads, NEW c \in FlCpus, Out(t, c)
  PROVE  FlType' /\ FlInv'
<1>0. /\ flPc[t] = "entered" /\ flRun[c] = t /\ ~flHalted /\ t # FlIdle
      /\ flRun' = flRun /\ flOwn' = flOwn /\ flFaulting' = flFaulting /\ flCpu' = flCpu /\ flHalted' = flHalted
      /\ flBusy' = [flBusy EXCEPT ![t] = 1] /\ flCritical' = [flCritical EXCEPT ![t] = 0]
      /\ flIn' = [flIn EXCEPT ![flCpu[t]] = flIn[flCpu[t]] - 1]
      /\ flEnabled' = [flEnabled EXCEPT ![c] = TRUE] /\ flPc' = [flPc EXCEPT ![t] = "out"]
      /\ flSaved' = [flSaved EXCEPT ![t] = [busy |-> flBusy[t], critical |-> flCritical[t], depth |-> Len(flOwn[t])]]
  BY FlAssumption DEF Out, FlAt, GoesTo, OutBusy
<1>1. CpusHeld /\ InInterruptExact /\ flCpu[t] = c /\ flIn[c] = 1 /\ CountersKept(t)
  BY <1>0 DEF FlInv, CpusHeld, InHandler, InInterruptExact
<1>2. flOwn[t] \in Seq(FlSections) /\ Len(flOwn[t]) \in Nat /\ flBusy[t] \in Int /\ flCritical[t] \in Int
  BY SMTT(30) DEF FlType
<1>3. FlType'
  <2>1. flSaved' \in [FlThreads -> [busy : Int, critical : Int, depth : Nat]]
    BY <1>0, <1>2, Zenon DEF FlType
  <2> QED BY <1>0, <1>1, <2>1, SMTT(30) DEF FlType, FlPlaces
<1>4. /\ flPc'[t] = "out" /\ flSaved'[t].busy = flBusy[t] /\ flSaved'[t].critical = flCritical[t]
      /\ flSaved'[t].depth = Len(flOwn[t]) /\ flIn'[c] = 0
  BY <1>0, <1>1, SMTT(30) DEF FlType
<1>5. CountersKept(t)'
  <2>1. flFaulting[t]
    BY <1>0, <1>1 DEF CountersKept
  <2>2. SubSeq(flOwn[t], 1, Len(flOwn[t])) = flOwn[t]
    BY <1>2, PrefixKept
  <2>3. flBusy[t] = Len(flOwn[t]) + 1 /\ flCritical[t] = CriticalIn(flOwn[t])
    BY <1>0, <1>1, Zenon DEF CountersKept
  <2>4. flOwn'[t] = flOwn[t] /\ flFaulting'[t]
    BY <1>0, <2>1, Zenon
  <2>5. /\ flSaved'[t].depth <= Len(flOwn'[t]) /\ flSaved'[t].busy = flSaved'[t].depth + 1
        /\ flSaved'[t].critical = CriticalIn(SubSeq(flOwn'[t], 1, flSaved'[t].depth))
    <3>1. SubSeq(flOwn'[t], 1, flSaved'[t].depth) = flOwn[t]
      BY ONLY <1>4, <2>2, <2>4, Zenon
    <3>2. flSaved'[t].critical = CriticalIn(SubSeq(flOwn'[t], 1, flSaved'[t].depth))
      BY ONLY <1>4, <2>3, <3>1, Zenon
    <3> DEFINE n == Len(flOwn[t])
    <3>3. n \in Nat /\ flSaved'[t].depth = n /\ Len(flOwn'[t]) = n /\ flSaved'[t].busy = n + 1
      BY ONLY <1>2, <1>4, <2>3, <2>4, Zenon
    <3> HIDE DEF n
    <3> QED BY ONLY <3>2, <3>3
  <2> QED BY <1>4, <2>4, <2>5, Zenon DEF CountersKept
<1>6. (\A u \in FlThreads : CountersKept(u))'
  BY <1>0, <1>5, OthersKept, Zenon DEF FlInv, FlType
<1>7. /\ \A u \in FlThreads \ {t} : flPc'[u] = flPc[u] /\ flCpu'[u] = flCpu[u]
      /\ \A d \in FlCpus \ {c} : flIn'[d] = flIn[d] /\ flEnabled'[d] = flEnabled[d]
  BY <1>0, <1>1, Zenon DEF FlType
<1>8. CpusHeld' /\ InInterruptExact'
  BY <1>0, <1>1, <1>3, <1>4, <1>7, HandlerStep, Zenon
<1> QED BY <1>3, <1>6, <1>8 DEF FlInv

(* After the page is fetched the counters that were put aside are those   *)
(* of the sections the thread is in.                                      *)
LEMMA InStep ==
  ASSUME FlType, FlInv, NEW t \in FlThreads, NEW c \in FlCpus, In(t, c)
  PROVE  FlType' /\ FlInv'
<1>0. /\ flPc[t] = "out" /\ flRun[c] = t /\ ~flHalted /\ t # FlIdle /\ Len(flOwn[t]) = flSaved[t].depth
      /\ flRun' = flRun /\ flOwn' = flOwn /\ flFaulting' = flFaulting /\ flSaved' = flSaved /\ flHalted' = flHalted
      /\ flBusy' = [flBusy EXCEPT ![t] = flSaved[t].busy] /\ flCritical' = [flCritical EXCEPT ![t] = flSaved[t].critical]
      /\ flIn' = [flIn EXCEPT ![c] = flIn[c] + 1] /\ flCpu' = [flCpu EXCEPT ![t] = c]
      /\ flEnabled' = [flEnabled EXCEPT ![c] = FALSE] /\ flPc' = [flPc EXCEPT ![t] = "back"]
  BY FlAssumption DEF In, FlAt, GoesTo, LoadState, Current
<1>1. CpusHeld /\ InInterruptExact /\ flIn[c] = 0 /\ CountersKept(t)
  BY <1>0 DEF FlInv, InInterruptExact
<1>2. /\ flOwn[t] \in Seq(FlSections) /\ Len(flOwn[t]) \in Nat /\ flSaved[t].busy \in Int
      /\ flSaved[t].critical \in Int /\ flSaved[t].depth \in Nat
  BY DEF FlType
<1>3. FlType'
  BY <1>0, <1>2, SMTT(30) DEF FlType, FlPlaces
<1>4. /\ flPc'[t] = "back" /\ flBusy'[t] = flSaved[t].busy /\ flCritical'[t] = flSaved[t].critical
      /\ flIn'[c] = 1 /\ ~flEnabled'[c] /\ flCpu'[t] = c
  BY <1>0, <1>1 DEF FlType
<1>5. CountersKept(t)'
  <2>1. SubSeq(flOwn[t], 1, flSaved[t].depth) = flOwn[t]
    BY <1>0, <1>2, PrefixKept
  <2>2. flSaved[t].busy = Len(flOwn[t]) + 1 /\ flSaved[t].critical = CriticalIn(flOwn[t])
    BY <1>0, <1>1, <2>1, Zenon DEF CountersKept
  <2> QED BY <1>0, <1>4, <2>2 DEF CountersKept
<1>6. (\A u \in FlThreads : CountersKept(u))'
  BY <1>0, <1>5, OthersKept, Zenon DEF FlInv, FlType
<1>7. /\ \A u \in FlThreads \ {t} : flPc'[u] = flPc[u] /\ flCpu'[u] = flCpu[u]
      /\ \A d \in FlCpus \ {c} : flIn'[d] = flIn[d] /\ flEnabled'[d] = flEnabled[d]
  BY <1>0, <1>1 DEF FlType
<1>8. CpusHeld' /\ InInterruptExact'
  BY <1>0, <1>1, <1>3, <1>4, <1>7, HandlerStep, Zenon
<1> QED BY <1>3, <1>6, <1>8 DEF FlInv

(* The end of a fault takes the interrupt of the CPU it ends on off its   *)
(* count.                                                                 *)
LEMMA LeaveFaultStep ==
  ASSUME FlType, FlInv, NEW t \in FlThreads, NEW c \in FlCpus, LeaveFault(t, c)
  PROVE  FlType' /\ FlInv'
<1>0. /\ InHandler(t) /\ flRun[c] = t /\ ~flHalted /\ t # FlIdle
      /\ flRun' = flRun /\ flOwn' = flOwn /\ flBusy' = flBusy /\ flCritical' = flCritical /\ flEnabled' = flEnabled
      /\ flHalted' = flHalted /\ flSaved' = [flSaved EXCEPT ![t] = NoState]
      /\ flFaulting' = [flFaulting EXCEPT ![t] = FALSE]
      /\ flIn' = [flIn EXCEPT ![c] = flIn[c] - 1] /\ flCpu' = [flCpu EXCEPT ![t] = FirstCpu]
      /\ flPc' = [flPc EXCEPT ![t] = "sub"]
  BY FlAssumption DEF LeaveFault, FlAt, GoesTo, InHandler
<1>1. CpusHeld /\ InInterruptExact /\ flIn[c] = 1 /\ CountersKept(t)
  BY <1>0 DEF FlInv, InInterruptExact, InHandler
<1>2. FirstCpu \in FlCpus /\ NoState \in [busy : Int, critical : Int, depth : Nat]
  BY FlAssumption DEF FirstCpu, NoState
<1>3. FlType'
  BY <1>0, <1>1, <1>2, SMTT(30) DEF FlType, FlPlaces
<1>4. flPc'[t] = "sub" /\ flIn'[c] = 0 /\ ~flFaulting'[t]
  BY <1>0, <1>1 DEF FlType
<1>5. CountersKept(t)'
  BY <1>0, <1>1, <1>4, Zenon DEF CountersKept, InHandler
<1>6. (\A u \in FlThreads : CountersKept(u))'
  BY <1>0, <1>5, OthersKept, Zenon DEF FlInv, FlType
<1>7. /\ \A u \in FlThreads \ {t} : flPc'[u] = flPc[u] /\ flCpu'[u] = flCpu[u]
      /\ \A d \in FlCpus \ {c} : flIn'[d] = flIn[d] /\ flEnabled'[d] = flEnabled[d]
  BY <1>0, <1>1 DEF FlType
<1>8. CpusHeld' /\ InInterruptExact'
  BY <1>0, <1>1, <1>3, <1>4, <1>7, HandlerStep
<1> QED BY <1>3, <1>6, <1>8 DEF FlInv

(* The end of the fault's busy section and the return to the code.        *)
LEMMA ReturnStep ==
  ASSUME FlType, FlInv, NEW t \in FlThreads, NEW c \in FlCpus, SubBusyLast(t, c) \/ ReturnFault(t, c)
  PROVE  FlType' /\ FlInv'
<1>0. /\ flRun[c] = t /\ ~flHalted /\ t # FlIdle
      /\ flRun' = flRun /\ flIn' = flIn /\ flOwn' = flOwn /\ flCritical' = flCritical
      /\ flFaulting' = flFaulting /\ flSaved' = flSaved /\ flCpu' = flCpu /\ flHalted' = flHalted
      /\ flPc[t] \in {"sub", "return"}
  BY FlAssumption, Zenon DEF SubBusyLast, ReturnFault, FlAt, flCpuVars, flFrameVars
<1>1. CpusHeld /\ InInterruptExact /\ flIn[c] = 0 /\ CountersKept(t) /\ flOwn[t] \in Seq(FlSections) /\ Len(flOwn[t]) \in Nat
  <2>1. CpusHeld /\ InInterruptExact /\ flIn[c] = 0 /\ CountersKept(t)
    BY <1>0, Zenon DEF FlInv, InInterruptExact
  <2> QED BY <2>1 DEF FlType
<1>2. CASE SubBusyLast(t, c)
  <2>1. /\ flPc[t] = "sub" /\ flEnabled' = flEnabled /\ flBusy' = [flBusy EXCEPT ![t] = flBusy[t] - 1]
        /\ \E p \in {"exit", "return"} : flPc' = [flPc EXCEPT ![t] = p]
    BY <1>2, Zenon DEF SubBusyLast, FlAt, flCpuVars, AfterBusy, GoesTo
  <2>2. FlType' /\ flPc'[t] \in {"exit", "return"} /\ flBusy'[t] = flBusy[t] - 1
    BY <1>0, <2>1, SMTT(30) DEF FlType, FlPlaces
  <2>3. CountersKept(t)'
    <3>1. flBusy[t] = Len(flOwn[t]) + 1 /\ flCritical[t] = CriticalIn(flOwn[t]) /\ ~flFaulting[t]
      BY <1>1, <2>1, Zenon DEF CountersKept
    <3>2. flBusy'[t] = Len(flOwn[t])
      BY <1>1, <2>2, <3>1
    <3> QED BY <1>0, <2>2, <3>1, <3>2 DEF CountersKept
  <2>4. (\A u \in FlThreads : CountersKept(u))'
    BY <1>0, <2>1, <2>3, OthersKept, Zenon DEF FlInv, FlType
  <2>5. \A u \in FlThreads \ {t} : flPc'[u] = flPc[u]
    BY <2>1 DEF FlType
  <2>6. CpusHeld' /\ InInterruptExact'
    BY <1>0, <1>1, <2>1, <2>2, <2>5, HandlerStep, Zenon
  <2> QED BY <2>2, <2>4, <2>6, Zenon DEF FlInv
<1>3. CASE ReturnFault(t, c)
  <2>1. /\ flPc[t] = "return" /\ flEnabled' = [flEnabled EXCEPT ![c] = TRUE] /\ flBusy' = flBusy
        /\ flPc' = [flPc EXCEPT ![t] = "code"]
    BY <1>3 DEF ReturnFault, FlAt, GoesTo
  <2>2. FlType' /\ flPc'[t] = "code"
    BY <1>0, <2>1 DEF FlType, FlPlaces
  <2>3. CountersKept(t)'
    BY <1>0, <1>1, <2>1, <2>2 DEF CountersKept
  <2>4. (\A u \in FlThreads : CountersKept(u))'
    BY <1>0, <2>1, <2>3, OthersKept, Zenon DEF FlInv, FlType
  <2>5. /\ \A u \in FlThreads \ {t} : flPc'[u] = flPc[u]
        /\ \A d \in FlCpus \ {c} : flEnabled'[d] = flEnabled[d]
    BY <2>1 DEF FlType
  <2>6. CpusHeld' /\ InInterruptExact'
    BY <1>0, <1>1, <2>2, <2>5, HandlerStep, Zenon
  <2> QED BY <2>2, <2>4, <2>6 DEF FlInv
<1> QED BY <1>2, <1>3

(* The end of the thread in its fault, and the panic that halts the       *)
(* machine.                                                               *)
LEMMA ExitPanicStep ==
  ASSUME FlType, FlInv, NEW t \in FlThreads, NEW c \in FlCpus, ExitThread(t, c) \/ Panic(t, c)
  PROVE  FlType' /\ FlInv'
<1>0. /\ flOwn' = flOwn /\ flBusy' = flBusy /\ flCritical' = flCritical /\ flIn' = flIn /\ flEnabled' = flEnabled
      /\ flFaulting' = flFaulting /\ flSaved' = flSaved /\ flCpu' = flCpu
  BY DEF ExitThread, Panic, flCpuVars, flFrameVars
<1>1. CASE flHalted' = TRUE
  <2>1. flPc' = flPc /\ flRun' = flRun
    BY <1>1, Zenon DEF ExitThread, Panic, flCpuVars, FlAt
  <2>2. FlType'
    BY <1>0, <2>1 DEF FlType
  <2>3. (\A u \in FlThreads : CountersKept(u))'
    BY <1>0, <2>1, Zenon DEF FlInv, CountersKept
  <2> QED BY <1>1, <2>2, <2>3, Zenon DEF FlInv, InInterruptExact
<1>2. CASE flHalted' # TRUE
  <2>1. /\ flPc[t] = "exit" /\ flRun[c] = t /\ t # FlIdle /\ ~flHalted /\ flHalted' = flHalted
        /\ flPc' = [flPc EXCEPT ![t] = "dead"] /\ flRun' = [flRun EXCEPT ![c] = FlIdle]
    BY <1>2, FlAssumption, Zenon DEF ExitThread, Panic, FlAt, GoesTo
  <2>2. FlType'
    BY <1>0, <2>1, SMTT(30) DEF FlType, FlPlaces
  <2>3. flPc'[t] = "dead" /\ \A u \in FlThreads \ {t} : flPc'[u] = flPc[u]
    BY <2>1 DEF FlType
  <2>4. flRun'[c] = FlIdle /\ \A d \in FlCpus \ {c} : flRun'[d] = flRun[d]
    BY <2>1 DEF FlType
  <2>5. CountersKept(t)'
    BY <2>3, SMTT(30) DEF CountersKept
  <2>6. (\A u \in FlThreads : CountersKept(u))'
    BY <1>0, <2>3, <2>5, OthersKept DEF FlInv
  <2>7. CpusHeld'
    <3>1. CpusHeld
      BY <2>1 DEF FlInv
    <3>2. \A u \in FlThreads : InHandler(u)' => InHandler(u) /\ u # t
      BY <2>3 DEF InHandler
    <3>3. \A u \in FlThreads : InHandler(u)' => \E d \in FlCpus : flRun'[d] = u
      BY <3>1, <3>2, <2>1, <2>4 DEF CpusHeld
    <3>4. \A d \in FlCpus, u \in FlThreads : flRun'[d] = u /\ InHandler(u)' => ~flEnabled'[d] /\ flCpu'[u] = d
      BY <3>1, <3>2, <2>4, <1>0, FlAssumption DEF CpusHeld
    <3>5. \A d, e \in FlCpus : flRun'[d] = flRun'[e] /\ flRun'[d] # FlIdle => d = e
      BY <3>1, <2>4 DEF CpusHeld
    <3> QED BY <3>3, <3>4, <3>5 DEF CpusHeld
  <2>8. InInterruptExact'
    <3> SUFFICES ASSUME NEW d \in FlCpus
                 PROVE  flIn'[d] = IF flRun'[d] # FlIdle /\ flPc'[flRun'[d]] \in {"entered", "back"} THEN 1 ELSE 0
      BY DEF InInterruptExact
    <3>1. InInterruptExact /\ CpusHeld
      BY <2>1 DEF FlInv
    <3>2. CASE d = c
      BY <3>1, <3>2, <2>1, <2>4, <1>0 DEF InInterruptExact
    <3>3. CASE d # c
      <4>1. flRun'[d] = flRun[d] /\ flRun[d] # t /\ flRun[d] \in FlThreads \union {FlIdle}
        BY <3>1, <3>3, <2>1, <2>4 DEF CpusHeld, FlType
      <4>2. flRun[d] # FlIdle => flPc'[flRun[d]] = flPc[flRun[d]]
        BY <4>1, <2>3
      <4> QED BY <4>1, <4>2, <3>1, <1>0, <2>1 DEF InInterruptExact
    <3> QED BY <3>2, <3>3
  <2> QED BY <2>2, <2>6, <2>7, <2>8 DEF FlInv
<1> QED BY <1>1, <1>2, Zenon

(* The scheduler changes the thread of a CPU only while no handler holds  *)
(* that CPU.                                                              *)
LEMMA SwitchStep ==
  ASSUME FlType, FlInv, NEW c \in FlCpus, NEW t \in FlThreads \union {FlIdle}, Switch(c, t)
  PROVE  FlType' /\ FlInv'
<1>0. /\ flOwn' = flOwn /\ flBusy' = flBusy /\ flCritical' = flCritical /\ flIn' = flIn /\ flEnabled' = flEnabled
      /\ flFaulting' = flFaulting /\ flSaved' = flSaved /\ flCpu' = flCpu /\ flPc' = flPc /\ flHalted' = flHalted
      /\ flRun' = [flRun EXCEPT ![c] = t] /\ ~flHalted /\ flEnabled[c]
      /\ t # FlIdle => \A d \in FlCpus : flRun[d] # t
  BY DEF Switch, flFrameVars
<1>1. FlType'
  BY <1>0 DEF FlType
<1>2. (\A u \in FlThreads : CountersKept(u))'
  BY <1>0, Zenon DEF FlInv, CountersKept
<1>3. CpusHeld /\ InInterruptExact
  BY <1>0 DEF FlInv
<1>4. flRun'[c] = t /\ \A d \in FlCpus \ {c} : flRun'[d] = flRun[d]
  BY <1>0 DEF FlType
<1>5. /\ t # FlIdle => ~InHandler(t)
      /\ flRun[c] # FlIdle => ~InHandler(flRun[c])
  BY <1>0, <1>3 DEF CpusHeld, FlType
<1>6. CpusHeld'
  <2>1. \A u \in FlThreads : InHandler(u)' = InHandler(u)
    BY <1>0 DEF InHandler
  <2>2. \A u \in FlThreads : InHandler(u) => \E d \in FlCpus : flRun'[d] = u
    <3> SUFFICES ASSUME NEW u \in FlThreads, InHandler(u) PROVE \E d \in FlCpus : flRun'[d] = u
      OBVIOUS
    <3>1. PICK d \in FlCpus : flRun[d] = u
      BY <1>3 DEF CpusHeld
    <3>2. d # c
      BY <3>1, <1>5, FlAssumption
    <3> QED BY <3>1, <3>2, <1>4
  <2>3. \A d \in FlCpus, u \in FlThreads : flRun'[d] = u /\ InHandler(u) => ~flEnabled'[d] /\ flCpu'[u] = d
    BY <1>0, <1>3, <1>4, <1>5, FlAssumption DEF CpusHeld
  <2>4. \A d, e \in FlCpus : flRun'[d] = flRun'[e] /\ flRun'[d] # FlIdle => d = e
    BY <1>0, <1>3, <1>4 DEF CpusHeld
  <2> QED BY <2>1, <2>2, <2>3, <2>4 DEF CpusHeld
<1>7. InInterruptExact'
  <2> SUFFICES ASSUME NEW d \in FlCpus
               PROVE  flIn[d] = IF flRun'[d] # FlIdle /\ flPc[flRun'[d]] \in {"entered", "back"} THEN 1 ELSE 0
    BY <1>0 DEF InInterruptExact
  <2>1. CASE d = c
    <3>1. flIn[c] = 0
      BY <1>0, <1>3, <1>5 DEF InInterruptExact, InHandler
    <3> QED BY <2>1, <3>1, <1>4, <1>5 DEF InHandler
  <2>2. CASE d # c
    BY <2>2, <1>0, <1>3, <1>4 DEF InInterruptExact
  <2> QED BY <2>1, <2>2
<1> QED BY <1>1, <1>2, <1>6, <1>7 DEF FlInv

(* Thread::abort() by another thread leaves the counters alone.           *)
LEMMA AbortStep ==
  ASSUME FlType, FlInv, NEW t \in FlThreads, AbortThread(t)
  PROVE  FlType' /\ FlInv'
<1>0. /\ flOwn' = flOwn /\ flBusy' = flBusy /\ flCritical' = flCritical /\ flIn' = flIn /\ flEnabled' = flEnabled
      /\ flFaulting' = flFaulting /\ flSaved' = flSaved /\ flCpu' = flCpu /\ flRun' = flRun /\ flHalted' = flHalted
      /\ ~flHalted /\ \A c \in FlCpus : flRun[c] # t
      /\ flPc' = flPc \/ flPc' = [flPc EXCEPT ![t] = "dead"]
  BY DEF AbortThread, flFrameVars, flCpuVars
<1>1. CpusHeld /\ InInterruptExact
  BY <1>0 DEF FlInv
<1>2. FlType'
  BY <1>0, Zenon DEF FlType, FlPlaces
<1>3. flPc'[t] \in {flPc[t], "dead"} /\ \A u \in FlThreads \ {t} : flPc'[u] = flPc[u]
  BY <1>0 DEF FlType
<1>4. CountersKept(t)'
  <2>1. CASE flPc'[t] = "dead"
    BY <2>1 DEF CountersKept
  <2>2. CASE flPc'[t] = flPc[t]
    BY <2>2, <1>0, SMTT(30) DEF FlInv, CountersKept
  <2> QED BY <2>1, <2>2, <1>3
<1>5. (\A u \in FlThreads : CountersKept(u))'
  BY <1>0, <1>3, <1>4, OthersKept DEF FlInv
<1>6. CpusHeld'
  <2>1. \A u \in FlThreads : InHandler(u)' => InHandler(u)
    BY <1>3 DEF InHandler
  <2> QED BY <2>1, <1>0, <1>1, Zenon DEF CpusHeld
<1>7. InInterruptExact'
  <2>1. \A d \in FlCpus : flRun[d] # FlIdle => flPc'[flRun[d]] = flPc[flRun[d]]
    BY <1>0, <1>3, SMTT(30) DEF FlType
  <2> QED BY <2>1, <1>0, <1>1, Zenon DEF InInterruptExact
<1> QED BY <1>2, <1>5, <1>6, <1>7 DEF FlInv

(* At first no thread is in a section and no CPU in an interrupt.         *)
LEMMA FlInitInv == FlInit => FlType /\ FlInv
<1> SUFFICES ASSUME FlInit PROVE FlType /\ FlInv
  OBVIOUS
<1>1. FirstCpu \in FlCpus /\ NoState \in [busy : Int, critical : Int, depth : Nat]
  BY FlAssumption DEF FirstCpu, NoState
<1>2. FlType
  <2>1. <<>> \in Seq(FlSections)
    OBVIOUS
  <2> QED BY <1>1, <2>1 DEF FlType, FlInit, FlPlaces
<1>3. \A t \in FlThreads : CountersKept(t)
  <2> SUFFICES ASSUME NEW t \in FlThreads PROVE CountersKept(t)
    OBVIOUS
  <2>1. Len(<<>>) = 0
    OBVIOUS
  <2>2. CriticalIn(<<>>) = 0
    <3>1. {i \in DOMAIN <<>> : <<>>[i] = "critical"} = {}
      OBVIOUS
    <3> QED BY <3>1, FS_EmptySet DEF CriticalIn
  <2>3. /\ flPc[t] = "code" /\ flOwn[t] = <<>> /\ flBusy[t] = 0 /\ flCritical[t] = 0 /\ flFaulting[t] = FALSE
    BY DEF FlInit
  <2> QED BY <2>1, <2>2, <2>3 DEF CountersKept
<1>4. CpusHeld
  BY FlAssumption DEF FlInit, CpusHeld, InHandler
<1>5. InInterruptExact
  BY DEF FlInit, InInterruptExact
<1> QED BY <1>2, <1>3, <1>4, <1>5 DEF FlInv

(* Every step keeps the invariant of the faults.                          *)
LEMMA FlStepInv == FlType /\ FlInv /\ [FlNext]_flVars => FlType' /\ FlInv'
<1> SUFFICES ASSUME FlType, FlInv, [FlNext]_flVars PROVE FlType' /\ FlInv'
  OBVIOUS
<1>1. CASE UNCHANGED flVars
  <2>1. /\ flOwn' = flOwn /\ flBusy' = flBusy /\ flCritical' = flCritical /\ flIn' = flIn /\ flEnabled' = flEnabled
        /\ flFaulting' = flFaulting /\ flSaved' = flSaved /\ flCpu' = flCpu /\ flRun' = flRun /\ flHalted' = flHalted
        /\ flPc' = flPc
    BY <1>1 DEF flVars, flCpuVars, flFrameVars
  <2>2. (\A u \in FlThreads : CountersKept(u))'
    BY <2>1 DEF FlInv, CountersKept
  <2> QED BY <2>1, <2>2 DEF FlType, FlInv, CpusHeld, InHandler, InInterruptExact
<1>2. ASSUME NEW t \in FlThreads, NEW c \in FlCpus, FlStep(t, c) PROVE FlType' /\ FlInv'
  BY <1>2, EnterLeave, ExitPanicStep, RaiseStep, OutStep, InStep, LeaveFaultStep, ReturnStep DEF FlStep, FlSections
<1> QED BY <1>1, <1>2, SwitchStep, AbortStep DEF FlNext

\* Every fault leaves in_interrupt of every CPU and the counters of the thread
\* exact, for any CPUs, threads and depth of sections (fault.cpp:66, 270-289).
THEOREM FaultCorrect == FlSpec => []FaultCountersExact
<1>1. FlType /\ FlInv => FaultCountersExact
  BY Zenon DEF FlInv, CountersKept, CriticalIn, FaultCountersExact, CountersRestored
<1> QED BY <1>1, FlInitInv, FlStepInv, PTL DEF FlSpec
=============================================================================
