------------------------------ MODULE RWMutex ------------------------------
(***************************************************************************)
(* kernel/rwmutex.cpp: the reader/writer mutex.  Two counters, m_read and  *)
(* m_write, and a spinlock m_lock that serialises the operations that      *)
(* admit a thread.  release_read and release_write do not take m_lock, so  *)
(* they interleave with every step of the others.  kernel/rwspinlock.cpp   *)
(* is the same protocol with the critical counter in place of busy.        *)
(*                                                                         *)
(* held[t] is what thread t owns; "both" is the middle of upgrade and      *)
(* downgrade, between their two atomic operations.                         *)
(***************************************************************************)
EXTENDS Integers, FiniteSets

CONSTANTS RwThread, RwNoOne

ASSUME ThreadAssumption == IsFiniteSet(RwThread) /\ RwNoOne \notin RwThread

VARIABLES
    m_read, m_write,   \* the two counters
    rw_m_lock,         \* m_lock: owner of the inner spinlock, or RwNoOne
    op,                \* operation thread t is executing, or "none"
    at,                \* where in that operation it is
    held,              \* "none", "read", "write" or "both"
    busy               \* addBusy/subBusy made on behalf of this mutex

rwVars == <<m_read, m_write, rw_m_lock, op, at, held, busy>>

Acquires == {"acquire_read", "acquire_write"}
Tries == {"tryAcquire_read", "tryAcquire_write"}
ReadOps == {"acquire_read", "tryAcquire_read"}
WriteOps == {"acquire_write", "tryAcquire_write"}
Releases == {"release_read", "release_write"}
Ops == Acquires \union Tries \union {"upgrade", "downgrade"} \union Releases

RwInit ==
    /\ m_read = 0
    /\ m_write = 0
    /\ rw_m_lock = RwNoOne
    /\ op = [t \in RwThread |-> "none"]
    /\ at = [t \in RwThread |-> "idle"]
    /\ held = [t \in RwThread |-> "none"]
    /\ busy = [t \in RwThread |-> 0]

(* The mode a caller of an operation is in when it uses the class as the   *)
(* scope guards of rwmutex.hpp do.                                         *)
Needs(o) ==
    CASE o \in Acquires \union Tries -> "none"
      [] o \in {"upgrade", "release_read"} -> "read"
      [] o \in {"downgrade", "release_write"} -> "write"

RwCall(t, o) ==
    /\ op[t] = "none"
    /\ held[t] = Needs(o)
    /\ op' = [op EXCEPT ![t] = o]
    /\ at' = [at EXCEPT ![t] = IF o \in Releases THEN "assert" ELSE "want"]
    /\ UNCHANGED <<m_read, m_write, rw_m_lock, held, busy>>

(* m_lock.acquire()                                                        *)
TakeLock(t) ==
    /\ at[t] = "want"
    /\ rw_m_lock = RwNoOne
    /\ rw_m_lock' = t
    /\ at' = [at EXCEPT ![t] = "in"]
    /\ UNCHANGED <<m_read, m_write, op, held, busy>>

(* m_lock.release() at the end of an operation                             *)
Unlock(t) ==
    /\ at[t] = "done"
    /\ rw_m_lock' = RwNoOne
    /\ op' = [op EXCEPT ![t] = "none"]
    /\ at' = [at EXCEPT ![t] = "idle"]
    /\ UNCHANGED <<m_read, m_write, held, busy>>

(* the test of m_write made under m_lock                                   *)
WriteUnchecked == TRUE
NoWriter == m_write = 0

(* the loops of acquire_read, acquire_write and upgrade: a writer is in,   *)
(* so m_lock is dropped and taken again                                    *)
Spin(t) ==
    /\ at[t] = "in"
    /\ op[t] \in Acquires \union {"upgrade"}
    /\ ~NoWriter
    /\ rw_m_lock' = RwNoOne
    /\ at' = [at EXCEPT ![t] = "want"]
    /\ UNCHANGED <<m_read, m_write, op, held, busy>>

(* tryAcquire_* returning false                                            *)
GiveUp(t) ==
    /\ at[t] = "in"
    /\ op[t] \in Tries
    /\ ~NoWriter
    /\ rw_m_lock' = RwNoOne
    /\ op' = [op EXCEPT ![t] = "none"]
    /\ at' = [at EXCEPT ![t] = "idle"]
    /\ UNCHANGED <<m_read, m_write, held, busy>>

(* addBusy(), then the atomic_add, in two steps                            *)
AddBusy(t) ==
    /\ at[t] = "in"
    /\ op[t] \in Acquires \union Tries
    /\ NoWriter
    /\ busy' = [busy EXCEPT ![t] = @ + 1]
    /\ at' = [at EXCEPT ![t] = "add"]
    /\ UNCHANGED <<m_read, m_write, rw_m_lock, op, held>>

AdmitReader(t) ==
    /\ at[t] = "add"
    /\ op[t] \in ReadOps
    /\ m_read' = m_read + 1
    /\ held' = [held EXCEPT ![t] = "read"]
    /\ at' = [at EXCEPT ![t] = "done"]
    /\ UNCHANGED <<m_write, rw_m_lock, op, busy>>

AdmitWriter(t) ==
    /\ at[t] = "add"
    /\ op[t] \in WriteOps
    /\ m_write' = m_write + 1
    /\ held' = [held EXCEPT ![t] = "write"]
    /\ at' = [at EXCEPT ![t] = "done"]
    /\ UNCHANGED <<m_read, rw_m_lock, op, busy>>

(* upgrade: the writer count goes up before the reader count goes down     *)
Upgrade(t) ==
    /\ at[t] = "in"
    /\ op[t] = "upgrade"
    /\ NoWriter
    /\ m_write' = m_write + 1
    /\ held' = [held EXCEPT ![t] = "both"]
    /\ at' = [at EXCEPT ![t] = "mid"]
    /\ UNCHANGED <<m_read, rw_m_lock, op, busy>>

UpgradeEnd(t) ==
    /\ at[t] = "mid"
    /\ op[t] = "upgrade"
    /\ m_read' = m_read - 1
    /\ held' = [held EXCEPT ![t] = "write"]
    /\ at' = [at EXCEPT ![t] = "done"]
    /\ UNCHANGED <<m_write, rw_m_lock, op, busy>>

Downgrade(t) ==
    /\ at[t] = "in"
    /\ op[t] = "downgrade"
    /\ m_read' = m_read + 1
    /\ held' = [held EXCEPT ![t] = "both"]
    /\ at' = [at EXCEPT ![t] = "mid"]
    /\ UNCHANGED <<m_write, rw_m_lock, op, busy>>

DowngradeEnd(t) ==
    /\ at[t] = "mid"
    /\ op[t] = "downgrade"
    /\ m_write' = m_write - 1
    /\ held' = [held EXCEPT ![t] = "read"]
    /\ at' = [at EXCEPT ![t] = "done"]
    /\ UNCHANGED <<m_read, rw_m_lock, op, busy>>

(* release_*: the assertion reads the counter, the atomic_sub comes later, *)
(* and subBusy() after that; m_lock is never taken                         *)
CheckCount(t) ==
    /\ at[t] = "assert"
    /\ at' = [at EXCEPT ![t] = "sub"]
    /\ UNCHANGED <<m_read, m_write, rw_m_lock, op, held, busy>>

ReleaseRead(t) ==
    /\ at[t] = "sub"
    /\ op[t] = "release_read"
    /\ m_read' = m_read - 1
    /\ held' = [held EXCEPT ![t] = "none"]
    /\ at' = [at EXCEPT ![t] = "subBusy"]
    /\ UNCHANGED <<m_write, rw_m_lock, op, busy>>

ReleaseWrite(t) ==
    /\ at[t] = "sub"
    /\ op[t] = "release_write"
    /\ m_write' = m_write - 1
    /\ held' = [held EXCEPT ![t] = "none"]
    /\ at' = [at EXCEPT ![t] = "subBusy"]
    /\ UNCHANGED <<m_read, rw_m_lock, op, busy>>

RwSubBusy(t) ==
    /\ at[t] = "subBusy"
    /\ busy' = [busy EXCEPT ![t] = @ - 1]
    /\ op' = [op EXCEPT ![t] = "none"]
    /\ at' = [at EXCEPT ![t] = "idle"]
    /\ UNCHANGED <<m_read, m_write, rw_m_lock, held>>

Step(t) ==
    \/ TakeLock(t) \/ Unlock(t) \/ Spin(t) \/ GiveUp(t)
    \/ AddBusy(t) \/ AdmitReader(t) \/ AdmitWriter(t)
    \/ Upgrade(t) \/ UpgradeEnd(t) \/ Downgrade(t) \/ DowngradeEnd(t)
    \/ CheckCount(t) \/ ReleaseRead(t) \/ ReleaseWrite(t) \/ RwSubBusy(t)

RwNext == \E t \in RwThread : Step(t) \/ \E o \in Ops : RwCall(t, o)

RwSpec == RwInit /\ [][RwNext]_rwVars

----------------------------------------------------------------------------
Readers == {t \in RwThread : held[t] \in {"read", "both"}}
Writers == {t \in RwThread : held[t] \in {"write", "both"}}

(* Type correctness of the mutex and of its callers.                       *)
RwTypeOK ==
    /\ m_read \in Nat
    /\ m_write \in Nat
    /\ rw_m_lock \in RwThread \union {RwNoOne}
    /\ op \in [RwThread -> Ops \union {"none"}]
    /\ at \in [RwThread -> {"idle", "want", "in", "add", "mid", "done",
                          "assert", "sub", "subBusy"}]
    /\ held \in [RwThread -> {"none", "read", "write", "both"}]
    /\ busy \in [RwThread -> Nat]

(* No two threads are writers at once, through any mixture of              *)
(* acquire_write, tryAcquire_write and upgrade (rwmutex.cpp:24-86).        *)
WriterExclusion == \A t, u \in Writers : t = u

(* The counters are exact in every intermediate state, so the assertions   *)
(* of release_read and release_write (rwmutex.cpp:99, 108) never fire.     *)
CountersExact ==
    /\ m_read = Cardinality(Readers)
    /\ m_write = Cardinality(Writers)

(* A thread is busy, hence cannot be killed, for as long as it is counted  *)
(* in m_read or m_write, and is killable again once it has let go          *)
(* (addBusy precedes the count, subBusy follows it).                       *)
BusyWhileHeld ==
    /\ \A t \in Readers \union Writers : busy[t] > 0
    /\ \A t \in RwThread : op[t] = "none" /\ held[t] = "none" => busy[t] = 0

(* A thread that did not hold the mutex becomes a reader only when no      *)
(* writer is in (the m_write loop of acquire_read and tryAcquire_read).    *)
NoReaderAdmittedDuringWrite ==
    [][\A t \in RwThread :
          held[t] = "none" /\ held'[t] = "read" => Writers = {}]_rwVars
=============================================================================
