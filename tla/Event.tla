------------------------------- MODULE Event -------------------------------
(***************************************************************************)
(* IPC::Event: threads block on it with wait(), raise() and defunct()      *)
(* unblock them, and a device interrupt handler may call raise() on top of *)
(* the thread it interrupted, whose state IRQ::handle() saves and          *)
(* restores.  The scheduler appears as it does to a waiter: a thread that  *)
(* is not TS_RUNNABLE leaves its CPU when it yields or is preempted and    *)
(* comes back when schedule() finds it eligible (see Scheduler).           *)
(***************************************************************************)
EXTENDS Naturals, FiniteSets

CONSTANTS
    EvThread,     \* the threads that use the event
    Irq         \* those that may run on the CPU the device interrupts go to

ASSUME EventAssumption == Irq \subseteq EvThread

VARIABLES
    m_lock,         \* the spinlock's flag
    m_tiddies,      \* the waiters (a vector without duplicates)
    m_defunct,
    status,         \* thread->status
    evInterrupted,    \* thread->interrupted(): a pending abort or signal
    pc,             \* what the thread does
    ipc,            \* what the interrupt handler on top of it does, or "none"
    saved           \* the status in the state that IRQ::handle() saved

evVars == <<m_lock, m_tiddies, m_defunct>>
irqVars == <<ipc, saved>>
eventVars == <<evVars, status, evInterrupted, pc, irqVars>>

EvInit ==
    /\ m_lock = FALSE
    /\ m_tiddies = {}
    /\ m_defunct = FALSE
    /\ status = [t \in EvThread |-> "RUNNABLE"]
    /\ evInterrupted = [t \in EvThread |-> FALSE]
    /\ pc = [t \in EvThread |-> "out"]
    /\ ipc = [t \in EvThread |-> "none"]
    /\ saved = [t \in EvThread |-> "RUNNABLE"]

(* t itself executes: it is on a CPU and no handler runs on top of it      *)
Executes(t) == pc[t] \notin {"off", "dead"} /\ ipc[t] = "none"

----------------------------------------------------------------------------
(* m_lock.acquire() at the start of wait(), raise() and defunct()          *)
Calls == {"wait", "raise", "defunct"}

Call(t, op) ==
    /\ Executes(t)
    /\ pc[t] = "out"
    /\ pc' = [pc EXCEPT ![t] = op]
    /\ UNCHANGED <<evVars, status, evInterrupted, irqVars>>

(* the compare-and-swap of acquire() succeeds                              *)
Swapped == ~m_lock

Acquire(t) ==
    /\ Executes(t)
    /\ pc[t] \in Calls
    /\ Swapped
    /\ m_lock' = TRUE
    /\ pc' = [pc EXCEPT ![t] = IF @ = "wait" THEN "enqueue"
                               ELSE IF @ = "raise" THEN "wake" ELSE "mark"]
    /\ UNCHANGED <<m_tiddies, m_defunct, status, evInterrupted, irqVars>>

(* wait() returns at once from a defunct event ...                         *)
Refuses == m_defunct

WaitDefunct(t) ==
    /\ Executes(t)
    /\ pc[t] = "enqueue"
    /\ Refuses
    /\ m_lock' = FALSE
    /\ pc' = [pc EXCEPT ![t] = "out"]
    /\ UNCHANGED <<m_tiddies, m_defunct, status, evInterrupted, irqVars>>

(* ... or puts the thread on the queue, with or without a timeout          *)
PushNone(t) == m_tiddies
Push(t) == m_tiddies \union {t}

Enqueue(t, st) ==
    /\ Executes(t)
    /\ pc[t] = "enqueue"
    /\ ~Refuses
    /\ m_tiddies' = Push(t)
    /\ status' = [status EXCEPT ![t] = st]
    /\ pc' = [pc EXCEPT ![t] = "queued"]
    /\ UNCHANGED <<m_lock, m_defunct, evInterrupted, irqVars>>

(* m_lock.release(): wait() goes on to yield, raise() and defunct() return *)
Release(t) ==
    /\ Executes(t)
    /\ pc[t] \in {"queued", "woken"}
    /\ m_lock' = FALSE
    /\ pc' = [pc EXCEPT ![t] = IF @ = "woken" THEN "out" ELSE "yield"]
    /\ UNCHANGED <<m_tiddies, m_defunct, status, evInterrupted, irqVars>>

(* AEX_ASSERT(m_tiddies.at(i)->status != TS_DEAD); a failure stops the     *)
(* kernel.                                                                 *)
NoneDead == \A u \in m_tiddies : status[u] # "DEAD"

(* the loop over m_tiddies, m_tiddies.clear()                              *)
WakeAll ==
    /\ status' = [u \in EvThread |-> IF u \in m_tiddies THEN "RUNNABLE" ELSE status[u]]
    /\ m_tiddies' = {}

Raise(t) ==
    /\ Executes(t)
    /\ pc[t] = "wake"
    /\ NoneDead
    /\ WakeAll
    /\ pc' = [pc EXCEPT ![t] = "woken"]
    /\ UNCHANGED <<m_lock, m_defunct, evInterrupted, irqVars>>

Defunct(t) ==
    /\ Executes(t)
    /\ pc[t] = "mark"
    /\ NoneDead
    /\ m_defunct' = TRUE
    /\ WakeAll
    /\ pc' = [pc EXCEPT ![t] = "woken"]
    /\ UNCHANGED <<m_lock, evInterrupted, irqVars>>

----------------------------------------------------------------------------
(* The scheduler.  A thread outside the critical section of the spinlock   *)
(* leaves its CPU by Thread::yield() or by preemption and, when it comes   *)
(* back, wait() is over.                                                   *)
LeaveCPU(t) ==
    /\ Executes(t)
    /\ pc[t] \in {"out", "yield"}
    /\ pc' = [pc EXCEPT ![t] = "off"]
    /\ UNCHANGED <<evVars, status, evInterrupted, irqVars>>

(* schedule() runs a TS_BLOCKED thread that is interrupted, leaving its    *)
(* status as it is                                                         *)
Resume(t) ==
    /\ pc[t] = "off"
    /\ \/ status[t] = "RUNNABLE"
       \/ status[t] = "BLOCKED" /\ evInterrupted[t]
    /\ pc' = [pc EXCEPT ![t] = "out"]
    /\ UNCHANGED <<evVars, status, evInterrupted, irqVars>>

(* A scan of schedule(), on any CPU, finds the sleep over or interrupted   *)
WakeSleeper(t) ==
    /\ status[t] = "SLEEPING"
    /\ status' = [status EXCEPT ![t] = "RUNNABLE"]
    /\ UNCHANGED <<evVars, evInterrupted, pc, irqVars>>

(* Another thread aborts or signals t; t handles the signal                *)
Interrupt(t) ==
    /\ pc[t] # "dead"
    /\ ~evInterrupted[t]
    /\ evInterrupted' = [evInterrupted EXCEPT ![t] = TRUE]
    /\ UNCHANGED <<evVars, status, pc, irqVars>>

EvHandleSignal(t) ==
    /\ Executes(t)
    /\ pc[t] = "out"
    /\ evInterrupted[t]
    /\ evInterrupted' = [evInterrupted EXCEPT ![t] = FALSE]
    /\ UNCHANGED <<evVars, status, pc, irqVars>>

EvExit(t) ==
    /\ Executes(t)
    /\ pc[t] = "out"
    /\ status' = [status EXCEPT ![t] = "DEAD"]
    /\ pc' = [pc EXCEPT ![t] = "dead"]
    /\ UNCHANGED <<evVars, evInterrupted, irqVars>>

----------------------------------------------------------------------------
(* IRQ::handle() on top of t: saveState(), TS_RUNNABLE, the handler, which *)
(* calls raise(), and loadState().  Interrupts are enabled everywhere in   *)
(* wait() and raise().                                                     *)
IrqEnter(t) ==
    /\ t \in Irq
    /\ Executes(t)
    /\ saved' = [saved EXCEPT ![t] = status[t]]
    /\ status' = [status EXCEPT ![t] = "RUNNABLE"]
    /\ ipc' = [ipc EXCEPT ![t] = "raise"]
    /\ UNCHANGED <<evVars, evInterrupted, pc>>

IrqAcquire(t) ==
    /\ ipc[t] = "raise"
    /\ Swapped
    /\ m_lock' = TRUE
    /\ ipc' = [ipc EXCEPT ![t] = "wake"]
    /\ UNCHANGED <<m_tiddies, m_defunct, status, evInterrupted, pc, saved>>

IrqRaise(t) ==
    /\ ipc[t] = "wake"
    /\ NoneDead
    /\ WakeAll
    /\ ipc' = [ipc EXCEPT ![t] = "woken"]
    /\ UNCHANGED <<m_lock, m_defunct, evInterrupted, pc, saved>>

IrqRelease(t) ==
    /\ ipc[t] = "woken"
    /\ m_lock' = FALSE
    /\ ipc' = [ipc EXCEPT ![t] = "restore"]
    /\ UNCHANGED <<m_tiddies, m_defunct, status, evInterrupted, pc, saved>>

IrqLeave(t) ==
    /\ ipc[t] = "restore"
    /\ status' = [status EXCEPT ![t] = saved[t]]
    /\ saved' = [saved EXCEPT ![t] = "RUNNABLE"]
    /\ ipc' = [ipc EXCEPT ![t] = "none"]
    /\ UNCHANGED <<evVars, evInterrupted, pc>>

----------------------------------------------------------------------------
(* The steps that end what a thread or a handler has begun                 *)
Progress(t) ==
    \/ Acquire(t) \/ WaitDefunct(t) \/ Raise(t) \/ Defunct(t) \/ Release(t)
    \/ \E st \in {"BLOCKED", "SLEEPING"} : Enqueue(t, st)
    \/ pc[t] = "yield" /\ LeaveCPU(t)
    \/ Resume(t) \/ WakeSleeper(t)
    \/ IrqAcquire(t) \/ IrqRaise(t) \/ IrqRelease(t) \/ IrqLeave(t)

ThreadNext(t) ==
    \/ Progress(t)
    \/ \E op \in Calls : Call(t, op)
    \/ LeaveCPU(t) \/ Interrupt(t) \/ EvHandleSignal(t) \/ EvExit(t) \/ IrqEnter(t)

EvNext == \E t \in EvThread : ThreadNext(t)

EvSpec == EvInit /\ [][EvNext]_eventVars

----------------------------------------------------------------------------
Statuses == {"RUNNABLE", "BLOCKED", "SLEEPING", "DEAD"}

(* Type correctness of the event, the threads and the interrupt frames.    *)
EvTypeOK ==
    /\ m_lock \in BOOLEAN
    /\ m_tiddies \subseteq EvThread
    /\ m_defunct \in BOOLEAN
    /\ status \in [EvThread -> Statuses]
    /\ evInterrupted \in [EvThread -> BOOLEAN]
    /\ pc \in [EvThread -> Calls \union {"out", "enqueue", "queued", "wake", "mark",
                                         "woken", "yield", "off", "dead"}]
    /\ ipc \in [EvThread -> {"none", "raise", "wake", "woken", "restore"}]
    /\ saved \in [EvThread -> Statuses]

LockedPcs == {"enqueue", "queued", "wake", "mark", "woken"}
ThreadHolds(t) == pc[t] \in LockedPcs
IrqHolds(t) == ipc[t] \in {"wake", "woken"}

(* m_lock is set exactly while one thread or one handler is between its    *)
(* acquire() and its release().                                            *)
LockExclusive ==
    /\ m_lock <=> \E t \in EvThread : ThreadHolds(t) \/ IrqHolds(t)
    /\ \A t \in EvThread : ~(ThreadHolds(t) /\ IrqHolds(t))
    /\ \A t, u \in EvThread : (ThreadHolds(t) \/ IrqHolds(t))
                            /\ (ThreadHolds(u) \/ IrqHolds(u)) => t = u

(* No wake-up is lost: a TS_BLOCKED thread that no device interrupt hits   *)
(* is on the queue, so that the next raise() finds it.                     *)
BlockedIsQueued == \A t \in EvThread \ Irq : status[t] = "BLOCKED" => t \in m_tiddies

(* A defunct event blocks nobody: defunct() unblocks the waiters and no    *)
(* later wait() blocks.                                                    *)
DefunctBlocksNobody ==
    m_defunct => m_tiddies = {} /\ \A t \in EvThread \ Irq : status[t] # "BLOCKED"

(* raise() "unblocks all threads" that wait (event.hpp:20): whoever is     *)
(* still TS_BLOCKED is still on the queue.                                 *)
RaiseUnblocksAll ==
    \A t \in EvThread : status[t] = "BLOCKED" => t \in m_tiddies
=============================================================================
