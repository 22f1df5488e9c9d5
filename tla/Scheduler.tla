----------------------------- MODULE Scheduler -----------------------------
(***************************************************************************)
(* proc/scheduler.cpp, the thread list of proc/proc.cpp and the parts of   *)
(* proc/thread.cpp that the scheduler interacts with.  Several CPUs run    *)
(* schedule() with interrupts off; the threads on the other CPUs go on     *)
(* changing statuses, taking thread locks, and adding, finishing and       *)
(* deleting threads meanwhile.                                             *)
(*                                                                         *)
(* thread_list_head .. thread_list_tail is the sequence list.  The idle    *)
(* thread of CPU c, which is never on the list, is c itself: cur[c] = c.   *)
(* add_thread and remove_thread hold sched_lock throughout, and the list   *)
(* is only read under it, so each is one step.  Bsp stands for the kernel  *)
(* threads that never exit: the list is never empty.                       *)
(***************************************************************************)
EXTENDS Integers, Sequences

CONSTANTS
    CPU, Thread, NoOne,
    Bsp, Boot,        \* the boot thread and the CPU it starts on
    Nice,             \* process->nice of each thread
    Masked,           \* Masked[c]: threads whose affinity excludes CPU c
    MaxCritical       \* bound on the nesting of addCritical in the model

ASSUME SchedulerAssumption ==
    /\ CPU \intersect Thread = {}
    /\ NoOne \notin CPU \union Thread
    /\ Boot \in CPU /\ Bsp \in Thread
    /\ Nice \in [Thread -> -19..20]
    /\ Masked \in [CPU -> SUBSET Thread]
    /\ MaxCritical \in Nat

VARIABLES
    cur,            \* cpu->current_thread
    pc,             \* where CPU c is: "run", or inside schedule()
    should_yield,   \* cpu->should_yield
    sched_lock,     \* the CPU that holds it, or NoOne
    list,           \* the circular thread list, from head to tail
    idle_next,      \* idle_threads[c]->next
    scan, left,     \* schedule()'s local thread, and iterations remaining
    status, critical, interrupted, due, sched_counter,  \* fields of a Thread
    lock,           \* holder of thread->lock: a CPU running it, a thread, NoOne
    life,           \* "new", "listed", "removed" (finish() done), "gone" (deleted)
    victim,         \* the thread whose lock a running thread holds, or NoOne
    fin,            \* the thread it is about to finish(), or NoOne
    waiting         \* it has set itself BLOCKED or SLEEPING and will yield()

scanVars == <<sched_lock, scan, left>>
cpuVars == <<cur, pc, should_yield, scanVars>>
listVars == <<list, idle_next, life>>
wakeVars == <<interrupted, due>>
opVars == <<victim, fin, waiting>>
vars == <<cpuVars, listVars, wakeVars, opVars, status, critical, sched_counter,
          lock>>

Slice == 1000000
Listed == {t \in Thread : life[t] = "listed"}

Init ==
    /\ cur = [c \in CPU |-> IF c = Boot THEN Bsp ELSE c]
    /\ pc = [c \in CPU |-> "run"]
    /\ should_yield = [c \in CPU |-> FALSE]
    /\ sched_lock = NoOne
    /\ list = <<Bsp>>
    /\ idle_next = [c \in CPU |-> Bsp]
    /\ scan = NoOne
    /\ left = 0
    /\ status = [t \in Thread |-> IF t = Bsp THEN "RUNNABLE" ELSE "FRESH"]
    /\ critical = [t \in Thread |-> 0]
    /\ interrupted = [t \in Thread |-> FALSE]
    /\ due = [t \in Thread |-> FALSE]
    /\ sched_counter = [t \in Thread |-> 0]
    /\ lock = [t \in Thread |-> IF t = Bsp THEN Boot ELSE NoOne]
    /\ life = [t \in Thread |-> IF t = Bsp THEN "listed" ELSE "new"]
    /\ victim = [t \in Thread |-> NoOne]
    /\ fin = [t \in Thread |-> NoOne]
    /\ waiting = [t \in Thread |-> FALSE]

----------------------------------------------------------------------------
(* schedule(), entered from the timer interrupt or from yield()            *)

(* The status test of schedule(): an idle thread is never TS_RUNNABLE.     *)
CurRunnable(c) == cur[c] \in Thread /\ status[cur[c]] = "RUNNABLE"
CurCritical(c) == cur[c] \in Thread /\ critical[cur[c]] > 0

Tick(c) ==
    /\ pc[c] = "run"
    /\ IF CurCritical(c)
         THEN /\ should_yield' = [should_yield EXCEPT ![c] = TRUE]
              /\ UNCHANGED pc
         ELSE /\ pc' = [pc EXCEPT ![c] = "enter"]
              /\ UNCHANGED should_yield
    /\ UNCHANGED <<scanVars, listVars, wakeVars, opVars, cur, status, critical,
                   sched_counter, lock>>

(* A thread with a slice in hand pays for it; a runnable one stays.        *)
HasSlice(c) == cur[c] \in Thread /\ sched_counter[cur[c]] >= Slice

Pay(c) ==
    sched_counter' = IF HasSlice(c)
                       THEN [sched_counter EXCEPT ![cur[c]] = @ - Slice]
                       ELSE sched_counter

(* The early returns of lines 22-36: the current thread keeps the CPU.     *)
Stay(c) ==
    /\ pc[c] = "enter"
    /\ CurRunnable(c)
    /\ HasSlice(c) \/ sched_lock # NoOne
    /\ Pay(c)
    /\ pc' = [pc EXCEPT ![c] = "run"]
    /\ UNCHANGED <<scanVars, listVars, wakeVars, opVars, cur, should_yield,
                   status, critical, lock>>

(* tryAcquireRaw fails and the thread cannot stay: acquireRaw spins        *)
Spin(c) ==
    /\ pc[c] = "enter"
    /\ ~CurRunnable(c)
    /\ sched_lock # NoOne
    /\ Pay(c)
    /\ pc' = [pc EXCEPT ![c] = "spin"]
    /\ UNCHANGED <<scanVars, listVars, wakeVars, opVars, cur, should_yield,
                   status, critical, lock>>

TakeSchedLock(c) ==
    /\ \/ pc[c] = "enter" /\ ~(CurRunnable(c) /\ HasSlice(c)) /\ Pay(c)
       \/ pc[c] = "spin" /\ UNCHANGED sched_counter
    /\ sched_lock = NoOne
    /\ sched_lock' = c
    /\ pc' = [pc EXCEPT ![c] = "drop"]
    /\ UNCHANGED <<listVars, wakeVars, opVars, cur, should_yield, scan, left,
                   status, critical, lock>>

(* The scan starts from the current thread, or from the head of the list   *)
(* when the current thread is off it (next is nullptr)                     *)
ScanFrom(c) == IF cur[c] \in CPU \union Listed THEN cur[c] ELSE list[1]

(* thread->lock.releaseRaw()                                               *)
DropLock(c) ==
    /\ pc[c] = "drop"
    /\ scan' = ScanFrom(c)
    /\ left' = Len(list) + 1
    /\ lock' = IF cur[c] \in Thread THEN [lock EXCEPT ![cur[c]] = NoOne]
                                    ELSE lock
    /\ pc' = [pc EXCEPT ![c] = "scan"]
    /\ UNCHANGED <<listVars, wakeVars, opVars, cur, should_yield, sched_lock,
                   status, critical, sched_counter>>

IndexOf(t) == CHOOSE i \in 1..Len(list) : list[i] = t

(* thread->next of the idle thread of CPU t, or of a thread on the list    *)
NextOf(t) ==
    IF t \in CPU THEN idle_next[t]
    ELSE IF IndexOf(t) = Len(list) THEN list[1] ELSE list[IndexOf(t) + 1]

(* One iteration of the loop up to the end of the switch: the status is    *)
(* read here and acted upon in a later step.                               *)
Scan(c) ==
    /\ pc[c] = "scan"
    /\ left > 0
    /\ left' = left - 1
    /\ LET t == NextOf(scan) IN
         /\ scan' = t
         /\ pc' = [pc EXCEPT ![c] =
                     IF \/ status[t] = "RUNNABLE"
                        \/ status[t] = "BLOCKED" /\ interrupted[t]
                       THEN "take"
                       ELSE IF status[t] = "SLEEPING" /\ (due[t] \/ interrupted[t])
                              THEN "wake" ELSE "scan"]
    /\ UNCHANGED <<listVars, wakeVars, opVars, cur, should_yield, sched_lock,
                   status, critical, sched_counter, lock>>

ScanWake(c) ==
    /\ pc[c] = "wake"
    /\ status' = [status EXCEPT ![scan] = "RUNNABLE"]
    /\ pc' = [pc EXCEPT ![c] = "take"]
    /\ UNCHANGED <<scanVars, listVars, wakeVars, opVars, cur, should_yield,
                   critical, sched_counter, lock>>

Counter(t) ==
    sched_counter[t] + Slice
      + (IF Nice[t] < 0 THEN 50000 * (-Nice[t]) ELSE -25000 * Nice[t])

Charged(t) == Counter(t) - Slice

(* thread->lock is free to be taken                                        *)
LockIgnored(t) == TRUE
LockFree(t) == lock[t] = NoOne

Eligible(c, t) == t \notin Masked[c] /\ Counter(t) >= Slice /\ LockFree(t)

Skip(c) ==
    /\ pc[c] = "take"
    /\ ~Eligible(c, scan)
    /\ pc' = [pc EXCEPT ![c] = "scan"]
    /\ UNCHANGED <<scanVars, listVars, wakeVars, opVars, cur, should_yield,
                   status, critical, sched_counter, lock>>

Pick(c) ==
    /\ pc[c] = "take"
    /\ Eligible(c, scan)
    /\ lock' = [lock EXCEPT ![scan] = c]
    /\ sched_counter' = [sched_counter EXCEPT ![scan] = Charged(scan)]
    /\ cur' = [cur EXCEPT ![c] = scan]
    /\ sched_lock' = NoOne
    /\ scan' = NoOne
    /\ left' = 0
    /\ pc' = [pc EXCEPT ![c] = "run"]
    /\ UNCHANGED <<listVars, wakeVars, opVars, should_yield, status, critical>>

PickIdle(c) ==
    /\ pc[c] = "scan"
    /\ left = 0
    /\ cur' = [cur EXCEPT ![c] = c]
    /\ idle_next' = [idle_next EXCEPT ![c] = scan]
    /\ sched_lock' = NoOne
    /\ scan' = NoOne
    /\ pc' = [pc EXCEPT ![c] = "run"]
    /\ UNCHANGED <<wakeVars, opVars, should_yield, left, list, life, status,
                   critical, sched_counter, lock>>

Schedule(c) ==
    \/ Stay(c) \/ Spin(c) \/ TakeSchedLock(c) \/ DropLock(c) \/ Scan(c)
    \/ ScanWake(c) \/ Skip(c) \/ Pick(c) \/ PickIdle(c)

----------------------------------------------------------------------------
(* What the thread on CPU c does between two calls of schedule()           *)

Running(c) == pc[c] = "run" /\ cur[c] \in Thread
Active(c) ==
    /\ Running(c)
    /\ life[cur[c]] = "listed"
    /\ fin[cur[c]] = NoOne
    /\ ~waiting[cur[c]]

(* Thread::yield(); its two assertions are the guard                       *)
Yield(c) ==
    /\ Running(c)
    /\ fin[cur[c]] = NoOne
    /\ critical[cur[c]] = 0
    /\ should_yield' = [should_yield EXCEPT ![c] = FALSE]
    /\ pc' = [pc EXCEPT ![c] = "enter"]
    /\ waiting' = [waiting EXCEPT ![cur[c]] = FALSE]
    /\ UNCHANGED <<scanVars, listVars, wakeVars, cur, status, critical,
                   sched_counter, lock, victim, fin>>

AddCritical(c) ==
    /\ Active(c)
    /\ critical[cur[c]] < MaxCritical
    /\ critical' = [critical EXCEPT ![cur[c]] = @ + 1]
    /\ UNCHANGED <<cpuVars, listVars, wakeVars, opVars, status, sched_counter,
                   lock>>

(* the effect of subCritical() by the thread on c: a postponed tick is     *)
(* made up for when the counter reaches 0                                  *)
ForgetsYield(c) == FALSE
OwesYield(c) == critical[cur[c]] = 1 /\ should_yield[c]

LeaveCritical(c) ==
    /\ critical[cur[c]] > 0
    /\ critical' = [critical EXCEPT ![cur[c]] = @ - 1]
    /\ pc' = [pc EXCEPT ![c] = IF OwesYield(c) THEN "enter" ELSE @]
    /\ should_yield' = [should_yield EXCEPT ![c] = @ /\ ~OwesYield(c)]

SubCritical(c) ==
    /\ Running(c)
    /\ fin[cur[c]] = NoOne
    /\ victim[cur[c]] = NoOne
    /\ LeaveCritical(c)
    /\ UNCHANGED <<scanVars, listVars, wakeVars, opVars, cur, status,
                   sched_counter, lock>>

(* Blocking on an event or a joined thread; usleep() and timed waits       *)
Block(c) ==
    /\ Active(c)
    /\ status' = [status EXCEPT ![cur[c]] = "BLOCKED"]
    /\ waiting' = [waiting EXCEPT ![cur[c]] = TRUE]
    /\ UNCHANGED <<cpuVars, listVars, wakeVars, critical, sched_counter, lock,
                   victim, fin>>

Sleep(c) ==
    /\ Active(c)
    /\ status' = [status EXCEPT ![cur[c]] = "SLEEPING"]
    /\ due' = [due EXCEPT ![cur[c]] = FALSE]
    /\ waiting' = [waiting EXCEPT ![cur[c]] = TRUE]
    /\ UNCHANGED <<cpuVars, listVars, critical, interrupted, sched_counter,
                   lock, victim, fin>>

(* Another thread's raise() makes a waiting thread runnable, without its   *)
(* lock; uptime passes wakeup_at                                           *)
Wake(c, t) ==
    /\ Active(c)
    /\ status[t] \in {"BLOCKED", "SLEEPING"}
    /\ status' = [status EXCEPT ![t] = "RUNNABLE"]
    /\ UNCHANGED <<cpuVars, listVars, wakeVars, opVars, critical,
                   sched_counter, lock>>

Expire(t) ==
    /\ status[t] = "SLEEPING"
    /\ ~due[t]
    /\ due' = [due EXCEPT ![t] = TRUE]
    /\ UNCHANGED <<cpuVars, listVars, opVars, status, critical, interrupted,
                   sched_counter, lock>>

(* thread->lock.acquire() and release() by join, detach, abort, signal     *)
LockThread(c, t) ==
    /\ Active(c)
    /\ victim[cur[c]] = NoOne
    /\ life[t] = "listed"
    /\ LockFree(t)
    /\ lock' = [lock EXCEPT ![t] = cur[c]]
    /\ victim' = [victim EXCEPT ![cur[c]] = t]
    /\ critical' = [critical EXCEPT ![cur[c]] = @ + 1]
    /\ UNCHANGED <<cpuVars, listVars, wakeVars, status, sched_counter, fin,
                   waiting>>

UnlockThread(c) ==
    /\ Running(c)
    /\ fin[cur[c]] = NoOne
    /\ victim[cur[c]] # NoOne
    /\ lock' = [lock EXCEPT ![victim[cur[c]]] = NoOne]
    /\ victim' = [victim EXCEPT ![cur[c]] = NoOne]
    /\ LeaveCritical(c)
    /\ UNCHANGED <<scanVars, listVars, wakeVars, cur, status, sched_counter,
                   fin, waiting>>

(* _abort() first sets m_aborting ...                                      *)
Interrupt(c) ==
    /\ Active(c)
    /\ victim[cur[c]] # NoOne
    /\ interrupted' = [interrupted EXCEPT ![victim[cur[c]]] = TRUE]
    /\ UNCHANGED <<cpuVars, listVars, opVars, status, critical, due,
                   sched_counter, lock>>

(* ... and, for a detached thread that is not busy, declares it dead       *)
Kill(c) ==
    LET v == victim[cur[c]] IN
    /\ Active(c)
    /\ v \notin {NoOne, Bsp}
    /\ interrupted[v]
    /\ critical[v] = 0
    /\ life[v] = "listed"
    /\ status' = [status EXCEPT ![v] = "DEAD"]
    /\ fin' = [fin EXCEPT ![cur[c]] = v]
    /\ UNCHANGED <<cpuVars, listVars, wakeVars, critical, sched_counter, lock,
                   victim, waiting>>

(* Thread::exit() of a detached thread, up to its call of finish()         *)
Exit(c) ==
    LET u == cur[c] IN
    /\ Active(c)
    /\ u # Bsp
    /\ critical[u] = 0
    /\ critical' = [critical EXCEPT ![u] = 1]
    /\ status' = [status EXCEPT ![u] = "DEAD"]
    /\ fin' = [fin EXCEPT ![u] = u]
    /\ UNCHANGED <<cpuVars, listVars, wakeVars, sched_counter, lock, victim,
                   waiting>>

Without(t) ==
    [i \in 1..(Len(list) - 1) |-> list[IF i < IndexOf(t) THEN i ELSE i + 1]]

(* the idle threads' next pointers after t is removed                      *)
CursorsKept(t) == idle_next
CursorsPast(t) ==
    [c \in CPU |-> IF idle_next[c] = t THEN NextOf(t) ELSE idle_next[c]]

(* finish() and, in it, remove_thread()                                    *)
Finish(c) ==
    LET t == fin[cur[c]] IN
    /\ Running(c)
    /\ t # NoOne
    /\ sched_lock = NoOne
    /\ idle_next' = CursorsPast(t)
    /\ list' = Without(t)
    /\ life' = [life EXCEPT ![t] = "removed"]
    /\ fin' = [fin EXCEPT ![cur[c]] = NoOne]
    /\ UNCHANGED <<cpuVars, wakeVars, status, critical, sched_counter, lock,
                   victim, waiting>>

(* broker_cleanup(): ~Thread() waits for the lock of the finished thread   *)
Delete(c, t) ==
    /\ Active(c)
    /\ life[t] = "removed"
    /\ LockFree(t)
    /\ life' = [life EXCEPT ![t] = "gone"]
    /\ UNCHANGED <<cpuVars, wakeVars, opVars, list, idle_next, status,
                   critical, sched_counter, lock>>

(* Thread::create() ending in add_thread(), and Thread::start()            *)
Create(c, t) ==
    /\ Active(c)
    /\ life[t] = "new"
    /\ sched_lock = NoOne
    /\ list' = Append(list, t)
    /\ life' = [life EXCEPT ![t] = "listed"]
    /\ UNCHANGED <<cpuVars, wakeVars, opVars, idle_next, status, critical,
                   sched_counter, lock>>

Start(c, t) ==
    /\ Active(c)
    /\ life[t] = "listed"
    /\ status[t] = "FRESH"
    /\ status' = [status EXCEPT ![t] = "RUNNABLE"]
    /\ UNCHANGED <<cpuVars, listVars, wakeVars, opVars, critical,
                   sched_counter, lock>>

ThreadStep(c) ==
    \/ Yield(c) \/ AddCritical(c) \/ SubCritical(c) \/ Block(c) \/ Sleep(c)
    \/ UnlockThread(c) \/ Interrupt(c) \/ Kill(c) \/ Exit(c) \/ Finish(c)
    \/ \E t \in Thread : \/ Wake(c, t) \/ LockThread(c, t) \/ Delete(c, t)
                         \/ Create(c, t) \/ Start(c, t)

Next ==
    \/ \E c \in CPU : Tick(c) \/ Schedule(c) \/ ThreadStep(c)
    \/ \E t \in Thread : Expire(t)

Spec == Init /\ [][Next]_vars

(* The timer ticks on every CPU, schedule() and finish() take finitely     *)
(* many steps, and critical sections and thread-lock sections end.  A CPU  *)
(* spinning on sched_lock gets it at last: the others take the lock at     *)
(* most once per tick or yield and leave it free in between.               *)
Fairness ==
    \A c \in CPU :
        /\ WF_vars(Tick(c))
        /\ WF_vars(Schedule(c))
        /\ SF_vars(TakeSchedLock(c))
        /\ WF_vars(SubCritical(c) \/ UnlockThread(c) \/ Finish(c))

FairSpec == Spec /\ Fairness

----------------------------------------------------------------------------
OnList == {list[i] : i \in 1..Len(list)}

Pcs == {"run", "enter", "spin", "drop", "scan", "wake", "take"}

(* Type correctness of the CPUs, the threads and the list.                 *)
TypeOK ==
    /\ cur \in [CPU -> CPU \union Thread]
    /\ pc \in [CPU -> Pcs]
    /\ should_yield \in [CPU -> BOOLEAN]
    /\ sched_lock \in CPU \union {NoOne}
    /\ list \in Seq(Thread)
    /\ idle_next \in [CPU -> Thread]
    /\ scan \in CPU \union Thread \union {NoOne}
    /\ left \in Nat
    /\ status \in [Thread -> {"FRESH", "RUNNABLE", "SLEEPING", "BLOCKED", "DEAD"}]
    /\ critical \in [Thread -> Nat]
    /\ interrupted \in [Thread -> BOOLEAN]
    /\ due \in [Thread -> BOOLEAN]
    /\ sched_counter \in [Thread -> Int]
    /\ lock \in [Thread -> CPU \union Thread \union {NoOne}]
    /\ life \in [Thread -> {"new", "listed", "removed", "gone"}]
    /\ victim \in [Thread -> Thread \union {NoOne}]
    /\ fin \in [Thread -> Thread \union {NoOne}]
    /\ waiting \in [Thread -> BOOLEAN]

(* CPU c is executing the thread cur[c]: from the moment schedule() picks  *)
(* it to the moment schedule() releases its lock.                          *)
Executing(c) == cur[c] \in Thread /\ pc[c] \in {"run", "enter", "spin", "drop"}

(* A thread is executed by at most one CPU at a time, whatever the         *)
(* interleaving of two schedule() calls, wake-ups and deletions.           *)
OneCPUPerThread ==
    \A c, d \in CPU : Executing(c) /\ Executing(d) /\ cur[c] = cur[d] => c = d

(* "If we're running we have the lock acquired" (thread.cpp:141).          *)
RunningHoldsLock == \A c \in CPU : Executing(c) => lock[cur[c]] = c

(* A critical thread is on a CPU, executing: whoever holds a spinlock      *)
(* taken with acquire() is never waiting to be scheduled.                  *)
CriticalOnCPU ==
    \A t \in Thread : critical[t] > 0 => \E c \in CPU : Executing(c) /\ cur[c] = t

(* A Thread object is deleted only when no CPU executes it, and neither    *)
(* the scan of schedule() nor an idle thread's cursor is left pointing at  *)
(* a thread that is off the list.                                          *)
NoDanglingThread ==
    /\ \A c \in CPU : Executing(c) => life[cur[c]] # "gone"
    /\ scan \in Thread => life[scan] = "listed"
    /\ \A c \in CPU : life[idle_next[c]] = "listed"

(* A thread that is critical keeps its CPU: no step takes it off.          *)
CriticalKeepsCPU ==
    [][\A c \in CPU : Executing(c) /\ critical[cur[c]] > 0
                         => cur'[c] = cur[c] /\ Executing(c)']_vars

(* AEX_ASSERT_PEDANTIC(thread->sched_counter < 25000000) (scheduler.cpp:91)*)
(* holds, and the counter never goes negative, for every legal nice value. *)
SchedCounterBounded == \A t \in Thread : sched_counter[t] \in 0..(2 * Slice - 1)

(* No starvation by round robin: a runnable thread of a process whose nice *)
(* is not positive is eventually executed, unless it stops being runnable. *)
RunnableRuns ==
    \A t \in Thread :
        Nice[t] <= 0 /\ status[t] = "RUNNABLE" /\ life[t] = "listed"
          ~> \/ \E c \in CPU : cur[c] = t /\ pc[c] = "run"
             \/ status[t] # "RUNNABLE"
             \/ life[t] # "listed"

(* A tick that finds the thread critical is not lost: the CPU goes through *)
(* schedule() once the critical section is over.                           *)
PostponedYieldHappens ==
    \A c \in CPU : should_yield[c] ~> pc[c] # "run"

\* The scheduler forgets nobody: a runnable thread runs and a yield that a
\* critical section put off takes place (scheduler.cpp:13-110).
SchedulerGoesOn == RunnableRuns /\ PostponedYieldHappens
=============================================================================
