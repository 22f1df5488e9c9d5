------------------------------- MODULE Locks -------------------------------
(* Spinlock, Mutex and RWSpinlock (src/kernel/spinlock.cpp, mutex.cpp,     *)
(* rwspinlock.cpp) over the m_busy and m_critical counters of a thread     *)
(* (src/proc/thread.cpp), with the timer that switches threads on one or   *)
(* two CPUs and Thread::abort() from another thread.  A call is the        *)
(* sequence of its atomic steps: the counter updates, the compare and      *)
(* swaps and the updates of m_read and m_write; addCritical() and          *)
(* subCritical() change their two counters in one step.                    *)
EXTENDS Integers, Sequences, FiniteSets

CONSTANTS LkThreads,    \* positive integers
          LkPlans,      \* functions from threads to sequences of sections
          LkCpuCounts   \* values of MCore::cpu_count

VARIABLES lkCpus,   \* the CPUs, 1 .. cpu_count
          lkOn,     \* the thread each CPU runs, 0 for its idle thread
          lkAsk,    \* CPU::should_yield
          lkCode,   \* the steps each thread still has to take
          lkTook,   \* what each thread took to get where it is, to go back to
          lkBusy, lkCrit, lkAborting, lkDead,
          lkHeld,   \* who holds the Spinlock, the Mutex and RWSpinlock::m_lock
          lkRead, lkWrite

lkVars == <<lkCpus, lkOn, lkAsk, lkCode, lkTook, lkBusy, lkCrit, lkAborting,
            lkDead, lkHeld, lkRead, lkWrite>>

LkLocks == {"spin", "mutex", "inner"}

----------------------------------------------------------------------------
(* The steps of the calls.                                                 *)

SpinAcquire(l) == <<<<"addCritical", l>>, <<"cas", l>>>>
\* Mutant: the thread leaves its critical section before it unlocks.
SpinReleaseLate(l) == <<<<"subCritical", l>>, <<"unlock", l>>>>
SpinRelease(l) == <<<<"unlock", l>>, <<"subCritical", l>>>>

\* tryAcquire(): on failure the section that would follow is skipped.
SpinTry == <<<<"addCritical", "spin">>, <<"try", "spin">>>>

MutexAcquire == <<<<"addBusy", "mutex">>, <<"cas", "mutex">>>>
MutexRelease == <<<<"unlock", "mutex">>, <<"subBusy", "mutex">>>>

\* The wait of acquire_read(), acquire_write() and upgrade() for m_write.
AwaitNoWriter == SpinAcquire("inner") \o <<<<"nowriter", "inner">>>>

AcquireRead == AwaitNoWriter \o <<<<"addCritical", "rw">>, <<"read", 1>>>>
               \o SpinRelease("inner")
AcquireWrite == AwaitNoWriter \o <<<<"addCritical", "rw">>, <<"write", 1>>>>
                \o SpinRelease("inner")
RwUpgrade == AwaitNoWriter \o <<<<"write", 1>>, <<"read", -1>>>>
             \o SpinRelease("inner")
RwDowngrade == SpinAcquire("inner") \o <<<<"read", 1>>, <<"write", -1>>>>
               \o SpinRelease("inner")
RwReleaseRead  == <<<<"read", -1>>, <<"subCritical", "rw">>>>
RwReleaseWrite == <<<<"write", -1>>, <<"subCritical", "rw">>>>

\* What a thread may do with the locks.
Section == [
    spin      |-> SpinAcquire("spin") \o SpinRelease("spin"),
    try       |-> SpinTry \o SpinRelease("spin"),
    mutex     |-> MutexAcquire \o MutexRelease,
    both      |-> MutexAcquire \o SpinAcquire("spin") \o SpinRelease("spin")
                  \o MutexRelease,
    read      |-> AcquireRead \o RwReleaseRead,
    write     |-> AcquireWrite \o RwReleaseWrite,
    upgrade   |-> AcquireRead \o RwUpgrade \o RwReleaseWrite,
    downgrade |-> AcquireWrite \o RwDowngrade \o RwReleaseRead]

----------------------------------------------------------------------------

LkInit ==
    /\ lkCpus \in {1 .. n : n \in LkCpuCounts}
    /\ lkOn = [c \in lkCpus |-> 0]
    /\ lkAsk = [c \in lkCpus |-> FALSE]
    /\ \E p \in LkPlans : lkCode = [t \in LkThreads |-> Section[p[t]]]
    /\ lkTook = [t \in LkThreads |-> <<>>]
    /\ lkBusy = [t \in LkThreads |-> 0]
    /\ lkCrit = [t \in LkThreads |-> 0]
    /\ lkAborting = [t \in LkThreads |-> FALSE]
    /\ lkDead = [t \in LkThreads |-> FALSE]
    /\ lkHeld = [l \in LkLocks |-> 0]
    /\ lkRead = 0
    /\ lkWrite = 0

Op(t)  == Head(lkCode[t])[1]
Arg(t) == Head(lkCode[t])[2]
Running(c) == IF lkOn[c] = 0 THEN {} ELSE {lkOn[c]}

\* The threads the scheduler may put on CPU c; a thread that is on a CPU has
\* its lock held.  With nothing to run the idle thread gets the CPU.
Candidates(c, over) ==
    LET able == {t \in LkThreads \ over :
                   ~lkDead[t] /\ \A d \in lkCpus \ {c} : lkOn[d] # t}
    IN  IF able = {} THEN {0} ELSE able

SwitchTo(c, who) == \E t \in who : lkOn' = [lkOn EXCEPT ![c] = t]
Reschedule(c) == SwitchTo(c, Candidates(c, {}))

\* The step is done: it moves from what is to come to what was done.
Advance(t) ==
    /\ lkCode' = [lkCode EXCEPT ![t] = Tail(@)]
    /\ lkTook' = [lkTook EXCEPT ![t] = Append(@, Head(lkCode[t]))]

\* The acquisition starts over: its last n steps are to come again.
GoBack(t, n) ==
    LET k == Len(lkTook[t]) - n
    IN  /\ lkCode' = [lkCode EXCEPT ![t] = SubSeq(lkTook[t], k + 1, k + n) \o @]
        /\ lkTook' = [lkTook EXCEPT ![t] = SubSeq(@, 1, k)]

BumpBusy(t, n) == lkBusy' = [lkBusy EXCEPT ![t] = @ + n]
BumpCrit(t, n) == lkCrit' = [lkCrit EXCEPT ![t] = @ + n]

\* The end of subCritical(): the thread that leaves its last critical section
\* gives the CPU up when the timer asked it to.
YieldIfAsked(c, t) ==
    IF lkCrit[t] = 1 /\ lkAsk[c]
    THEN /\ lkAsk' = [lkAsk EXCEPT ![c] = FALSE]
         /\ Reschedule(c)
    ELSE UNCHANGED <<lkAsk, lkOn>>

AddCriticalStep(c, t) ==
    /\ Op(t) = "addCritical"
    /\ BumpBusy(t, 1)
    /\ BumpCrit(t, 1)
    /\ Advance(t)
    /\ UNCHANGED <<lkOn, lkAsk, lkDead, lkHeld, lkRead, lkWrite>>

SubCriticalStep(c, t) ==
    /\ Op(t) = "subCritical"
    /\ BumpCrit(t, -1)
    /\ BumpBusy(t, -1)
    /\ YieldIfAsked(c, t)
    /\ Advance(t)
    /\ UNCHANGED <<lkDead, lkHeld, lkRead, lkWrite>>

AddBusyStep(c, t) ==
    /\ Op(t) = "addBusy"
    /\ BumpBusy(t, 1)
    /\ Advance(t)
    /\ UNCHANGED <<lkOn, lkAsk, lkCrit, lkDead, lkHeld, lkRead, lkWrite>>

\* subBusy() of the running thread: Thread::exit() once it is not busy and
\* was aborted, which leaves the CPU to another thread.
LeaveBusy(c, t) ==
    /\ BumpBusy(t, -1)
    /\ IF lkBusy[t] = 1 /\ lkAborting[t]
       THEN /\ lkDead' = [lkDead EXCEPT ![t] = TRUE]
            /\ lkAsk' = [lkAsk EXCEPT ![c] = FALSE]
            /\ SwitchTo(c, Candidates(c, {t}))
       ELSE UNCHANGED <<lkDead, lkOn, lkAsk>>

SubBusyStep(c, t) ==
    /\ Op(t) = "subBusy"
    /\ LeaveBusy(c, t)
    /\ Advance(t)
    /\ UNCHANGED <<lkCrit, lkHeld, lkRead, lkWrite>>

\* The compare and swap of an acquire that finds the lock free.
Take(c, t) ==
    /\ Op(t) \in {"cas", "try"}
    /\ lkHeld[Arg(t)] = 0
    /\ lkHeld' = [lkHeld EXCEPT ![Arg(t)] = t]
    /\ Advance(t)
    /\ UNCHANGED <<lkOn, lkAsk, lkBusy, lkCrit, lkDead, lkRead, lkWrite>>

\* Spinlock::acquire() finds it taken: subCritical(), a yield when this is
\* the only CPU and the thread is in no other critical section, and again.
SpinAgain(c, t) ==
    /\ Op(t) = "cas" /\ Arg(t) # "mutex"
    /\ lkHeld[Arg(t)] # 0
    /\ BumpCrit(t, -1)
    /\ BumpBusy(t, -1)
    /\ IF lkCpus = {1} /\ lkCrit[t] = 1
       THEN lkAsk' = [lkAsk EXCEPT ![c] = FALSE] /\ Reschedule(c)
       ELSE YieldIfAsked(c, t)
    /\ GoBack(t, 1)
    /\ UNCHANGED <<lkDead, lkHeld, lkRead, lkWrite>>

\* Mutex::acquire() finds it taken: subBusy(), where an aborted thread ends,
\* a yield when this is the only CPU, and again.
MutexAgain(c, t) ==
    /\ Op(t) = "cas" /\ Arg(t) = "mutex"
    /\ lkHeld["mutex"] # 0
    /\ IF lkCpus = {1} /\ ~(lkBusy[t] = 1 /\ lkAborting[t])
       THEN /\ BumpBusy(t, -1)
            /\ lkAsk' = [lkAsk EXCEPT ![c] = FALSE]
            /\ Reschedule(c)
            /\ UNCHANGED lkDead
       ELSE LeaveBusy(c, t)
    /\ GoBack(t, 1)
    /\ UNCHANGED <<lkCrit, lkHeld, lkRead, lkWrite>>

\* tryAcquire() fails: subCritical(), and the caller goes on without.
TryFails(c, t) ==
    /\ Op(t) = "try"
    /\ lkHeld["spin"] # 0
    /\ BumpCrit(t, -1)
    /\ BumpBusy(t, -1)
    /\ YieldIfAsked(c, t)
    /\ lkCode' = [lkCode EXCEPT ![t] = <<>>]
    /\ UNCHANGED <<lkTook, lkDead, lkHeld, lkRead, lkWrite>>

UnlockStep(c, t) ==
    /\ Op(t) = "unlock"
    /\ lkHeld' = [lkHeld EXCEPT ![Arg(t)] = 0]
    /\ Advance(t)
    /\ UNCHANGED <<lkOn, lkAsk, lkBusy, lkCrit, lkDead, lkRead, lkWrite>>

\* m_write is read with m_lock held.  With a writer in, m_lock is released
\* and acquired anew.
WriterGone(c, t) ==
    /\ Op(t) = "nowriter"
    /\ lkWrite = 0
    /\ Advance(t)
    /\ UNCHANGED <<lkOn, lkAsk, lkBusy, lkCrit, lkDead, lkHeld, lkRead, lkWrite>>

WriterIn(c, t) ==
    /\ Op(t) = "nowriter"
    /\ lkWrite # 0
    /\ lkHeld' = [lkHeld EXCEPT !["inner"] = 0]
    /\ BumpCrit(t, -1)
    /\ BumpBusy(t, -1)
    /\ YieldIfAsked(c, t)
    /\ GoBack(t, 2)
    /\ UNCHANGED <<lkDead, lkRead, lkWrite>>

CountStep(c, t) ==
    /\ Op(t) \in {"read", "write"}
    /\ lkRead' = IF Op(t) = "read" THEN lkRead + Arg(t) ELSE lkRead
    /\ lkWrite' = IF Op(t) = "write" THEN lkWrite + Arg(t) ELSE lkWrite
    /\ Advance(t)
    /\ UNCHANGED <<lkOn, lkAsk, lkBusy, lkCrit, lkDead, lkHeld>>

ThreadStep(c, t) ==
    /\ lkCode[t] # <<>>
    /\ UNCHANGED <<lkCpus, lkAborting>>
    /\ \/ AddCriticalStep(c, t) \/ SubCriticalStep(c, t)
       \/ AddBusyStep(c, t)     \/ SubBusyStep(c, t)
       \/ Take(c, t) \/ SpinAgain(c, t) \/ MutexAgain(c, t) \/ TryFails(c, t)
       \/ UnlockStep(c, t)
       \/ WriterGone(c, t) \/ WriterIn(c, t) \/ CountStep(c, t)

\* The timer.  A thread in a critical section keeps the CPU and is asked to
\* give it up later.
TickWhen(c, keeps) ==
    /\ IF keeps
       THEN ~lkAsk[c] /\ lkAsk' = [lkAsk EXCEPT ![c] = TRUE] /\ UNCHANGED lkOn
       ELSE Reschedule(c) /\ UNCHANGED lkAsk
    /\ UNCHANGED <<lkCpus, lkCode, lkTook, lkBusy, lkCrit, lkAborting, lkDead,
                   lkHeld, lkRead, lkWrite>>
\* Mutant: the timer only ever asks.
TickAsks(c) == TickWhen(c, lkOn[c] # 0)
Tick(c) == TickWhen(c, lkOn[c] # 0 /\ lkCrit[lkOn[c]] > 0)

\* Mutant: abort() ends the thread whatever it is doing.
AbortNow(u) ==
    /\ lkAborting' = [lkAborting EXCEPT ![u] = TRUE]
    /\ lkDead' = [lkDead EXCEPT ![u] = TRUE]

\* _abort() of a detached thread: dead at once unless it is busy.
AbortThread(u) ==
    /\ lkAborting' = [lkAborting EXCEPT ![u] = TRUE]
    /\ lkDead' = [lkDead EXCEPT ![u] = lkBusy[u] = 0]

\* abort() holds the lock of the thread, which is then on no CPU.
Abort(u) ==
    /\ ~lkAborting[u] /\ ~lkDead[u]
    /\ \A c \in lkCpus : lkOn[c] # u
    /\ AbortThread(u)
    /\ UNCHANGED <<lkCpus, lkOn, lkAsk, lkCode, lkTook, lkBusy, lkCrit, lkHeld,
                   lkRead, lkWrite>>

\* A thread that has nothing left to do returns to its caller; nothing more
\* happens to it here.
LkNext ==
    \/ \E c \in lkCpus : \E t \in Running(c) : ThreadStep(c, t)
    \/ \E c \in lkCpus : Tick(c)
    \/ \E u \in LkThreads : Abort(u)

\* A thread that keeps getting a CPU goes on, and the timer gives a thread
\* that waits for a CPU one: the scheduler goes round the threads.
LkFairness ==
    \A t \in LkThreads :
        /\ SF_lkVars(\E c \in lkCpus : lkOn[c] = t /\ ThreadStep(c, t))
        /\ SF_lkVars(\E c \in lkCpus : lkOn[c] # t /\ Tick(c) /\ lkOn'[c] = t)

----------------------------------------------------------------------------
(* Properties.                                                             *)

\* The thread that holds a Spinlock, or an RWSpinlock for reading or writing,
\* is on a CPU: the timer never switches it out and it never yields, so a
\* spinning thread never waits for one that does not run (spinlock.cpp:24-79,
\* thread.cpp:351-369).  A critical section must span the hold exactly.
SpinHolderRuns ==
    /\ \A l \in {"spin", "inner"} :
          lkHeld[l] # 0 => \E c \in lkCpus : lkOn[c] = lkHeld[l]
    /\ lkHeld["inner"] = 0 =>
          lkRead + lkWrite <= Cardinality({c \in lkCpus : lkOn[c] # 0 /\ lkCrit[lkOn[c]] > 0})

\* A thread that is dead holds no lock and is in no RWSpinlock: abort() leaves
\* a busy thread alone and subBusy() ends it only once it released everything
\* (thread.cpp:259-281 and 328-334, mutex.cpp:59-69).
DeadHoldsNothing ==
    \A t \in LkThreads : lkDead[t] =>
        /\ \A l \in LkLocks : lkHeld[l] # t
        /\ lkBusy[t] = 0 /\ lkCrit[t] = 0

\* Whoever holds a lock can release it: a spinlock's holder is running and
\* no holder is dead.
HoldersCanRelease == SpinHolderRuns /\ DeadHoldsNothing

\* Every lock that is taken is released: no thread keeps one by waiting for
\* ever, by being switched out for good or by being ended, on one CPU as on
\* two (spinlock.cpp:28-51, mutex.cpp:19-51, thread.cpp:328-369).
LocksReleased == \A l \in LkLocks : lkHeld[l] # 0 ~> lkHeld[l] = 0
=============================================================================
