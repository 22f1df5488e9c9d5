--------------------------- MODULE KernelProofs ---------------------------
(***************************************************************************)
(* Proofs of the safety properties of Scheduler, for any numbers of CPUs   *)
(* and threads, any nice values and any affinity masks, and of MMap, for   *)
(* any numbers of threads, pages and slots.                                *)
(***************************************************************************)
EXTENDS SchedulerInvariant, MMap, WellFoundedInduction

MaxBonus == 50000 * 19

(* What the proofs use of the slice length: it exceeds any nice bonus.     *)
LEMMA SliceLarge == Slice \in Nat /\ MaxBonus \in Nat /\ MaxBonus < Slice
BY SMT DEF Slice, MaxBonus

(* Paying for a slice keeps the counters integers.                         *)
LEMMA PayInt ==
    ASSUME IInv, NEW c \in CPU, Pay(c)
    PROVE  sched_counter' \in [Thread -> Int]
BY SliceLarge DEF IInv, TypeOK, Pay, HasSlice

(* The counter of a picked thread grows by at most the largest bonus.      *)
LEMMA ChargedInt ==
    ASSUME IInv, NEW t \in Thread
    PROVE  /\ Charged(t) \in Int /\ Counter(t) \in Int
           /\ Charged(t) = Counter(t) - Slice
           /\ Charged(t) <= sched_counter[t] + MaxBonus
<1>1. sched_counter[t] \in Int /\ Nice[t] \in -19..20
  BY SchedulerAssumption DEF IInv, TypeOK
<1> QED
  BY <1>1, SliceLarge, SMT DEF Charged, Counter, MaxBonus

(* Leaving a critical section keeps the types of what it changes.          *)
LEMMA LeaveTypes ==
    ASSUME IInv, NEW c \in CPU, cur[c] \in Thread, LeaveCritical(c)
    PROVE  /\ pc' \in [CPU -> Pcs] /\ critical' \in [Thread -> Nat]
           /\ should_yield' \in [CPU -> BOOLEAN]
<1>1. pc' \in [CPU -> Pcs]
  <2>1. pc \in [CPU -> Pcs]
    BY DEF IInv, TypeOK
  <2>2. PICK p \in {pc[c], "enter"} : pc' = [pc EXCEPT ![c] = p]
    BY Zenon DEF LeaveCritical
  <2> QED
    BY <2>1, <2>2 DEF Pcs
<1>2. critical' \in [Thread -> Nat]
  <2>1. critical \in [Thread -> Nat]
    BY DEF IInv, TypeOK
  <2>2. /\ critical[cur[c]] > 0
        /\ critical' = [critical EXCEPT ![cur[c]] = critical[cur[c]] - 1]
    BY DEF LeaveCritical
  <2> QED
    BY <2>1, <2>2
<1>3. should_yield' \in [CPU -> BOOLEAN]
  <2>1. should_yield \in [CPU -> BOOLEAN]
    BY DEF IInv, TypeOK
  <2>2. PICK b \in BOOLEAN : should_yield' = [should_yield EXCEPT ![c] = b]
    BY Zenon DEF LeaveCritical
  <2> QED
    BY <2>1, <2>2
<1> QED
  BY <1>1, <1>2, <1>3

(* Every step keeps the types.                                             *)
LEMMA TypeStep ==
    ASSUME IInv, NEW c \in CPU, CpuStep(c)
    PROVE  TypeOK'
<1> USE Distinct
<1>1. CASE Tick(c)
  <2>1. pc \in [CPU -> Pcs] /\ should_yield \in [CPU -> BOOLEAN]
    BY DEF IInv, TypeOK
  <2>2. \/ pc' = pc /\ should_yield' = [should_yield EXCEPT ![c] = TRUE]
        \/ pc' = [pc EXCEPT ![c] = "enter"] /\ should_yield' = should_yield
    BY <1>1 DEF Tick, CurCritical
  <2>3. pc' \in [CPU -> Pcs] /\ should_yield' \in [CPU -> BOOLEAN]
    BY <2>1, <2>2, Zenon DEF Pcs
  <2> QED
    BY <1>1, <2>3 DEF Tick, IInv, TypeOK, scanVars, listVars, wakeVars, opVars
<1>2. CASE Stay(c)
  BY <1>2, PayInt, SMTT(30)
  DEF Stay, IInv, TypeOK, Pcs, scanVars, listVars, wakeVars, opVars
<1>3. CASE Spin(c)
  BY <1>3, PayInt, Zenon
  DEF Spin, IInv, TypeOK, Pcs, scanVars, listVars, wakeVars, opVars
<1>4. CASE TakeSchedLock(c)
  BY <1>4, PayInt, SMTT(30)
  DEF TakeSchedLock, IInv, TypeOK, Pcs, listVars, wakeVars, opVars
<1>5. CASE DropLock(c)
  <2>1. ScanFrom(c) \in CPU \union Thread /\ Len(list) + 1 \in Nat
    <3>1. cur[c] \in CPU \union Thread /\ Len(list) \in Nat
      BY ListFacts DEF IInv, TypeOK
    <3>2. list[1] \in Thread
      <4>1. 1 \in 1..Len(list)
        BY ListNonempty
      <4> QED
        BY <4>1, ListNonempty, Zenon
    <3> QED
      BY <3>1, <3>2 DEF ScanFrom
  <2> QED
    BY <1>5, <2>1, SMTT(30) DEF DropLock, IInv, TypeOK, Pcs, listVars, wakeVars, opVars
<1>6. CASE Scan(c)
  <2>1. NextOf(scan) \in Thread
    BY <1>6, NextListed DEF Scan, IInv, CursorInv, SchedLockInv, InSchedule
  <2> QED
    <3>p. PICK p \in {"take", "wake", "scan"} : pc' = [pc EXCEPT ![c] = p]
      BY <1>6, Zenon DEF Scan
    <3>1. pc' \in [CPU -> Pcs]
      BY <3>p DEF IInv, TypeOK, Pcs
    <3>2. left' \in Nat /\ scan' \in CPU \union Thread \union {NoOne}
      <4>1. left > 0 /\ left' = left - 1 /\ scan' = NextOf(scan)
        BY <1>6, Zenon DEF Scan
      <4>2. left \in Nat
        BY DEF IInv, TypeOK
      <4> QED
        BY <4>1, <4>2, <2>1
    <3> QED
      BY <1>6, <3>1, <3>2, Zenon DEF Scan, IInv, TypeOK, listVars, wakeVars, opVars
<1>7. CASE ScanWake(c)
  <2>1. scan \in Thread
    BY <1>7 DEF ScanWake, IInv, SchedLockInv
  <2> QED
    BY <1>7, <2>1 DEF ScanWake, IInv, TypeOK, Pcs, listVars, wakeVars, opVars, scanVars
<1>8. CASE Skip(c)
  BY <1>8
  DEF Skip, IInv, TypeOK, Pcs, scanVars, listVars, wakeVars, opVars
<1>9. CASE Pick(c)
  <2>1. scan \in Thread /\ Charged(scan) \in Int
    BY <1>9, ChargedInt, SMTT(30) DEF Pick, IInv, TypeOK, SchedLockInv
  <2> QED
    BY <1>9, <2>1 DEF Pick, IInv, TypeOK, Pcs, listVars, wakeVars, opVars
<1>10. CASE PickIdle(c)
  <2>1. scan \in Thread
    <3>1. pc[c] = "scan" /\ left = 0
      BY <1>10, Zenon DEF PickIdle
    <3> QED
      BY <3>1 DEF IInv, SchedLockInv
  <2> QED
    BY <1>10, <2>1 DEF PickIdle, IInv, TypeOK, Pcs, wakeVars, opVars
<1>11. CASE Yield(c)
  BY <1>11
  DEF Yield, IInv, TypeOK, Running, Pcs, scanVars, listVars, wakeVars
<1>12. CASE AddCritical(c)
  <2>1. critical' \in [Thread -> Nat]
    BY <1>12, SMTT(30) DEF AddCritical, Active, Running, IInv, TypeOK
  <2> QED
    BY <1>12, <2>1, SMTT(30)
    DEF AddCritical, IInv, TypeOK, cpuVars, scanVars, listVars, wakeVars, opVars
<1>13. CASE SubCritical(c)
  <2>1. cur[c] \in Thread
    BY <1>13 DEF SubCritical, Running
  <2>2. pc' \in [CPU -> Pcs] /\ critical' \in [Thread -> Nat]
        /\ should_yield' \in [CPU -> BOOLEAN]
    BY <1>13, <2>1, LeaveTypes DEF SubCritical
  <2> QED
    BY <1>13, <2>2, Zenon
    DEF SubCritical, IInv, TypeOK, scanVars, listVars, wakeVars, opVars
<1>14. CASE Block(c)
  BY <1>14, SMTT(30)
  DEF Block, IInv, TypeOK, Active, Running, cpuVars, listVars, wakeVars,
      scanVars
<1>15. CASE Sleep(c)
  BY <1>15, SMTT(30)
  DEF Sleep, IInv, TypeOK, Active, Running, cpuVars, listVars, scanVars
<1>16. CASE UnlockThread(c)
  <2>1. cur[c] \in Thread /\ victim[cur[c]] \in Thread
    BY <1>16 DEF UnlockThread, Running, IInv, TypeOK
  <2>2. pc' \in [CPU -> Pcs] /\ critical' \in [Thread -> Nat]
        /\ should_yield' \in [CPU -> BOOLEAN]
    BY <1>16, <2>1, LeaveTypes DEF UnlockThread
  <2>3. lock' \in [Thread -> CPU \union Thread \union {NoOne}]
        /\ victim' \in [Thread -> Thread \union {NoOne}]
    BY <1>16, Zenon DEF UnlockThread, IInv, TypeOK
  <2> QED
    BY <1>16, <2>2, <2>3, Zenon
    DEF UnlockThread, IInv, TypeOK, scanVars, listVars, wakeVars
<1>17. CASE Interrupt(c)
  BY <1>17, Zenon
  DEF Interrupt, IInv, TypeOK, Active, Running, cpuVars, listVars, opVars,
      scanVars
<1>18. CASE Kill(c)
  BY <1>18, Zenon
  DEF Kill, IInv, TypeOK, Active, Running, cpuVars, listVars, wakeVars, scanVars
<1>19. CASE Exit(c)
  BY <1>19
  DEF Exit, IInv, TypeOK, Active, Running, cpuVars, listVars, wakeVars, scanVars
<1>20. CASE Finish(c)
  <2> DEFINE t == fin[cur[c]]
  <2>1. t \in Thread /\ t # Bsp /\ life[t] = "listed" /\ cur[c] \in Thread
    BY <1>20 DEF Finish, Running, IInv, TypeOK, FinInv
  <2>2. Without(t) \in Seq(Thread) /\ NextOf(t) \in Thread
    BY <2>1, WithoutList, NextListed
  <2>3. CursorsPast(t) \in [CPU -> Thread]
    BY <2>2 DEF CursorsPast, IInv, TypeOK
  <2> QED
    BY <1>20, <2>1, <2>2, <2>3, Zenon DEF Finish, IInv, TypeOK, cpuVars, wakeVars, scanVars
<1>21. ASSUME NEW t \in Thread, Wake(c, t) PROVE TypeOK'
  BY <1>21, Zenon
  DEF Wake, IInv, TypeOK, Active, cpuVars, listVars, wakeVars, opVars, scanVars
<1>22. ASSUME NEW t \in Thread, LockThread(c, t) PROVE TypeOK'
  <2>1. critical' \in [Thread -> Nat] /\ cur[c] \in Thread
    <3>1. cur[c] \in Thread /\ critical \in [Thread -> Nat]
      BY <1>22 DEF LockThread, Active, Running, IInv, TypeOK
    <3>2. critical' = [critical EXCEPT ![cur[c]] = critical[cur[c]] + 1]
      BY <1>22, <3>1 DEF LockThread
    <3> QED
      BY <3>1, <3>2
  <2> QED
    BY <1>22, <2>1, Zenon
    DEF LockThread, IInv, TypeOK, cpuVars, scanVars, listVars, wakeVars
<1>23. ASSUME NEW t \in Thread, Delete(c, t) PROVE TypeOK'
  BY <1>23, Zenon
  DEF Delete, IInv, TypeOK, Active, cpuVars, wakeVars, opVars, scanVars
<1>24. ASSUME NEW t \in Thread, Create(c, t) PROVE TypeOK'
  <2>1. Append(list, t) \in Seq(Thread)
    BY ListFacts DEF IInv, TypeOK
  <2> QED
    BY <1>24, <2>1, SMTT(30) DEF Create, IInv, TypeOK, cpuVars, wakeVars, opVars, scanVars
<1>25. ASSUME NEW t \in Thread, Start(c, t) PROVE TypeOK'
  BY <1>25, Zenon
  DEF Start, IInv, TypeOK, Active, cpuVars, listVars, wakeVars, opVars, scanVars
<1> QED
  BY <1>1, <1>2, <1>3, <1>4, <1>5, <1>6, <1>7, <1>8, <1>9, <1>10, <1>11, <1>12,
     <1>13, <1>14, <1>15, <1>16, <1>17, <1>18, <1>19, <1>20, <1>21, <1>22,
     <1>23, <1>24, <1>25
  DEF CpuStep, Schedule, ThreadStep

(* Every step keeps the bound on the slice counters: schedule() charges a  *)
(* thread a full slice before it gives up the thread's lock.               *)
LEMMA CounterStep ==
    ASSUME IInv, CounterInv, NEW c \in CPU, CpuStep(c)
    PROVE  CounterInv'
<1> SUFFICES ASSUME NEW t \in Thread
             PROVE  /\ sched_counter'[t] \in 0..(2 * Slice - 1)
                    /\ sched_counter'[t] >= Slice =>
                         \E d \in CPU : cur'[d] = t /\ pc'[d] \in {"run", "enter"}
  BY DEF CounterInv
<1>t. /\ sched_counter[t] \in 0..(2 * Slice - 1)
      /\ cur \in [CPU -> CPU \union Thread] /\ pc \in [CPU -> Pcs]
      /\ sched_counter \in [Thread -> Int]
  BY DEF CounterInv, IInv, TypeOK
<1>1. CASE UNCHANGED sched_counter /\ UNCHANGED cur /\ (\A d \in CPU :
             pc[d] \in {"run", "enter"} => pc'[d] \in {"run", "enter"})
  BY <1>1 DEF CounterInv
<1>2. CASE /\ pc[c] = "enter" /\ Pay(c) /\ UNCHANGED cur
           /\ \E p \in Pcs : pc' = [pc EXCEPT ![c] = p]
  <2>1. CASE cur[c] = t
    <3>1. sched_counter'[t] \in 0..(Slice - 1)
      BY <1>2, <1>t, <2>1, SliceLarge DEF Pay, HasSlice
    <3> QED
      BY <3>1, SliceLarge
  <2>2. CASE cur[c] # t
    <3>1. sched_counter'[t] = sched_counter[t]
      BY <1>2, <1>t, <2>2 DEF Pay
    <3>2. ASSUME sched_counter[t] >= Slice
          PROVE  \E d \in CPU : cur'[d] = t /\ pc'[d] \in {"run", "enter"}
      <4>1. PICK d \in CPU : cur[d] = t /\ pc[d] \in {"run", "enter"}
        BY <3>2 DEF CounterInv
      <4> QED
        BY <4>1, <1>2, <1>t, <2>2
    <3> QED
      BY <1>t, <3>1, <3>2
  <2> QED
    BY <2>1, <2>2
<1>3. CASE Pick(c)
  <2>1. /\ scan \in Thread /\ lock[scan] = NoOne
        /\ Counter(scan) >= Slice /\ pc[c] = "take" /\ ~(NoOne \in CPU)
        /\ sched_counter' = [sched_counter EXCEPT ![scan] = Charged(scan)]
        /\ cur' = [cur EXCEPT ![c] = scan] /\ pc' = [pc EXCEPT ![c] = "run"]
    BY <1>3, Distinct DEF Pick, Eligible, LockFree, IInv, SchedLockInv
  <2>2. CASE t = scan
    <3>1. ~(sched_counter[t] >= Slice)
      BY <2>1, <2>2 DEF CounterInv, IInv, LockInv, RunningHoldsLock, Executing
    <3>2. sched_counter'[t] \in 0..(2 * Slice - 1)
      <4>1. sched_counter'[t] = Counter(t) - Slice /\ Counter(t) >= Slice
        BY <2>1, <2>2, <1>t DEF Charged
      <4>2. /\ sched_counter'[t] \in Int
            /\ sched_counter'[t] <= sched_counter[t] + MaxBonus
        BY <2>1, <2>2, <1>t, ChargedInt
      <4> QED
        BY <4>1, <4>2, <3>1, <1>t, SliceLarge, ChargedInt
    <3> QED
      BY <2>1, <2>2, <3>2, <1>t
  <2>3. CASE t # scan
    <3>1. sched_counter'[t] = sched_counter[t]
      BY <2>1, <2>3, <1>t
    <3>2. ASSUME sched_counter[t] >= Slice
          PROVE  \E d \in CPU : cur'[d] = t /\ pc'[d] \in {"run", "enter"}
      <4>1. PICK d \in CPU : cur[d] = t /\ pc[d] \in {"run", "enter"}
        BY <3>2 DEF CounterInv
      <4> QED
        BY <4>1, <2>1, <1>t
    <3> QED
      BY <1>t, <3>1, <3>2
  <2> QED
    BY <2>2, <2>3
<1>4. CASE pc[c] \notin {"run", "enter"} /\ UNCHANGED sched_counter
           /\ (\E u \in CPU \union Thread : cur' = [cur EXCEPT ![c] = u])
           /\ \E p \in Pcs : pc' = [pc EXCEPT ![c] = p]
  <2>1. ASSUME sched_counter[t] >= Slice
        PROVE  \E d \in CPU : cur'[d] = t /\ pc'[d] \in {"run", "enter"}
    <3>1. PICK d \in CPU : cur[d] = t /\ pc[d] \in {"run", "enter"}
      BY <2>1 DEF CounterInv
    <3> QED
      BY <3>1, <1>4, <1>t
  <2> QED
    BY <1>4, <1>t, <2>1
<1> USE DEF Pcs
<1>5. CASE Tick(c)
  BY <1>5, <1>1, <1>t
  DEF Tick, scanVars, listVars, wakeVars, opVars
<1>6. CASE Stay(c)
  BY <1>6, <1>2, <1>t
  DEF Stay, scanVars, listVars, wakeVars, opVars
<1>7. CASE Spin(c)
  BY <1>7, <1>2, <1>t
  DEF Spin, scanVars, listVars, wakeVars, opVars
<1>8. CASE TakeSchedLock(c)
  BY <1>8, <1>1, <1>2, <1>4, <1>t DEF TakeSchedLock
<1>9. CASE DropLock(c)
  BY <1>9, <1>4, <1>t
  DEF DropLock, listVars, wakeVars, opVars
<1>10. CASE Scan(c)
  <2>1. \E p \in Pcs : pc' = [pc EXCEPT ![c] = p]
    BY <1>10, Zenon DEF Scan
  <2>2. cur' = [cur EXCEPT ![c] = cur[c]]
    BY <1>10, <1>t DEF Scan
  <2> QED
    BY <1>10, <2>1, <2>2, <1>4, <1>t, Zenon DEF Scan
<1>11. CASE ScanWake(c)
  BY <1>11, <1>4, <1>t
  DEF ScanWake, scanVars, listVars, wakeVars, opVars
<1>12. CASE Skip(c)
  BY <1>12, <1>4, <1>t
  DEF Skip, scanVars, listVars, wakeVars, opVars
<1>13. CASE PickIdle(c)
  BY <1>13, <1>4, <1>t, Zenon
  DEF PickIdle, wakeVars, opVars
<1>14. CASE Yield(c)
  BY <1>14, <1>1, <1>t
  DEF Yield, Running, scanVars, listVars, wakeVars
<1>15. CASE SubCritical(c)
  BY <1>15, <1>1, <1>t
  DEF SubCritical, LeaveCritical, Running, scanVars, listVars, wakeVars, opVars
<1>16. CASE UnlockThread(c)
  BY <1>16, <1>1, <1>t
  DEF UnlockThread, LeaveCritical, Running, scanVars, listVars, wakeVars
<1> QED
  BY <1>1, <1>2, <1>3, <1>5, <1>6, <1>7, <1>8, <1>9, <1>10, <1>11, <1>12, <1>13,
     <1>14, <1>15, <1>16, ZenonT(30)
  DEF CpuStep, Schedule, ThreadStep, AddCritical, Block, Sleep, Interrupt, Kill,
      Exit, Finish, Wake, LockThread, Delete, Create, Start, vars, scanVars,
      cpuVars, listVars, wakeVars, opVars

----------------------------------------------------------------------------
(* A timer that expires changes only the thread's due flag.                *)
LEMMA ExpireStep ==
    ASSUME IInv, CounterInv, NEW t \in Thread, Expire(t)
    PROVE  IInv' /\ CounterInv' /\ UNCHANGED <<cur, pc, critical>>
<1>1. /\ UNCHANGED <<cur, pc, sched_lock, scan, left, list, idle_next, life, victim,
                     fin, status, critical, sched_counter, lock>>
      /\ UNCHANGED <<should_yield, interrupted, waiting>>
      /\ due' = [due EXCEPT ![t] = TRUE]
  BY DEF Expire, cpuVars, scanVars, listVars, opVars
<1>2. TypeOK'
  BY <1>1 DEF IInv, TypeOK
<1>3. SchedLockInv' /\ LockInv'
  BY <1>1 DEF IInv, SchedLockInv, InSchedule, LockInv, RunningHoldsLock, Executing
<1>4. ListInv' /\ FinInv'
  BY <1>1 DEF IInv, ListInv, FinInv
<1>5. CriticalInv'
  BY <1>1 DEF IInv, CriticalInv, SectionInv, CriticalOnCPU, Executing
<1>6. CursorInv' /\ CounterInv'
  BY <1>1 DEF IInv, CursorInv, CounterInv, Executing
<1> QED
  BY <1>1, <1>2, <1>3, <1>4, <1>5, <1>6 DEF IInv

(* A stuttering step changes nothing.                                      *)
LEMMA StutterStep ==
    ASSUME IInv, CounterInv, UNCHANGED vars
    PROVE  IInv' /\ CounterInv'
<1>1. UNCHANGED <<cur, pc, sched_lock, scan, left, list, idle_next, life, victim,
                  fin, status, critical, sched_counter, lock, should_yield,
                  interrupted, waiting, due>>
  BY DEF vars, cpuVars, scanVars, listVars, opVars, wakeVars
<1>2. TypeOK'
  BY <1>1 DEF IInv, TypeOK
<1>3. SchedLockInv' /\ LockInv'
  BY <1>1 DEF IInv, SchedLockInv, InSchedule, LockInv, RunningHoldsLock, Executing
<1>4. ListInv' /\ FinInv'
  BY <1>1 DEF IInv, ListInv, FinInv
<1>5. CriticalInv'
  BY <1>1 DEF IInv, CriticalInv, SectionInv, CriticalOnCPU, Executing
<1>6. CursorInv' /\ CounterInv'
  BY <1>1 DEF IInv, CursorInv, CounterInv, Executing
<1> QED
  BY <1>2, <1>3, <1>4, <1>5, <1>6 DEF IInv

(* After boot: every CPU runs its idle thread but Boot, which runs Bsp.    *)
LEMMA InitInv == Init => IInv /\ CounterInv
<1> SUFFICES ASSUME Init PROVE IInv /\ CounterInv
  OBVIOUS
<1>a. /\ cur = [c \in CPU |-> IF c = Boot THEN Bsp ELSE c]
      /\ pc = [c \in CPU |-> "run"]
      /\ sched_lock = NoOne /\ scan = NoOne /\ list = <<Bsp>> /\ left = 0
  BY DEF Init
<1>b. /\ life = [t \in Thread |-> IF t = Bsp THEN "listed" ELSE "new"]
      /\ idle_next = [c \in CPU |-> Bsp]
      /\ status = [t \in Thread |-> IF t = Bsp THEN "RUNNABLE" ELSE "FRESH"]
  BY DEF Init
<1>c. /\ lock = [t \in Thread |-> IF t = Bsp THEN Boot ELSE NoOne]
      /\ victim = [t \in Thread |-> NoOne] /\ fin = [t \in Thread |-> NoOne]
      /\ critical = [t \in Thread |-> 0] /\ sched_counter = [t \in Thread |-> 0]
  BY DEF Init
<1> USE Distinct
<1>1. TypeOK
  <2>1. list \in Seq(Thread)
    BY <1>a
  <2>2. cur \in [CPU -> CPU \union Thread] /\ pc \in [CPU -> Pcs]
    BY <1>a DEF Pcs
  <2>3. /\ idle_next \in [CPU -> Thread]
        /\ status \in [Thread -> {"FRESH", "RUNNABLE", "SLEEPING", "BLOCKED", "DEAD"}]
        /\ life \in [Thread -> {"new", "listed", "removed", "gone"}]
    BY <1>b
  <2>4. /\ lock \in [Thread -> CPU \union Thread \union {NoOne}]
        /\ victim \in [Thread -> Thread \union {NoOne}]
        /\ fin \in [Thread -> Thread \union {NoOne}]
        /\ critical \in [Thread -> Nat] /\ sched_counter \in [Thread -> Int]
    BY <1>c
  <2>5. /\ should_yield \in [CPU -> BOOLEAN] /\ interrupted \in [Thread -> BOOLEAN]
        /\ due \in [Thread -> BOOLEAN] /\ waiting \in [Thread -> BOOLEAN]
    BY DEF Init
  <2> QED
    BY <1>a, <2>1, <2>2, <2>3, <2>4, <2>5 DEF TypeOK
<1>2. SchedLockInv
  BY <1>a DEF SchedLockInv, InSchedule
<1>3. LockInv
  BY <1>a, <1>c DEF LockInv, RunningHoldsLock, Executing
<1>4. ListInv
  <2>1. Len(list) = 1 /\ list[1] = Bsp
    BY <1>a
  <2> QED
    BY <1>b, <2>1 DEF ListInv
<1>5. FinInv /\ CriticalInv
  <2>1. \A t \in Thread : critical[t] = 0 /\ victim[t] = NoOne /\ fin[t] = NoOne
    BY <1>c
  <2>2. FinInv
    BY <2>1 DEF FinInv
  <2>3. CriticalOnCPU
    BY <2>1 DEF CriticalOnCPU
  <2>4. SectionInv
    BY <2>1 DEF SectionInv
  <2> QED
    BY <2>2, <2>3, <2>4 DEF CriticalInv
<1>6. CursorInv
  BY <1>a, <1>b DEF CursorInv, Executing
<1>7. CounterInv
  <2>1. \A t \in Thread : sched_counter[t] = 0
    BY <1>c
  <2>2. 0 \in 0..(2 * Slice - 1) /\ ~(0 >= Slice)
    BY SliceLarge
  <2> QED
    BY <2>1, <2>2, Zenon DEF CounterInv
<1> QED
  BY <1>1, <1>2, <1>3, <1>4, <1>5, <1>6, <1>7 DEF IInv

(* Every step of the system keeps the invariant.                           *)
LEMMA NextInv == IInv /\ CounterInv /\ [Next]_vars => IInv' /\ CounterInv'
<1> SUFFICES ASSUME IInv, CounterInv, [Next]_vars
             PROVE  IInv' /\ CounterInv'
  OBVIOUS
<1>1. ASSUME NEW c \in CPU, CpuStep(c)
      PROVE  IInv' /\ CounterInv'
  <2>1. SchedLockInv' /\ LockInv' /\ ListInv' /\ FinInv'
    BY <1>1, SchedLockStep, LockStep, ListStep, FinStep
  <2>2. CriticalInv' /\ CursorInv' /\ TypeOK'
    BY <1>1, CriticalOnCPUStep, SectionStep, CursorStep, TypeStep DEF CriticalInv
  <2>3. CounterInv'
    BY <1>1, CounterStep
  <2> QED
    BY <2>1, <2>2, <2>3 DEF IInv
<1> QED
  BY <1>1, ExpireStep, StutterStep DEF Next, CpuStep

(* The invariant holds throughout every behaviour of the scheduler.        *)
THEOREM Inductive == Spec => [](IInv /\ CounterInv)
<1> QED
  BY InitInv, NextInv, PTL DEF Spec

(* The CPUs, the thread fields and the thread list keep their types for    *)
(* every number of CPUs and threads.                                       *)
THEOREM TypeCorrect == Spec => []TypeOK
<1>1. IInv => TypeOK
  BY DEF IInv
<1> QED
  BY <1>1, Inductive, PTL

(* schedule() hands a thread to a CPU only with its lock: no thread ever   *)
(* executes on two CPUs.                                                   *)
THEOREM ThreadsRunOnce == Spec => []OneCPUPerThread
<1>1. IInv => OneCPUPerThread
  BY DEF IInv, LockInv, RunningHoldsLock, OneCPUPerThread
<1> QED
  BY <1>1, Inductive, PTL

(* A CPU that executes a thread holds that thread's lock, as the comment   *)
(* in Thread::exit() says.                                                 *)
THEOREM RunningLocked == Spec => []RunningHoldsLock
<1>1. IInv => RunningHoldsLock
  BY DEF IInv, LockInv
<1> QED
  BY <1>1, Inductive, PTL

(* A thread inside a critical section is executing on some CPU.            *)
THEOREM CriticalExecutes == Spec => []CriticalOnCPU
<1>1. IInv => CriticalOnCPU
  BY DEF IInv, CriticalInv
<1> QED
  BY <1>1, Inductive, PTL

(* finish(), remove_thread() and ~Thread() leave no CPU, scan or idle      *)
(* cursor pointing at a thread that is off the list or deleted.            *)
THEOREM NothingDangles == Spec => []NoDanglingThread
<1>1. IInv => NoDanglingThread
  BY DEF IInv, CursorInv, NoDanglingThread
<1> QED
  BY <1>1, Inductive, PTL

(* The counter assertion of scheduler.cpp:91 cannot fail for any legal     *)
(* nice value.                                                             *)
THEOREM CountersBounded == Spec => []SchedCounterBounded
<1>1. CounterInv => SchedCounterBounded
  BY DEF CounterInv, SchedCounterBounded
<1> QED
  BY <1>1, Inductive, PTL

(* No step of any CPU takes a critical thread off its CPU.                 *)
THEOREM CriticalStays == Spec => CriticalKeepsCPU
<1>1. IInv /\ CounterInv /\ [Next]_vars =>
        [\A c \in CPU : Executing(c) /\ critical[cur[c]] > 0
                           => cur'[c] = cur[c] /\ Executing(c)']_vars
  <2> SUFFICES ASSUME IInv, CounterInv, Next, NEW d \in CPU,
                      Executing(d), critical[cur[d]] > 0
               PROVE  cur'[d] = cur[d] /\ Executing(d)'
    OBVIOUS
  <2>1. ASSUME NEW c \in CPU, CpuStep(c)
        PROVE  cur'[d] = cur[d] /\ Executing(d)'
    BY <2>1, KeepStep
  <2>2. ASSUME NEW t \in Thread, Expire(t)
        PROVE  cur'[d] = cur[d] /\ Executing(d)'
    BY <2>2, ExpireStep DEF Executing
  <2> QED
    BY <2>1, <2>2 DEF Next, CpuStep
<1> QED
  BY <1>1, Inductive, PTL DEF Spec, CriticalKeepsCPU

-----------------------------------------------------------------------------
(* MMap: the pages of a mapped file and their slots.                        *)
(* A set of naturals that is not empty has a least element.               *)
LEMMA LeastNat ==
  ASSUME NEW S \in SUBSET Nat, S # {}
  PROVE  \E m \in S : \A k \in S : m <= k
<1> DEFINE R == OpToRel(<, Nat)
<1>1. IsWellFoundedOn(R, Nat)
  BY NatLessThanWellFounded, Zenon
<1>2. PICK m \in S : \A k \in S : ~(<<k, m>> \in R)
  <2> HIDE DEF R
  <2> QED BY <1>1, WFMin, Zenon
<1>3. \A k \in S : ~(k < m)
  BY <1>2, Zenon DEF OpToRel
<1> QED BY <1>3
MmEntry == [id : Page \union {NoPage}, ref : Page \union {NoPage}]

MmType ==
    /\ mmCache \in [Slot -> MmEntry]
    /\ mmPtr \in Slot
    /\ mmBuf \in [Slot -> Page \union {NoPage}]
    /\ mmMap \in [Page -> Slot \union {NoSlot}]
    /\ mmRegion \in {"mapped", "erased", "deleted"}
    /\ mmLock \in MmThreads \union {0}
    /\ mmPc \in [MmThreads -> {"user", "found", "evict", "fill", "map", "delete"}]
    /\ mmLoc \in [MmThreads -> [page : Page \union {NoPage}, slot : Slot \union {NoSlot}]]

MmInv ==
    /\ \A t \in MmThreads :
         /\ mmPc[t] \in {"evict", "fill", "map"} =>
              mmLock = t /\ mmLoc[t].slot \in Slot /\ mmRegion # "deleted"
         /\ mmPc[t] \in {"found", "evict", "fill", "map"} => mmLoc[t].page \in Page
         /\ mmPc[t] \in {"fill", "map"} =>
              /\ mmCache[mmLoc[t].slot] = [id |-> mmLoc[t].page, ref |-> mmLoc[t].page]
              /\ \A p \in Page : mmMap[p] # mmLoc[t].slot
         /\ mmPc[t] = "map" => mmBuf[mmLoc[t].slot] = mmLoc[t].page
    /\ \A p \in Page : mmMap[p] # NoSlot =>
         /\ mmCache[mmMap[p]].id = p /\ mmCache[mmMap[p]].ref = p
         /\ mmBuf[mmMap[p]] = p
         /\ mmRegion # "deleted"

(* findSlot() returns a slot or none, and leaves its pointer on a slot.   *)
LEMMA FindSlotType ==
  ASSUME MmType, NEW id \in Page
  PROVE  FindSlot(id).slot \in Slot \union {NoSlot} /\ FindSlot(id).ptr \in Slot
<1> USE MmAssumption
<1> DEFINE prev == IF id = 0 THEN 0 ELSE id - 1
           after(j) == (mmPtr + j) % MmSlots
           stops == {j \in 1 .. MmSlots :
                        mmCache[after(j)].id = id \/ mmCache[after(j)].id # prev}
           looks == CHOOSE j \in stops : \A k \in stops : j <= k
<1>1. \A j \in Int : after(j) \in Slot
  BY DEF MmType, Slot
<1>2. stops # {} => looks \in Nat
  <2> SUFFICES ASSUME stops # {} PROVE looks \in Nat
    OBVIOUS
  <2>1. stops \in SUBSET Nat
    OBVIOUS
  <2> HIDE DEF stops
  <2>2. \E k \in stops : \A j \in stops : k <= j
    BY <2>1, LeastNat
  <2> QED BY <2>1, <2>2, Zenon
<1>3. FindSlot(id) = IF stops = {} THEN [slot |-> NoSlot, ptr |-> after(MmSlots)]
        ELSE [slot |-> IF mmCache[after(looks)].id = id THEN NoSlot ELSE after(looks - 1),
              ptr  |-> after(looks)]
  BY DEF FindSlot
<1> HIDE DEF after, stops, looks
<1>4. CASE stops = {}
  BY <1>1, <1>3, <1>4
<1>5. CASE stops # {}
  <2>1. looks \in Int /\ looks - 1 \in Int
    BY <1>2, <1>5
  <2>2. after(looks) \in Slot /\ after(looks - 1) \in Slot
    BY <2>1, <1>1
  <2> QED BY <1>3, <1>5, <2>2
<1> QED BY <1>4, <1>5

(* No slot and no page are neither.                                       *)
LEMMA MmFacts == NoSlot \notin Slot /\ NoPage \notin Page
BY DEF Slot, Page, NoSlot, NoPage

(* A step of a thread keeps what the slots say about the mapped pages.    *)
LEMMA MmInvStep ==
  ASSUME MmType, MmInv, NEW t \in MmThreads, MmStep(t)
  PROVE  MmType' /\ MmInv'
<1> USE MmFacts
<1>0. 0 \notin MmThreads
  BY MmAssumption
<1>1. ASSUME NEW p \in Page, PageFault(t, p)
      PROVE  MmType' /\ MmInv'
  <2>1. MmType'
    BY <1>1 DEF MmType, PageFault, MmGoto
  <2>2. MmInv'
    BY <1>1 DEF MmType, MmInv, PageFault, MmGoto, MmAt
  <2> QED BY <2>1, <2>2
<1>2. ASSUME ReadDeleted(t)
      PROVE  MmType' /\ MmInv'
  BY <1>2 DEF MmType, MmInv, ReadDeleted
<1>3. ASSUME ReadSlot(t)
      PROVE  MmType' /\ MmInv'
  <2> DEFINE f == FindSlot(mmLoc[t].page)
  <2>1. mmLoc[t].page \in Page
    BY <1>3, Zenon DEF ReadSlot, MmAt, MmInv
  <2>2. f.slot \in Slot \union {NoSlot} /\ f.ptr \in Slot
    BY <2>1, FindSlotType
  <2>3. CASE f.slot = NoSlot
    <3>1. /\ mmPtr' = f.ptr
          /\ mmLoc' = [mmLoc EXCEPT ![t] = MmIdle] /\ mmPc' = [mmPc EXCEPT ![t] = "user"]
          /\ UNCHANGED <<mmLock, mmCache, mmBuf, mmMap, mmRegion>>
      BY <1>3, <2>3 DEF ReadSlot, MmGoto
    <3> HIDE DEF f
    <3>2. MmType'
      BY <2>2, <3>1 DEF MmType, MmIdle
    <3>3. MmInv'
      BY <3>1, SMTT(30) DEF MmType, MmInv, MmIdle
    <3> QED BY <3>2, <3>3
  <2>4. CASE f.slot # NoSlot
    <3>1. /\ mmPtr' = f.ptr /\ mmPc[t] = "found" /\ mmRegion # "deleted" /\ mmLock = 0
          /\ mmLoc' = [mmLoc EXCEPT ![t].slot = f.slot]
          /\ mmPc' = [mmPc EXCEPT ![t] = "evict"]
          /\ mmLock' = t
          /\ UNCHANGED <<mmCache, mmBuf, mmMap, mmRegion>>
      BY <1>3, <2>4 DEF ReadSlot, MmGoto, MmAt
    <3> HIDE DEF f
    <3>2. MmType'
      BY <2>2, <3>1 DEF MmType
    <3>3. MmInv'
      BY <1>0, <2>2, <2>4, <3>1 DEF MmType, MmInv
    <3> QED BY <3>2, <3>3
  <2> QED BY <2>3, <2>4
<1>4. ASSUME ReadEvict(t)
      PROVE  MmType' /\ MmInv'
  <2> DEFINE l == mmLoc[t]
  <2>1. /\ mmPc[t] = "evict" /\ mmMap' = EvictPage(l.slot)
        /\ mmCache' = [mmCache EXCEPT ![l.slot] = [id |-> l.page, ref |-> l.page]]
        /\ mmPc' = [mmPc EXCEPT ![t] = "fill"]
        /\ UNCHANGED <<mmPtr, mmBuf, mmRegion, mmLock, mmLoc>>
    BY <1>4 DEF ReadEvict, MmAt, MmGoto
  <2>2. l.slot \in Slot /\ l.page \in Page /\ mmLock = t /\ mmRegion # "deleted"
    BY <2>1 DEF MmInv
  <2>3. mmMap' \in [Page -> Slot \union {NoSlot}]
    BY <2>1, <2>2, Zenon DEF EvictPage, MmType
  <2>4. \A p \in Page : mmMap'[p] # l.slot /\ (mmMap'[p] = mmMap[p] \/ mmMap'[p] = NoSlot)
    BY <2>1, <2>2, SMTT(30) DEF EvictPage, MmType, MmInv, MmEntry
  <2>5. MmType'
    BY <2>1, <2>2, <2>3, SMTT(30) DEF MmType, MmEntry
  <2>6. MmInv'
    BY <2>1, <2>2, <2>4, SMTT(30) DEF MmType, MmInv
  <2> QED BY <2>5, <2>6
<1>5. ASSUME ReadFill(t)
      PROVE  MmType' /\ MmInv'
  <2> DEFINE l == mmLoc[t]
  <2>1. /\ mmPc[t] = "fill"
        /\ mmBuf' = [mmBuf EXCEPT ![l.slot] = l.page]
        /\ mmPc' = [mmPc EXCEPT ![t] = "map"]
        /\ UNCHANGED <<mmCache, mmPtr, mmMap, mmRegion, mmLock, mmLoc>>
    BY <1>5 DEF ReadFill, MmAt, MmGoto
  <2>2. l.slot \in Slot /\ l.page \in Page /\ mmLock = t
    BY <2>1, Zenon DEF MmInv
  <2>3. MmType'
    BY <2>1, <2>2 DEF MmType
  <2>4. \A u \in MmThreads : u # t => mmPc'[u] \notin {"evict", "fill", "map"}
    BY <2>1, <2>2, Zenon DEF MmType, MmInv
  <2>5. /\ mmCache[l.slot] = [id |-> l.page, ref |-> l.page]
        /\ \A p \in Page : mmMap[p] # l.slot
    BY <2>1 DEF MmInv
  <2>6. mmBuf'[l.slot] = l.page /\ \A s \in Slot : s # l.slot => mmBuf'[s] = mmBuf[s]
    BY <2>1, <2>2 DEF MmType
  <2>7. \A p \in Page : mmMap[p] # NoSlot => mmBuf'[mmMap[p]] = mmBuf[mmMap[p]]
    BY <2>5, <2>6 DEF MmType
  <2>8. MmInv'
    BY <2>1, <2>2, <2>4, <2>5, <2>6, <2>7, SMTT(30) DEF MmInv, MmType
  <2> QED BY <2>3, <2>8
<1>6. ASSUME ReadMap(t)
      PROVE  MmType' /\ MmInv'
  <2> DEFINE l == mmLoc[t]
  <2>1. /\ mmPc[t] = "map"
        /\ mmMap' = [mmMap EXCEPT ![l.page] = l.slot]
        /\ mmLock' = 0 /\ mmLoc' = [mmLoc EXCEPT ![t] = MmIdle]
        /\ mmPc' = [mmPc EXCEPT ![t] = "user"]
        /\ UNCHANGED <<mmCache, mmPtr, mmBuf, mmRegion>>
    BY <1>6 DEF ReadMap, MmAt, MmGoto
  <2>2. /\ l.slot \in Slot /\ l.page \in Page /\ mmLock = t /\ mmRegion # "deleted"
        /\ mmCache[l.slot] = [id |-> l.page, ref |-> l.page]
        /\ mmBuf[l.slot] = l.page
    BY <2>1, Zenon DEF MmInv
  <2>3. MmType'
    BY <2>1, <2>2 DEF MmType, MmIdle
  <2>4. \A u \in MmThreads : mmPc'[u] \notin {"evict", "fill", "map"}
    BY <1>0, <2>1, <2>2, Zenon DEF MmType, MmInv
  <2>5. MmInv'
    BY <2>1, <2>2, <2>4, SMTT(30) DEF MmType, MmInv
  <2> QED BY <2>3, <2>5
<1>7. ASSUME Munmap(t)
      PROVE  MmType' /\ MmInv'
  <2>1. MmType'
    BY <1>7 DEF MmType, Munmap, MmGoto
  <2>2. MmInv'
    BY <1>7, SMTT(30) DEF MmType, MmInv, Munmap, MmGoto, MmAt
  <2> QED BY <2>1, <2>2
<1>8. ASSUME DeleteRegion(t)
      PROVE  MmType' /\ MmInv'
  <2>1. MmType'
    BY <1>8 DEF MmType, MmEntry, DeleteRegion, MmGoto
  <2>2. \A u \in MmThreads : mmPc'[u] \notin {"evict", "fill", "map"}
    BY <1>0, <1>8, Zenon DEF MmType, MmInv, DeleteRegion, MmGoto, MmAt
  <2>3. MmInv'
    BY <1>8, <2>2 DEF MmType, MmInv, DeleteRegion, MmGoto, MmAt
  <2> QED BY <2>1, <2>3
<1> QED BY <1>1, <1>2, <1>3, <1>4, <1>5, <1>6, <1>7, <1>8 DEF MmStep

(* A page that is mapped shows its own page of the file and shares its    *)
(* buffer with no other, for every number of threads, pages and slots     *)
(* (mem/mmap.cpp:78-89).                                                  *)
THEOREM MmCorrect == MmSpec => []PagesShowTheirFile
<1>1. MmInit => MmType /\ MmInv
  <2> SUFFICES ASSUME MmInit PROVE MmType /\ MmInv
    OBVIOUS
  <2>1. 0 \in Slot
    BY MmAssumption DEF Slot
  <2>2. MmType
    BY <2>1 DEF MmInit, MmType, MmEntry, MmIdle
  <2> QED BY <2>2 DEF MmInit, MmInv
<1>2. MmType /\ MmInv /\ [MmNext]_mmVars => MmType' /\ MmInv'
  <2> SUFFICES ASSUME MmType, MmInv, [MmNext]_mmVars PROVE MmType' /\ MmInv'
    OBVIOUS
  <2>1. CASE MmNext
    BY <2>1, MmInvStep DEF MmNext
  <2>2. CASE UNCHANGED mmVars
    BY <2>2 DEF mmVars, MmType, MmInv
  <2> QED BY <2>1, <2>2
<1>3. MmType /\ MmInv => PagesShowTheirFile
  BY SMTT(30) DEF MmInv, PagesShowTheirFile
<1> QED BY <1>1, <1>2, <1>3, PTL DEF MmSpec
=============================================================================
