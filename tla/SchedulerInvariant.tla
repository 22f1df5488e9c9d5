-------------------------- MODULE SchedulerInvariant -------------------------
(***************************************************************************)
(* The inductive invariant of Scheduler, for any numbers of CPUs and       *)
(* threads, and the lemmas that every step of a CPU preserves its parts.   *)
(* SchedulerProofs adds the types and the slice counters and draws the     *)
(* theorems from it.                                                       *)
(***************************************************************************)
EXTENDS Scheduler, TLAPS

(* The inductive invariant behind OneCPUPerThread, CriticalOnCPU and       *)
(* NoDanglingThread.                                                       *)

InSchedule(c) == pc[c] \in {"drop", "scan", "wake", "take"}

(* sched_lock belongs to the one CPU that is past its acquisition, and the *)
(* scan exists only then.                                                  *)
SchedLockInv ==
    /\ \A c \in CPU : InSchedule(c) <=> sched_lock = c
    /\ \A c \in CPU : pc[c] \in {"wake", "take"} => scan \in Thread
    /\ \A c \in CPU : pc[c] = "scan" => \/ scan \in Thread
                                        \/ scan \in CPU /\ left > 0
    /\ (\A c \in CPU : pc[c] \notin {"scan", "wake", "take"}) => scan = NoOne

(* The holder of a thread's lock is the CPU executing it, or the thread    *)
(* that has it as its victim.                                              *)
LockInv ==
    /\ RunningHoldsLock
    /\ \A u \in Thread : victim[u] # NoOne => lock[victim[u]] = u

(* The list holds exactly the listed threads, each once.                   *)
ListInv ==
    /\ \A i, j \in 1..Len(list) : list[i] = list[j] => i = j
    /\ \A t \in Thread : life[t] = "listed" <=> \E i \in 1..Len(list) : list[i] = t
    /\ life[Bsp] = "listed"

(* A thread in the middle of finish() is critical and executing, and the   *)
(* thread it finishes is itself or one whose lock it holds.                *)
FinInv ==
    \A u \in Thread : fin[u] # NoOne =>
        /\ critical[u] > 0
        /\ fin[u] \in {u, victim[u]}
        /\ fin[u] # Bsp
        /\ life[fin[u]] = "listed"

(* A thread that holds another's lock is critical; schedule() is past its  *)
(* first test only for a thread that is not.                               *)
SectionInv ==
    /\ \A u \in Thread : victim[u] # NoOne => critical[u] > 0
    /\ \A c \in CPU : cur[c] \in Thread /\ pc[c] \in {"enter", "spin", "drop"}
                       => critical[cur[c]] = 0

CriticalInv == CriticalOnCPU /\ SectionInv

CursorInv ==
    /\ \A c \in CPU : Executing(c) => life[cur[c]] \in {"listed", "removed"}
    /\ scan \in Thread => life[scan] = "listed"
    /\ \A c \in CPU : life[idle_next[c]] = "listed"
    /\ \A t \in Thread : status[t] # "FRESH" => life[t] # "new"

IInv ==
    /\ TypeOK
    /\ SchedLockInv
    /\ LockInv
    /\ ListInv
    /\ FinInv
    /\ CriticalInv
    /\ CursorInv

(* A slice counter of a full slice or more is that of a thread that a CPU  *)
(* runs and has not yet charged.                                           *)
CounterInv ==
    \A t \in Thread :
        /\ sched_counter[t] \in 0..(2 * Slice - 1)
        /\ sched_counter[t] >= Slice =>
             \E c \in CPU : cur[c] = t /\ pc[c] \in {"run", "enter"}

CpuStep(c) == Tick(c) \/ Schedule(c) \/ ThreadStep(c)

(* A list of threads, and the list with one more at its end.               *)
LEMMA ListFacts ==
    ASSUME NEW S, NEW q \in Seq(S)
    PROVE  /\ Len(q) \in Nat
           /\ \A i \in 1..Len(q) : q[i] \in S
           /\ \A x \in S : /\ Append(q, x) \in Seq(S)
                           /\ Len(Append(q, x)) = Len(q) + 1
                           /\ \A i \in 1..Len(q) : Append(q, x)[i] = q[i]
                           /\ Append(q, x)[Len(q) + 1] = x
BY SMT

(* A function on the first n numbers is a list of length n.                *)
LEMMA FunctionIsList ==
    ASSUME NEW S, NEW n \in Nat, NEW f \in [1..n -> S]
    PROVE  f \in Seq(S) /\ Len(f) = n
BY SMT

----------------------------------------------------------------------------
(* CPUs, threads and NoOne are told apart.                                 *)
LEMMA Distinct ==
    /\ \A c \in CPU : c \notin Thread
    /\ NoOne \notin CPU /\ NoOne \notin Thread
    /\ Boot \in CPU /\ Bsp \in Thread
BY SchedulerAssumption

(* The list: every listed thread has a place on it, the element after a    *)
(* listed thread is listed, and removing a thread removes it alone.        *)
LEMMA IndexOnList ==
    ASSUME IInv, NEW t \in Thread, life[t] = "listed"
    PROVE  IndexOf(t) \in 1..Len(list) /\ list[IndexOf(t)] = t
BY DEF IInv, ListInv, IndexOf

(* Bsp never leaves the list, and what is on it is a listed thread.        *)
LEMMA ListNonempty ==
    ASSUME IInv
    PROVE  /\ Len(list) \in Nat /\ Len(list) > 0
           /\ \A i \in 1..Len(list) : list[i] \in Thread /\ life[list[i]] = "listed"
<1>1. Len(list) \in Nat /\ \A i \in 1..Len(list) : list[i] \in Thread
  BY ListFacts DEF IInv, TypeOK
<1>2. PICK i \in 1..Len(list) : list[i] = Bsp
  BY Distinct DEF IInv, ListInv
<1> QED
  BY <1>1, <1>2 DEF IInv, ListInv

(* thread->next of a listed thread, or of an idle thread, is listed.       *)
LEMMA NextListed ==
    ASSUME IInv, NEW t \in CPU \union Thread, t \in Thread => life[t] = "listed"
    PROVE  NextOf(t) \in Thread /\ life[NextOf(t)] = "listed"
<1>1. CASE t \in CPU
  BY <1>1 DEF NextOf, IInv, TypeOK, CursorInv
<1>2. CASE t \notin CPU
  <2>1. IndexOf(t) \in 1..Len(list)
    BY <1>2, IndexOnList
  <2> QED
    BY <1>2, <2>1, ListNonempty DEF NextOf
<1> QED
  BY <1>1, <1>2

(* Bsp stays on the list, so another thread is not its own successor.      *)
LEMMA NextOther ==
    ASSUME IInv, NEW t \in Thread, life[t] = "listed", t # Bsp
    PROVE  NextOf(t) # t
<1>1. IndexOf(t) \in 1..Len(list) /\ list[IndexOf(t)] = t
  BY IndexOnList
<1>2. PICK b \in 1..Len(list) : list[b] = Bsp
  BY Distinct DEF IInv, ListInv
<1>3. Len(list) \in Nat /\ ~(t \in CPU)
  BY ListNonempty, Distinct
<1>4. \A i, j \in 1..Len(list) : list[i] = list[j] => i = j
  BY DEF IInv, ListInv
<1> QED
  BY <1>1, <1>2, <1>3, <1>4 DEF NextOf

(* remove_thread() takes off the list the removed thread and no other.     *)
LEMMA WithoutList ==
    ASSUME IInv, NEW t \in Thread, life[t] = "listed", t # Bsp
    PROVE  /\ Without(t) \in Seq(Thread)
           /\ Len(Without(t)) = Len(list) - 1
           /\ \A i, j \in 1..Len(Without(t)) : Without(t)[i] = Without(t)[j] => i = j
           /\ \A u \in Thread : (\E i \in 1..Len(Without(t)) : Without(t)[i] = u)
                                <=> (u # t /\ life[u] = "listed")
<1> DEFINE n == Len(list) - 1
           k == IndexOf(t)
           w == Without(t)
<1>1. n \in Nat /\ k \in 1..(n + 1) /\ list[k] = t
  BY ListNonempty, IndexOnList
<1>2. w = [i \in 1..n |-> list[IF i < k THEN i ELSE i + 1]]
  BY DEF Without
<1>3. w \in [1..n -> Thread]
  BY <1>1, <1>2, ListNonempty
<1>4. w \in Seq(Thread) /\ Len(w) = n
  BY <1>1, <1>3, FunctionIsList
<1> HIDE DEF w
<1>5. \A i, j \in 1..n : w[i] = w[j] => i = j
  BY <1>1, <1>2 DEF IInv, ListInv
<1>6. ASSUME NEW u \in Thread
      PROVE  (\E i \in 1..n : w[i] = u) <=> (u # t /\ life[u] = "listed")
  <2>1. ASSUME NEW i \in 1..n, w[i] = u PROVE u # t /\ life[u] = "listed"
    BY <1>1, <1>2, <2>1, ListNonempty DEF IInv, ListInv
  <2>2. ASSUME u # t, life[u] = "listed" PROVE \E i \in 1..n : w[i] = u
    <3>1. PICK j \in 1..(n + 1) : list[j] = u
      BY <1>1, <2>2 DEF IInv, ListInv
    <3>2. CASE j < k
      <4>1. j \in 1..n /\ w[j] = u
        BY <1>1, <1>2, <3>1, <3>2
      <4> QED
        BY <4>1
    <3>3. CASE j > k
      <4>1. j - 1 \in 1..n /\ w[j - 1] = u
        BY <1>1, <1>2, <3>1, <3>3
      <4> QED
        BY <4>1
    <3> QED
      BY <1>1, <2>2, <3>1, <3>2, <3>3
  <2> QED
    BY <2>1, <2>2
<1> QED
  BY <1>4, <1>5, <1>6 DEF w

----------------------------------------------------------------------------
(* Each part of the invariant is preserved by every step of every CPU.     *)
(* schedule() holds sched_lock while it scans, and only one CPU does.      *)
LEMMA SchedLockStep ==
    ASSUME IInv, NEW c \in CPU, CpuStep(c)
    PROVE  SchedLockInv'
<1>i. /\ pc \in [CPU -> Pcs] /\ sched_lock \in CPU \union {NoOne}
      /\ scan \in CPU \union Thread \union {NoOne} /\ left \in Nat
      /\ SchedLockInv
  BY DEF IInv, TypeOK
<1> USE Distinct, <1>i DEF SchedLockInv, InSchedule
<1>1. CASE UNCHANGED <<pc, sched_lock, scan, left>>
  BY <1>1
<1>2. CASE Tick(c)
  BY <1>2
  DEF Tick, CurCritical, scanVars, listVars, wakeVars, opVars
<1>3. CASE Stay(c)
  BY <1>3
  DEF Stay, scanVars, listVars, wakeVars, opVars
<1>4. CASE Spin(c)
  BY <1>4
  DEF Spin, scanVars, listVars, wakeVars, opVars
<1>5. CASE TakeSchedLock(c)
  BY <1>5
  DEF TakeSchedLock, listVars, wakeVars, opVars
<1>6. CASE DropLock(c)
  <2>1. ScanFrom(c) \in CPU \union Thread /\ Len(list) + 1 > 0
    BY ListNonempty DEF ScanFrom, Listed
  <2> QED
    BY <1>6, <2>1 DEF DropLock, listVars, wakeVars, opVars
<1>7. CASE Scan(c)
  <2>1. NextOf(scan) \in Thread
    BY <1>7, NextListed DEF Scan, IInv, CursorInv
  <2> QED
    BY <1>7, <2>1 DEF Scan, listVars, wakeVars, opVars
<1>8. CASE ScanWake(c)
  BY <1>8
  DEF ScanWake, scanVars, listVars, wakeVars, opVars
<1>9. CASE Skip(c)
  BY <1>9
  DEF Skip, scanVars, listVars, wakeVars, opVars
<1>10. CASE Pick(c)
  BY <1>10
  DEF Pick, Eligible, LockFree, listVars, wakeVars, opVars
<1>11. CASE PickIdle(c)
  BY <1>11
  DEF PickIdle, wakeVars, opVars
<1>12. CASE Yield(c)
  BY <1>12
  DEF Yield, Running, scanVars, listVars, wakeVars
<1>13. CASE SubCritical(c)
  BY <1>13
  DEF SubCritical, LeaveCritical, OwesYield, Running, scanVars, listVars,
      wakeVars, opVars
<1>14. CASE UnlockThread(c)
  BY <1>14, SMTT(30)
  DEF UnlockThread, LeaveCritical, OwesYield, Running, scanVars, listVars,
      wakeVars
<1> HIDE Distinct, <1>i DEF SchedLockInv, InSchedule
<1> QED
  BY <1>1, <1>2, <1>3, <1>4, <1>5, <1>6, <1>7, <1>8, <1>9, <1>10, <1>11, <1>12,
     <1>13, <1>14
  DEF CpuStep, Schedule, ThreadStep, AddCritical, Block, Sleep, Interrupt, Kill,
      Exit, Finish, Wake, LockThread, Delete, Create, Start, vars, scanVars,
      cpuVars, listVars, wakeVars, opVars

(* A thread's lock stays with the CPU that executes the thread, or with    *)
(* the thread that took it.                                                *)
LEMMA LockStep ==
    ASSUME IInv, NEW c \in CPU, CpuStep(c)
    PROVE  LockInv'
<1>i. /\ cur \in [CPU -> CPU \union Thread] /\ pc \in [CPU -> Pcs]
      /\ lock \in [Thread -> CPU \union Thread \union {NoOne}]
      /\ victim \in [Thread -> Thread \union {NoOne}]
      /\ scan \in CPU \union Thread \union {NoOne}
      /\ LockInv /\ SchedLockInv
  BY DEF IInv, TypeOK
<1> USE Distinct, <1>i DEF LockInv, RunningHoldsLock, Executing, SchedLockInv
<1>1. CASE UNCHANGED <<pc, cur, lock, victim>>
  BY <1>1
<1>2. CASE Tick(c)
  BY <1>2
  DEF Tick, CurCritical, scanVars, listVars, wakeVars, opVars
<1>3. CASE Stay(c)
  BY <1>3
  DEF Stay, scanVars, listVars, wakeVars, opVars
<1>4. CASE Spin(c)
  BY <1>4
  DEF Spin, scanVars, listVars, wakeVars, opVars
<1>5. CASE TakeSchedLock(c)
  BY <1>5
  DEF TakeSchedLock, listVars, wakeVars, opVars
<1>6. CASE DropLock(c)
  BY <1>6
  DEF DropLock, listVars, wakeVars, opVars
<1>7. CASE Scan(c)
  BY <1>7
  DEF Scan, listVars, wakeVars, opVars
<1>8. CASE ScanWake(c)
  BY <1>8
  DEF ScanWake, scanVars, listVars, wakeVars, opVars
<1>9. CASE Skip(c)
  BY <1>9
  DEF Skip, scanVars, listVars, wakeVars, opVars
<1>10. CASE Pick(c)
  BY <1>10
  DEF Pick, Eligible, LockFree, listVars, wakeVars, opVars
<1>11. CASE PickIdle(c)
  BY <1>11
  DEF PickIdle, wakeVars, opVars
<1>12. CASE Yield(c)
  BY <1>12
  DEF Yield, Running, scanVars, listVars, wakeVars
<1>13. CASE SubCritical(c)
  BY <1>13
  DEF SubCritical, LeaveCritical, OwesYield, Running, scanVars, listVars,
      wakeVars, opVars
<1>14. CASE UnlockThread(c)
  <2> DEFINE v == victim[cur[c]]
  <2>1. v \in Thread /\ cur[c] \in Thread /\ lock[v] = cur[c]
    BY <1>14 DEF UnlockThread, Running
  <2>2. /\ lock' = [lock EXCEPT ![v] = NoOne]
        /\ victim' = [victim EXCEPT ![cur[c]] = NoOne]
        /\ UNCHANGED cur /\ pc[c] = "run" /\ pc' \in {pc, [pc EXCEPT ![c] = "enter"]}
    BY <1>14, Zenon DEF UnlockThread, Running, LeaveCritical, scanVars
  <2>3. \A d \in CPU : Executing(d)' => Executing(d)
    BY <2>2
  <2>4. RunningHoldsLock'
    BY <2>1, <2>2, <2>3
  <2> QED
    BY <2>1, <2>2, <2>4
<1>15. ASSUME NEW t \in Thread, LockThread(c, t) PROVE LockInv'
  BY <1>15, SMTT(30)
  DEF LockThread, LockFree, Active, Running, cpuVars, listVars, wakeVars,
      scanVars
<1> HIDE Distinct, <1>i DEF LockInv, RunningHoldsLock, Executing, SchedLockInv
<1> QED
  BY <1>1, <1>2, <1>3, <1>4, <1>5, <1>6, <1>7, <1>8, <1>9, <1>10, <1>11, <1>12,
     <1>13, <1>14, <1>15
  DEF CpuStep, Schedule, ThreadStep, AddCritical, Block, Sleep, Interrupt, Kill,
      Exit, Finish, Wake, Delete, Create, Start, vars, scanVars, cpuVars,
      listVars, wakeVars, opVars

(* finish() removes one thread from the list, create() appends one.        *)
LEMMA ListStep ==
    ASSUME IInv, NEW c \in CPU, CpuStep(c)
    PROVE  ListInv'
<1>1. CASE UNCHANGED <<list, life>>
  BY <1>1 DEF IInv, ListInv
<1>2. CASE Finish(c)
  <2>1. PICK t \in Thread : /\ life[t] = "listed" /\ t # Bsp
                           /\ list' = Without(t)
                           /\ life' = [life EXCEPT ![t] = "removed"]
    BY <1>2, Zenon DEF Finish, Running, IInv, TypeOK, FinInv
  <2>2. /\ \A i, j \in 1..Len(list') : list'[i] = list'[j] => i = j
        /\ \A u \in Thread : (\E i \in 1..Len(list') : list'[i] = u)
                             <=> (u # t /\ life[u] = "listed")
    BY <2>1, WithoutList
  <2>3. \A u \in Thread : life'[u] = "listed" <=> (u # t /\ life[u] = "listed")
    BY <2>1 DEF IInv, TypeOK
  <2> QED
    BY <2>1, <2>2, <2>3, Distinct DEF IInv, ListInv
<1>3. ASSUME NEW t \in Thread, Delete(c, t) PROVE ListInv'
  BY <1>3, SMTT(30) DEF Delete, IInv, TypeOK, ListInv
<1>4. ASSUME NEW t \in Thread, Create(c, t) PROVE ListInv'
  <2>1. list' = Append(list, t) /\ life' = [life EXCEPT ![t] = "listed"]
    BY <1>4 DEF Create
  <2>2. /\ Len(list') = Len(list) + 1
        /\ \A i \in 1..Len(list) : list'[i] = list[i]
        /\ list'[Len(list) + 1] = t
    BY <2>1, ListFacts, SMTT(30) DEF IInv, TypeOK
  <2>3. /\ Len(list) \in Nat
        /\ \A i \in 1..Len(list) : list[i] # t
    BY <1>4, ListNonempty DEF Create
  <2>4. \A i, j \in 1..Len(list') : list'[i] = list'[j] => i = j
    BY <2>2, <2>3 DEF IInv, ListInv
  <2>5. \A u \in Thread : (\E i \in 1..Len(list') : list'[i] = u)
                          <=> (u = t \/ \E i \in 1..Len(list) : list[i] = u)
    BY <2>2, <2>3
  <2>6. \A u \in Thread : life'[u] = "listed" <=> (u = t \/ life[u] = "listed")
    BY <2>1 DEF IInv, TypeOK
  <2> QED
    BY <2>4, <2>5, <2>6, Distinct, SMTT(30) DEF IInv, ListInv
<1> QED
  BY <1>1, <1>2, <1>3, <1>4, Zenon
  DEF CpuStep, Schedule, ThreadStep, Tick, Stay, Spin, TakeSchedLock, DropLock,
      Scan, ScanWake, Skip, Pick, PickIdle, Yield, AddCritical, SubCritical,
      Block, Sleep, UnlockThread, Interrupt, Kill, Exit, Wake, LockThread,
      Start, vars, scanVars, cpuVars, listVars, wakeVars, opVars

(* Two threads never finish the same thread: a thread finishes itself       *)
(* while it executes, or one whose lock it holds.                          *)
LEMMA FinAlone ==
    ASSUME IInv, NEW u \in Thread, NEW v \in Thread,
           fin[u] # NoOne, fin[u] = fin[v]
    PROVE  u = v
<1> USE Distinct
<1>1. \A w \in Thread : fin[w] # NoOne =>
        \/ fin[w] = w /\ lock[w] \in CPU
        \/ fin[w] # w /\ lock[fin[w]] = w
  <2> SUFFICES ASSUME NEW w \in Thread, fin[w] # NoOne
               PROVE  \/ fin[w] = w /\ lock[w] \in CPU
                      \/ fin[w] # w /\ lock[fin[w]] = w
    OBVIOUS
  <2>1. critical[w] > 0 /\ fin[w] \in {w, victim[w]}
    BY DEF IInv, FinInv
  <2>2. PICK d \in CPU : Executing(d) /\ cur[d] = w
    BY <2>1 DEF IInv, CriticalInv, CriticalOnCPU
  <2>3. lock[w] = d
    BY <2>2, SMTT(30) DEF IInv, LockInv, RunningHoldsLock
  <2> QED
    BY <2>1, <2>3 DEF IInv, LockInv
<1> QED
  BY <1>1

(* Only the thread that is finishing another changes what it finishes.     *)
LEMMA FinStep ==
    ASSUME IInv, NEW c \in CPU, CpuStep(c)
    PROVE  FinInv'
<1>i. /\ cur \in [CPU -> CPU \union Thread] /\ pc \in [CPU -> Pcs]
      /\ critical \in [Thread -> Nat] /\ victim \in [Thread -> Thread \union {NoOne}]
      /\ fin \in [Thread -> Thread \union {NoOne}]
      /\ life \in [Thread -> {"new", "listed", "removed", "gone"}]
      /\ FinInv
  BY DEF IInv, TypeOK
<1> USE Distinct, <1>i DEF FinInv
<1>1. CASE UNCHANGED <<critical, fin, victim, life>>
  BY <1>1
<1>2. CASE AddCritical(c)
  BY <1>2
  DEF AddCritical, Active, cpuVars, listVars, wakeVars, opVars, scanVars
<1>3. CASE SubCritical(c)
  BY <1>3
  DEF SubCritical, LeaveCritical, scanVars, listVars, wakeVars, opVars
<1>4. CASE UnlockThread(c)
  BY <1>4
  DEF UnlockThread, LeaveCritical, scanVars, listVars, wakeVars
<1>5. CASE Kill(c)
  <2>1. \A u \in Thread : victim[u] # NoOne => critical[u] > 0
    BY DEF IInv, CriticalInv, SectionInv
  <2> QED
    <3> DEFINE v == victim[cur[c]]
    <3>1. /\ cur[c] \in Thread /\ v # NoOne /\ v # Bsp /\ life[v] = "listed"
          /\ fin' = [fin EXCEPT ![cur[c]] = v]
          /\ UNCHANGED <<critical, victim, life>>
      BY <1>5 DEF Kill, Active, Running, listVars
    <3>2. \A u \in Thread : fin'[u] = IF u = cur[c] THEN v ELSE fin[u]
      BY <3>1
    <3> QED
      BY <2>1, <3>1, <3>2
<1>6. CASE Exit(c)
  BY <1>6
  DEF Exit, Active, Running, cpuVars, listVars, wakeVars, scanVars
<1>7. CASE Finish(c)
  <2> DEFINE t == fin[cur[c]]
  <2>1. /\ t \in Thread /\ t # Bsp /\ cur[c] \in Thread
        /\ fin' = [fin EXCEPT ![cur[c]] = NoOne]
        /\ life' = [life EXCEPT ![t] = "removed"]
        /\ UNCHANGED <<critical, victim>>
    BY <1>7 DEF Finish, Running
  <2>2. \A u \in Thread : fin[u] = t => u = cur[c]
    BY <2>1, FinAlone
  <2> QED
    BY <2>1, <2>2
<1>8. ASSUME NEW t \in Thread, LockThread(c, t) PROVE FinInv'
  BY <1>8
  DEF LockThread, Active, cpuVars, listVars, wakeVars, scanVars
<1>9. ASSUME NEW t \in Thread, Delete(c, t) PROVE FinInv'
  BY <1>9
  DEF Delete, LockFree, Active, cpuVars, wakeVars, opVars, scanVars
<1>10. ASSUME NEW t \in Thread, Create(c, t) PROVE FinInv'
  BY <1>10, SMTT(30)
  DEF Create, Active, cpuVars, wakeVars, opVars, scanVars
<1> HIDE Distinct, <1>i DEF FinInv
<1> QED
  BY <1>1, <1>2, <1>3, <1>4, <1>5, <1>6, <1>7, <1>8, <1>9, <1>10, Zenon
  DEF CpuStep, Schedule, ThreadStep, Tick, Stay, Spin, TakeSchedLock, DropLock,
      Scan, ScanWake, Skip, Pick, PickIdle, Yield, Block, Sleep, Interrupt,
      Wake, Start, vars, scanVars, cpuVars, listVars, wakeVars, opVars

(* A critical thread is not switched out: no step of any CPU ends the      *)
(* execution of a thread whose critical counter is positive.               *)
LEMMA KeepStep ==
    ASSUME IInv, NEW c \in CPU, CpuStep(c)
    PROVE  \A d \in CPU : Executing(d) /\ critical[cur[d]] > 0
                            => cur'[d] = cur[d] /\ Executing(d)'
<1> USE Distinct DEF IInv, TypeOK, CriticalInv, SectionInv, Executing
<1>1. CASE UNCHANGED <<pc, cur>>
  BY <1>1
<1>2. CASE Tick(c)
  BY <1>2
  DEF Tick, CurCritical, scanVars, listVars, wakeVars, opVars
<1>3. CASE Stay(c)
  BY <1>3
  DEF Stay, scanVars, listVars, wakeVars, opVars
<1>4. CASE Spin(c)
  BY <1>4
  DEF Spin, scanVars, listVars, wakeVars, opVars
<1>5. CASE TakeSchedLock(c)
  BY <1>5
  DEF TakeSchedLock, listVars, wakeVars, opVars
<1>6. CASE DropLock(c)
  BY <1>6
  DEF DropLock, listVars, wakeVars, opVars
<1>7. CASE Scan(c)
  BY <1>7
  DEF Scan, listVars, wakeVars, opVars
<1>8. CASE ScanWake(c)
  BY <1>8
  DEF ScanWake, scanVars, listVars, wakeVars, opVars
<1>9. CASE Skip(c)
  BY <1>9
  DEF Skip, scanVars, listVars, wakeVars, opVars
<1>10. CASE Pick(c)
  BY <1>10
  DEF Pick, Eligible, LockFree, listVars, wakeVars, opVars
<1>11. CASE PickIdle(c)
  BY <1>11
  DEF PickIdle, wakeVars, opVars
<1>12. CASE Yield(c)
  BY <1>12
  DEF Yield, Running, scanVars, listVars, wakeVars
<1>13. CASE SubCritical(c)
  BY <1>13
  DEF SubCritical, LeaveCritical, OwesYield, Running, scanVars, listVars,
      wakeVars, opVars
<1>14. CASE UnlockThread(c)
  BY <1>14, SMTT(30)
  DEF UnlockThread, LeaveCritical, OwesYield, Running, scanVars, listVars,
      wakeVars
<1> HIDE Distinct DEF IInv, TypeOK, CriticalInv, SectionInv, Executing
<1> QED
  BY <1>1, <1>2, <1>3, <1>4, <1>5, <1>6, <1>7, <1>8, <1>9, <1>10, <1>11, <1>12,
     <1>13, <1>14, Zenon
  DEF CpuStep, Schedule, ThreadStep, AddCritical, Block, Sleep, Interrupt, Kill,
      Exit, Finish, Wake, LockThread, Delete, Create, Start, vars, scanVars,
      cpuVars, listVars, wakeVars, opVars

(* Only the thread executing on c becomes critical in a step of c.         *)
LEMMA CriticalRise ==
    ASSUME IInv, NEW c \in CPU, CpuStep(c), NEW t \in Thread, critical'[t] > 0
    PROVE  \/ critical[t] > 0
           \/ Executing(c) /\ cur[c] = t /\ Executing(c)' /\ cur'[c] = t
<1> USE DEF IInv, TypeOK, Executing
<1>1. CASE UNCHANGED critical
  BY <1>1
<1>2. CASE AddCritical(c)
  BY <1>2
  DEF AddCritical, Active, Running, cpuVars, listVars, wakeVars, opVars,
      scanVars
<1>3. CASE SubCritical(c)
  BY <1>3
  DEF SubCritical, LeaveCritical, Running, scanVars, listVars, wakeVars, opVars
<1>4. CASE UnlockThread(c)
  BY <1>4
  DEF UnlockThread, LeaveCritical, Running, scanVars, listVars, wakeVars
<1>5. CASE Exit(c)
  BY <1>5
  DEF Exit, Active, Running, cpuVars, listVars, wakeVars, scanVars
<1>6. ASSUME NEW u \in Thread, LockThread(c, u)
       PROVE  \/ critical[t] > 0
              \/ Executing(c) /\ cur[c] = t /\ Executing(c)' /\ cur'[c] = t
  BY <1>6
  DEF LockThread, LockFree, Active, Running, cpuVars, listVars, wakeVars,
      scanVars
<1> HIDE DEF IInv, TypeOK, Executing
<1> QED
  BY <1>1, <1>2, <1>3, <1>4, <1>5, <1>6, ZenonT(30)
  DEF CpuStep, Schedule, ThreadStep, Tick, Stay, Spin, TakeSchedLock, DropLock,
      Scan, ScanWake, Skip, Pick, PickIdle, Yield, Block, Sleep, Interrupt,
      Kill, Finish, Wake, Delete, Create, Start, vars, scanVars, cpuVars,
      listVars, wakeVars, opVars

(* Every step leaves the critical threads executing.                       *)
LEMMA CriticalOnCPUStep ==
    ASSUME IInv, NEW c \in CPU, CpuStep(c)
    PROVE  CriticalOnCPU'
<1> SUFFICES ASSUME NEW t \in Thread, critical'[t] > 0
             PROVE  \E d \in CPU : Executing(d)' /\ cur'[d] = t
  BY DEF CriticalOnCPU
<1>1. CASE critical[t] > 0
  <2>1. PICK d \in CPU : Executing(d) /\ cur[d] = t
    BY <1>1, SMTT(30) DEF IInv, CriticalInv, CriticalOnCPU
  <2> QED
    BY <1>1, <2>1, KeepStep
<1> QED
  BY <1>1, CriticalRise

(* schedule() runs past its first test only for a thread that is not       *)
(* critical, and the holder of a thread lock is critical.                  *)
LEMMA SectionStep ==
    ASSUME IInv, NEW c \in CPU, CpuStep(c)
    PROVE  SectionInv'
<1>i. /\ cur \in [CPU -> CPU \union Thread] /\ pc \in [CPU -> Pcs]
      /\ critical \in [Thread -> Nat] /\ victim \in [Thread -> Thread \union {NoOne}]
      /\ CriticalOnCPU /\ SectionInv /\ RunningHoldsLock
  BY DEF IInv, TypeOK, CriticalInv, LockInv
<1> USE Distinct, <1>i DEF SectionInv, RunningHoldsLock, Executing
<1>1. CASE UNCHANGED <<critical, victim, cur, pc>>
  BY <1>1
<1>2. CASE Tick(c)
  <2>1. /\ UNCHANGED <<critical, victim, cur>>
        /\ \/ pc' = pc
           \/ /\ pc' = [pc EXCEPT ![c] = "enter"]
              /\ cur[c] \in Thread => ~(critical[cur[c]] > 0)
    BY <1>2 DEF Tick, CurCritical, opVars
  <2>2. \A d \in CPU : cur[d] \in Thread => critical[cur[d]] \in Nat
    OBVIOUS
  <2> QED
    BY <2>1, <2>2
<1>3. CASE Stay(c)
  BY <1>3
  DEF Stay, scanVars, listVars, wakeVars, opVars
<1>4. CASE Spin(c)
  BY <1>4
  DEF Spin, scanVars, listVars, wakeVars, opVars
<1>5. CASE TakeSchedLock(c)
  BY <1>5
  DEF TakeSchedLock, listVars, wakeVars, opVars
<1>6. CASE DropLock(c)
  BY <1>6
  DEF DropLock, listVars, wakeVars, opVars
<1>7. CASE Scan(c)
  BY <1>7
  DEF Scan, listVars, wakeVars, opVars
<1>8. CASE ScanWake(c)
  BY <1>8
  DEF ScanWake, scanVars, listVars, wakeVars, opVars
<1>9. CASE Skip(c)
  BY <1>9
  DEF Skip, scanVars, listVars, wakeVars, opVars
<1>10. CASE Pick(c)
  BY <1>10
  DEF Pick, Eligible, LockFree, listVars, wakeVars, opVars
<1>11. CASE PickIdle(c)
  BY <1>11
  DEF PickIdle, wakeVars, opVars
<1>12. CASE Yield(c)
  BY <1>12
  DEF Yield, Running, scanVars, listVars, wakeVars
<1>13. CASE AddCritical(c)
  BY <1>13
  DEF AddCritical, Active, Running, cpuVars, listVars, wakeVars, opVars,
      scanVars
<1>l. ASSUME Running(c), LeaveCritical(c), UNCHANGED cur,
             \A u \in Thread : victim'[u] = IF u = cur[c] THEN NoOne ELSE victim[u]
      PROVE  SectionInv'
  <2>1. /\ pc[c] = "run" /\ cur[c] \in Thread /\ critical[cur[c]] > 0
        /\ critical' = [critical EXCEPT ![cur[c]] = critical[cur[c]] - 1]
    BY <1>l DEF Running, LeaveCritical
  <2>2. \/ pc' = pc
        \/ pc' = [pc EXCEPT ![c] = "enter"] /\ critical[cur[c]] = 1
    <3>1. CASE OwesYield(c)
      BY <1>l, <3>1, Zenon DEF LeaveCritical, OwesYield
    <3>2. CASE ~OwesYield(c)
      <4>1. pc' = [pc EXCEPT ![c] = pc[c]]
        BY <1>l, <3>2, Zenon DEF LeaveCritical
      <4> QED
        BY <4>1
    <3> QED
      BY <3>1, <3>2
  <2>3. \A u \in Thread : critical'[u] = IF u = cur[c] THEN critical[u] - 1
                                                     ELSE critical[u]
    BY <2>1
  <2>4. \A d \in CPU : d # c /\ Executing(d) => cur[d] # cur[c]
    BY <2>1
  <2>5. \A u \in Thread : victim'[u] # NoOne => critical'[u] > 0
    BY <1>l, <2>3
  <2>6. ASSUME NEW d \in CPU, cur'[d] \in Thread, pc'[d] \in {"enter", "spin", "drop"}
        PROVE  critical'[cur'[d]] = 0
    <3>1. CASE d = c
      BY <1>l, <2>1, <2>2, <2>3, <2>6, <3>1
    <3>2. CASE d # c
      <4>1. pc'[d] = pc[d] /\ cur'[d] = cur[d]
        BY <1>l, <2>2, <3>2, SMTT(30)
      <4> QED
        BY <4>1, <2>3, <2>4, <2>6, <3>2
    <3> QED
      BY <3>1, <3>2
  <2> QED
    BY <2>5, <2>6
<1>14. CASE SubCritical(c)
  BY <1>14, <1>l DEF SubCritical, opVars
<1>15. CASE UnlockThread(c)
  <2>1. \A u \in Thread : victim'[u] = IF u = cur[c] THEN NoOne ELSE victim[u]
    BY <1>15 DEF UnlockThread, Running
  <2> QED
    BY <1>15, <2>1, <1>l DEF UnlockThread
<1>16. CASE Exit(c)
  <2>1. /\ pc[c] = "run" /\ cur[c] \in Thread /\ UNCHANGED <<pc, cur, victim>>
        /\ critical' = [critical EXCEPT ![cur[c]] = 1]
    BY <1>16 DEF Exit, Active, Running, cpuVars
  <2>2. \A u \in Thread : critical'[u] = IF u = cur[c] THEN 1 ELSE critical[u]
    BY <2>1
  <2>3. \A d \in CPU : d # c /\ Executing(d) => cur[d] # cur[c]
    BY <2>1
  <2>4. \A u \in Thread : victim'[u] # NoOne => critical'[u] > 0
    BY <2>1, <2>2
  <2>5. \A d \in CPU : cur'[d] \in Thread /\ pc'[d] \in {"enter", "spin", "drop"}
                       => critical'[cur'[d]] = 0
    BY <2>1, <2>2, <2>3
  <2> QED
    BY <2>4, <2>5
<1>17. ASSUME NEW t \in Thread, LockThread(c, t) PROVE SectionInv'
  <2>1. /\ pc[c] = "run" /\ cur[c] \in Thread
        /\ victim' = [victim EXCEPT ![cur[c]] = t]
        /\ critical' = [critical EXCEPT ![cur[c]] = critical[cur[c]] + 1]
        /\ UNCHANGED <<pc, cur>>
    BY <1>17 DEF LockThread, Active, Running, cpuVars
  <2>2. \A u \in Thread : critical'[u] = IF u = cur[c] THEN critical[u] + 1
                                                     ELSE critical[u]
    BY <2>1
  <2>3. \A d \in CPU : d # c /\ Executing(d) => cur[d] # cur[c]
    BY <2>1
  <2>4. \A u \in Thread : victim'[u] # NoOne => critical'[u] > 0
    BY <2>1, <2>2
  <2>5. \A d \in CPU : cur'[d] \in Thread /\ pc'[d] \in {"enter", "spin", "drop"}
                       => critical'[cur'[d]] = 0
    BY <2>1, <2>2, <2>3, SMTT(30)
  <2> QED
    BY <2>4, <2>5
<1> HIDE Distinct, <1>i DEF SectionInv, RunningHoldsLock, Executing
<1> QED
  BY <1>1, <1>2, <1>3, <1>4, <1>5, <1>6, <1>7, <1>8, <1>9, <1>10, <1>11, <1>12,
     <1>13, <1>14, <1>15, <1>16, <1>17, Zenon
  DEF CpuStep, Schedule, ThreadStep, Block, Sleep, Interrupt, Kill, Finish,
      Wake, Delete, Create, Start, vars, scanVars, cpuVars, listVars, wakeVars,
      opVars

(* No cursor is left behind on a thread that leaves the list.              *)
LEMMA CursorStep ==
    ASSUME IInv, NEW c \in CPU, CpuStep(c)
    PROVE  CursorInv'
<1>t. /\ cur \in [CPU -> CPU \union Thread] /\ pc \in [CPU -> Pcs]
      /\ idle_next \in [CPU -> Thread] /\ fin \in [Thread -> Thread \union {NoOne}]
      /\ victim \in [Thread -> Thread \union {NoOne}]
  BY DEF IInv, TypeOK
<1>u. /\ status \in [Thread -> {"FRESH", "RUNNABLE", "SLEEPING", "BLOCKED", "DEAD"}]
      /\ life \in [Thread -> {"new", "listed", "removed", "gone"}]
  BY DEF IInv, TypeOK
<1>i. CursorInv
  BY DEF IInv
<1>1. CASE UNCHANGED <<cur, pc, life, scan, idle_next, status>>
  BY <1>1, <1>i DEF CursorInv, Executing
<1>p. ASSUME UNCHANGED <<cur, life, scan, idle_next, status>>,
             pc[c] \in {"run", "enter", "spin"},
             NEW p \in {"run", "enter", "spin", "drop"}, pc' = [pc EXCEPT ![c] = p]
      PROVE  CursorInv'
  <2>1. \A d \in CPU : Executing(d)' => Executing(d)
    BY <1>p, <1>t DEF Executing
  <2> QED
    BY <1>p, <2>1, <1>i DEF CursorInv
<1>w. ASSUME UNCHANGED <<cur, pc, life, scan, idle_next>>,
             NEW t \in Thread, life[t] # "new",
             NEW st, status' = [status EXCEPT ![t] = st]
      PROVE  CursorInv'
  <2>1. \A u \in Thread : status'[u] # "FRESH" => status[u] # "FRESH" \/ u = t
    BY <1>w, <1>u
  <2>2. \A d \in CPU : Executing(d)' <=> Executing(d)
    BY <1>w DEF Executing
  <2> QED
    BY <1>w, <2>1, <2>2, <1>i DEF CursorInv
<1>s. ASSUME UNCHANGED <<life, idle_next, status>>,
             scan' \in Thread => life[scan'] = "listed",
             \A d \in CPU : Executing(d)' =>
                 \/ Executing(d) /\ cur'[d] = cur[d]
                 \/ scan \in Thread /\ cur'[d] = scan
      PROVE  CursorInv'
  <2>1. \A d \in CPU : Executing(d)' => life[cur'[d]] \in {"listed", "removed"}
    BY <1>s, <1>i DEF CursorInv
  <2> QED
    BY <1>s, <2>1, <1>i DEF CursorInv
<1>2. CASE Tick(c)
  <2>1. UNCHANGED <<cur, life, scan, idle_next, status>> /\ pc[c] = "run"
    BY <1>2 DEF Tick, scanVars, listVars
  <2>2. CASE pc' = pc
    BY <2>1, <2>2, <1>1
  <2>3. CASE pc' = [pc EXCEPT ![c] = "enter"]
    BY <2>1, <2>3, <1>p
  <2> QED
    BY <1>2, <2>2, <2>3 DEF Tick
<1>3. CASE Stay(c) \/ Spin(c) \/ TakeSchedLock(c) \/ Yield(c)
  <2>1. /\ UNCHANGED <<cur, life, scan, idle_next, status>>
        /\ pc[c] \in {"run", "enter", "spin"}
    BY <1>3, SMTT(30) DEF Stay, Spin, TakeSchedLock, Yield, Running, scanVars, listVars
  <2>2. PICK p \in {"run", "enter", "spin", "drop"} : pc' = [pc EXCEPT ![c] = p]
    BY <1>3, Zenon DEF Stay, Spin, TakeSchedLock, Yield
  <2> QED
    BY <2>1, <2>2, <1>p, Zenon
<1>4. CASE DropLock(c)
  <2>1. ScanFrom(c) \in Thread => life[ScanFrom(c)] = "listed"
    <3>1. \A u \in Listed : life[u] = "listed"
      BY DEF Listed
    <3>2. life[list[1]] = "listed"
      BY ListNonempty
    <3> QED
      BY <3>1, <3>2, Distinct DEF ScanFrom
  <2>2. /\ UNCHANGED <<life, idle_next, status, cur>> /\ scan' = ScanFrom(c)
        /\ pc' = [pc EXCEPT ![c] = "scan"]
    BY <1>4 DEF DropLock, listVars
  <2>3. \A d \in CPU : Executing(d)' => Executing(d)
    BY <2>2, <1>t DEF Executing
  <2> QED
    BY <2>1, <2>2, <2>3, <1>s
<1>5. CASE Scan(c)
  <2>0. pc[c] = "scan"
    BY <1>5 DEF Scan
  <2>1. scan \in CPU \union Thread /\ (scan \in Thread => life[scan] = "listed")
    BY <2>0, <1>i DEF IInv, SchedLockInv, CursorInv
  <2>2. NextOf(scan) \in Thread /\ life[NextOf(scan)] = "listed"
    BY <2>1, NextListed
  <2>3. UNCHANGED <<life, idle_next, status, cur>> /\ scan' = NextOf(scan)
    BY <1>5 DEF Scan, listVars
  <2>4. PICK p \in {"take", "wake", "scan"} : pc' = [pc EXCEPT ![c] = p]
    BY <1>5, Zenon DEF Scan
  <2>5. \A d \in CPU : Executing(d)' => Executing(d)
    BY <2>3, <2>4, <1>t DEF Executing
  <2> QED
    BY <2>2, <2>3, <2>5, <1>s
<1>6. CASE ScanWake(c)
  <2>1. /\ UNCHANGED <<cur, life, scan, idle_next>> /\ pc[c] = "wake"
        /\ pc' = [pc EXCEPT ![c] = "take"]
        /\ status' = [status EXCEPT ![scan] = "RUNNABLE"]
    BY <1>6, SMTT(30) DEF ScanWake, scanVars, listVars
  <2>2. scan \in Thread /\ life[scan] = "listed"
    BY <2>1, <1>i DEF IInv, SchedLockInv, CursorInv
  <2>3. \A d \in CPU : Executing(d)' => Executing(d)
    BY <2>1, <1>t DEF Executing
  <2>4. \A u \in Thread : status'[u] # "FRESH" => status[u] # "FRESH" \/ u = scan
    BY <2>1, <1>u
  <2> QED
    BY <2>1, <2>2, <2>3, <2>4, <1>i DEF CursorInv
<1>7. CASE Skip(c)
  <2>1. /\ UNCHANGED <<cur, life, scan, idle_next, status>>
        /\ pc' = [pc EXCEPT ![c] = "scan"]
    BY <1>7 DEF Skip, scanVars, listVars
  <2>2. \A d \in CPU : Executing(d)' => Executing(d)
    BY <2>1, <1>t DEF Executing
  <2> QED
    BY <2>1, <2>2, <1>i DEF CursorInv
<1>8. CASE Pick(c)
  <2>1. /\ UNCHANGED <<life, idle_next, status>> /\ scan' = NoOne /\ pc[c] = "take"
        /\ cur' = [cur EXCEPT ![c] = scan] /\ pc' = [pc EXCEPT ![c] = "run"]
    BY <1>8 DEF Pick, listVars
  <2>2. scan \in Thread
    BY <2>1 DEF IInv, SchedLockInv
  <2>3. /\ cur'[c] = scan
        /\ \A d \in CPU : d # c => cur'[d] = cur[d] /\ pc'[d] = pc[d]
    BY <2>1, <1>t
  <2>4. \A d \in CPU : Executing(d)' =>
            \/ Executing(d) /\ cur'[d] = cur[d]
            \/ scan \in Thread /\ cur'[d] = scan
    BY <2>2, <2>3 DEF Executing
  <2>5. scan' \notin Thread
    BY <2>1, Distinct
  <2> QED
    BY <2>1, <2>4, <2>5, <1>s
<1>9. CASE PickIdle(c)
  <2>1. /\ pc[c] = "scan" /\ left = 0 /\ UNCHANGED <<life, status>> /\ scan' = NoOne
        /\ cur' = [cur EXCEPT ![c] = c] /\ pc' = [pc EXCEPT ![c] = "run"]
        /\ idle_next' = [idle_next EXCEPT ![c] = scan]
    BY <1>9 DEF PickIdle
  <2>2. scan \in Thread /\ life[scan] = "listed" /\ scan' \notin Thread
    BY <2>1, <1>i, Distinct, SMTT(30) DEF IInv, SchedLockInv, CursorInv
  <2>3. /\ cur'[c] = c
        /\ \A d \in CPU : d # c => cur'[d] = cur[d] /\ pc'[d] = pc[d]
    BY <2>1, <1>t
  <2>4. \A d \in CPU : Executing(d)' => Executing(d) /\ cur'[d] = cur[d]
    BY <2>3, Distinct DEF Executing
  <2>5. \A d \in CPU : life[idle_next'[d]] = "listed"
    BY <2>1, <2>2, <1>t, <1>i DEF CursorInv
  <2> QED
    BY <2>1, <2>2, <2>4, <2>5, <1>i DEF CursorInv
<1>10. CASE SubCritical(c) \/ UnlockThread(c)
  <2>1. UNCHANGED <<cur, life, scan, idle_next, status>> /\ pc[c] = "run"
    BY <1>10 DEF SubCritical, UnlockThread, LeaveCritical, Running, scanVars, listVars
  <2>2. PICK p \in {"run", "enter"} : pc' = [pc EXCEPT ![c] = p]
    BY <1>10, <2>1, Zenon DEF SubCritical, UnlockThread, LeaveCritical
  <2> QED
    BY <2>1, <2>2, <1>p, Zenon
<1>11. CASE Block(c) \/ Sleep(c) \/ Exit(c)
  <2>1. /\ UNCHANGED <<cur, pc, life, scan, idle_next>>
        /\ cur[c] \in Thread /\ life[cur[c]] = "listed"
    BY <1>11 DEF Block, Sleep, Exit, Active, Running, cpuVars, scanVars, listVars
  <2>2. PICK st \in {"BLOCKED", "SLEEPING", "DEAD"} :
            status' = [status EXCEPT ![cur[c]] = st]
    BY <1>11 DEF Block, Sleep, Exit
  <2> QED
    BY <2>1, <2>2, <1>w, Zenon
<1>12. CASE Kill(c)
  <2>1. /\ UNCHANGED <<cur, pc, life, scan, idle_next>>
        /\ cur[c] \in Thread /\ victim[cur[c]] # NoOne
        /\ life[victim[cur[c]]] = "listed"
        /\ status' = [status EXCEPT ![victim[cur[c]]] = "DEAD"]
    BY <1>12 DEF Kill, Active, Running, cpuVars, scanVars, listVars
  <2>2. victim[cur[c]] \in Thread
    BY <2>1, <1>t
  <2> QED
    BY <2>1, <2>2, <1>w, Zenon
<1>13. CASE Finish(c)
  <2> DEFINE t == fin[cur[c]]
  <2>1. /\ cur[c] \in Thread /\ t # NoOne /\ sched_lock = NoOne
        /\ idle_next' = CursorsPast(t) /\ life' = [life EXCEPT ![t] = "removed"]
        /\ UNCHANGED <<cur, pc, scan, status>>
    BY <1>13, Zenon DEF Finish, Running, cpuVars, scanVars
  <2>2. t \in Thread /\ t # Bsp /\ life[t] = "listed"
    BY <2>1, <1>t DEF IInv, FinInv
  <2>3. NextOf(t) \in Thread /\ life[NextOf(t)] = "listed" /\ NextOf(t) # t
    BY <2>2, NextListed, NextOther
  <2>4. scan = NoOne /\ scan' \notin Thread
    BY <2>1, Distinct DEF IInv, SchedLockInv, InSchedule
  <2>5. /\ life'[t] = "removed"
        /\ \A u \in Thread : u # t => life'[u] = life[u]
    BY <2>1, <2>2, <1>u
  <2>6. \A d \in CPU : life'[idle_next'[d]] = "listed"
    <3>1. \A d \in CPU : idle_next'[d] = IF idle_next[d] = t THEN NextOf(t)
                                                           ELSE idle_next[d]
      BY <2>1 DEF CursorsPast
    <3> HIDE DEF t
    <3> QED
      BY <3>1, <2>3, <2>5, <1>i, <1>t DEF CursorInv
  <2> HIDE DEF t
  <2>7. \A d \in CPU : Executing(d)' <=> Executing(d)
    BY <2>1 DEF Executing
  <2>8. \A d \in CPU : Executing(d) => life'[cur[d]] \in {"listed", "removed"}
    BY <2>5, <1>i DEF CursorInv, Executing
  <2>9. \A u \in Thread : status[u] # "FRESH" => life'[u] # "new"
    BY <2>5, <1>i DEF CursorInv
  <2> QED
    BY <2>1, <2>4, <2>6, <2>7, <2>8, <2>9, SMTT(30) DEF CursorInv
<1>14. ASSUME NEW t \in Thread, Wake(c, t) \/ Start(c, t) PROVE CursorInv'
  <2>1. /\ UNCHANGED <<cur, pc, life, scan, idle_next>>
        /\ status[t] # "FRESH" \/ life[t] = "listed"
        /\ status' = [status EXCEPT ![t] = "RUNNABLE"]
    BY <1>14 DEF Wake, Start, cpuVars, scanVars, listVars
  <2>2. life[t] # "new"
    BY <2>1, <1>i DEF CursorInv
  <2> QED
    BY <2>1, <2>2, <1>w, Zenon
<1>15. ASSUME NEW t \in Thread, Delete(c, t) PROVE CursorInv'
  <2>1. /\ life[t] = "removed" /\ lock[t] = NoOne
        /\ life' = [life EXCEPT ![t] = "gone"]
        /\ UNCHANGED <<cur, pc, scan, idle_next, status>>
    BY <1>15 DEF Delete, LockFree, cpuVars, scanVars
  <2>2. \A d \in CPU : Executing(d) => cur[d] # t
    BY <2>1, Distinct DEF IInv, LockInv, RunningHoldsLock
  <2>3. /\ life'[t] = "gone"
        /\ \A u \in Thread : u # t => life'[u] = life[u]
    BY <2>1, <1>u
  <2>4. \A d \in CPU : Executing(d)' <=> Executing(d)
    BY <2>1 DEF Executing
  <2>5. \A d \in CPU : Executing(d) => life'[cur[d]] \in {"listed", "removed"}
    BY <2>2, <2>3, <1>i DEF CursorInv, Executing
  <2>6. \A d \in CPU : life'[idle_next[d]] = "listed"
    BY <2>1, <2>3, <1>i, <1>t DEF CursorInv
  <2>7. /\ \A u \in Thread : status[u] # "FRESH" => life'[u] # "new"
        /\ scan \in Thread => life'[scan] = "listed"
    BY <2>1, <2>3, <1>i DEF CursorInv
  <2> QED
    BY <2>1, <2>4, <2>5, <2>6, <2>7 DEF CursorInv
<1>16. ASSUME NEW t \in Thread, Create(c, t) PROVE CursorInv'
  <2>1. /\ life[t] = "new" /\ life' = [life EXCEPT ![t] = "listed"]
        /\ UNCHANGED <<cur, pc, scan, idle_next, status>>
    BY <1>16 DEF Create, cpuVars, scanVars
  <2>2. \A u \in Thread : life'[u] = life[u] \/ life'[u] = "listed"
    BY <2>1, <1>u
  <2>3. \A d \in CPU : Executing(d)' <=> Executing(d)
    BY <2>1 DEF Executing
  <2>4. \A d \in CPU : Executing(d) => life'[cur[d]] \in {"listed", "removed"}
    BY <2>2, <1>i DEF CursorInv, Executing
  <2>5. \A d \in CPU : life'[idle_next[d]] = "listed"
    BY <2>2, <1>i, <1>t DEF CursorInv
  <2>6. /\ \A u \in Thread : status[u] # "FRESH" => life'[u] # "new"
        /\ scan \in Thread => life'[scan] = "listed"
    BY <2>2, <1>i DEF CursorInv
  <2> QED
    BY <2>1, <2>3, <2>4, <2>5, <2>6 DEF CursorInv
<1> QED
  BY <1>1, <1>2, <1>3, <1>4, <1>5, <1>6, <1>7, <1>8, <1>9, <1>10, <1>11, <1>12,
     <1>13, <1>14, <1>15, <1>16, Zenon
  DEF CpuStep, Schedule, ThreadStep, AddCritical, Interrupt, LockThread, vars,
      scanVars, cpuVars, listVars, wakeVars, opVars

=============================================================================
