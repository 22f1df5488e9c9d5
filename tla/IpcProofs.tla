----------------------------- MODULE IpcProofs -----------------------------
(* Proofs of the properties of Event, MessageQueue and Signals, for any    *)
(* set of threads, interrupts, requests and signals.                       *)
EXTENDS Event, MessageQueue, Signals, TLAPS

-----------------------------------------------------------------------------
(* Event: the lock of an event, its waiters and the interrupts that raise it. *)
Holds(t) == ThreadHolds(t) \/ IrqHolds(t)

(* Handlers run only on top of the threads of Irq.                         *)
EvIrqInv == \A t \in EvThread : ipc[t] # "none" => t \in Irq

EvIInv ==
    /\ EvTypeOK
    /\ LockExclusive
    /\ EvIrqInv
    /\ BlockedIsQueued
    /\ DefunctBlocksNobody

(* What a step of t does to the lock.                                      *)
LockTaken(t) ==
    /\ ~m_lock /\ m_lock'
    /\ \A u \in EvThread : u # t => (Holds(u)' <=> Holds(u))
    /\ ThreadHolds(t)' <=> ~IrqHolds(t)'

LockReleased(t) ==
    /\ ~m_lock' /\ Holds(t) /\ ~Holds(t)'
    /\ \A u \in EvThread : u # t => (Holds(u)' <=> Holds(u))

LockKept ==
    /\ m_lock' = m_lock
    /\ \A u \in EvThread : /\ ThreadHolds(u)' <=> ThreadHolds(u)
                           /\ IrqHolds(u)' <=> IrqHolds(u)

----------------------------------------------------------------------------
(* Every step keeps the types.                                             *)
LEMMA TypeStep ==
    ASSUME EvTypeOK, NEW t \in EvThread, ThreadNext(t)
    PROVE  EvTypeOK'
<1> USE DEF EvTypeOK, Statuses, Calls, evVars, irqVars
<1>1. ASSUME NEW op \in Calls, Call(t, op) PROVE EvTypeOK'
  BY <1>1 DEF Call
<1>2. CASE Acquire(t)
  BY <1>2 DEF Acquire
<1>3. CASE WaitDefunct(t)
  BY <1>3, Zenon DEF WaitDefunct
<1>4. ASSUME NEW st \in {"BLOCKED", "SLEEPING"}, Enqueue(t, st) PROVE EvTypeOK'
  BY <1>4 DEF Enqueue, Push
<1>5. CASE Raise(t)
  BY <1>5 DEF Raise, WakeAll
<1>6. CASE Defunct(t)
  BY <1>6 DEF Defunct, WakeAll
<1>7. CASE Release(t)
  BY <1>7, Zenon DEF Release
<1>8. CASE LeaveCPU(t) \/ Resume(t)
  BY <1>8 DEF LeaveCPU, Resume
<1>9. CASE WakeSleeper(t) \/ EvExit(t)
  BY <1>9 DEF WakeSleeper, EvExit
<1>10. CASE Interrupt(t) \/ EvHandleSignal(t)
  BY <1>10, Zenon DEF Interrupt, EvHandleSignal
<1>11. CASE IrqEnter(t) \/ IrqLeave(t)
  BY <1>11 DEF IrqEnter, IrqLeave
<1>12. CASE IrqAcquire(t) \/ IrqRelease(t)
  BY <1>12, Zenon DEF IrqAcquire, IrqRelease
<1>13. CASE IrqRaise(t)
  BY <1>13 DEF IrqRaise, WakeAll
<1> HIDE DEF EvTypeOK, Statuses, Calls, evVars, irqVars
<1> QED
  BY <1>1, <1>2, <1>3, <1>4, <1>5, <1>6, <1>7, <1>8, <1>9, <1>10, <1>11, <1>12,
     <1>13 DEF ThreadNext, Progress

(* A step takes the free lock, releases the held one, or leaves the holder *)
(* and the flag alone.                                                     *)
LEMMA LockEffect ==
    ASSUME EvTypeOK, LockExclusive, NEW t \in EvThread, ThreadNext(t)
    PROVE  LockTaken(t) \/ LockReleased(t) \/ LockKept
<1> DEFINE Goal == LockTaken(t) \/ LockReleased(t) \/ LockKept
<1>0. /\ IrqAcquire(t) => ~ThreadHolds(t)
      /\ IrqRelease(t) => ~ThreadHolds(t)
  BY DEF IrqAcquire, IrqRelease, Swapped, LockExclusive, IrqHolds
<1> USE DEF LockTaken, LockReleased, LockKept, EvTypeOK, Holds, ThreadHolds, IrqHolds,
            LockedPcs, Calls, Executes, evVars, irqVars
<1>1. ASSUME NEW op \in Calls, Call(t, op) PROVE Goal
  BY <1>1 DEF Call
<1>2. CASE Acquire(t)
  BY <1>2, Zenon DEF Acquire, Swapped
<1>3. CASE WaitDefunct(t)
  BY <1>3 DEF WaitDefunct
<1>4. ASSUME NEW st \in {"BLOCKED", "SLEEPING"}, Enqueue(t, st) PROVE Goal
  BY <1>4 DEF Enqueue
<1>5. CASE Raise(t)
  BY <1>5 DEF Raise
<1>6. CASE Defunct(t)
  BY <1>6 DEF Defunct
<1>7. CASE Release(t)
  BY <1>7 DEF Release
<1>8. CASE LeaveCPU(t)
  BY <1>8 DEF LeaveCPU
<1>9. CASE Resume(t)
  BY <1>9 DEF Resume
<1>10. CASE WakeSleeper(t) \/ Interrupt(t) \/ EvHandleSignal(t)
  BY <1>10 DEF WakeSleeper, Interrupt, EvHandleSignal
<1>11. CASE EvExit(t)
  BY <1>11 DEF EvExit
<1>12. CASE IrqEnter(t)
  BY <1>12 DEF IrqEnter
<1>13. CASE IrqLeave(t)
  BY <1>13 DEF IrqLeave
<1>14. CASE IrqAcquire(t)
  BY <1>0, <1>14, Zenon DEF IrqAcquire, Swapped
<1>15. CASE IrqRelease(t)
  BY <1>0, <1>15 DEF IrqRelease
<1>16. CASE IrqRaise(t)
  BY <1>16 DEF IrqRaise
<1> HIDE DEF LockTaken, LockReleased, LockKept, EvTypeOK, Holds, ThreadHolds, IrqHolds,
             LockedPcs, Calls, Executes, evVars, irqVars
<1> QED
  BY <1>1, <1>2, <1>3, <1>4, <1>5, <1>6, <1>7, <1>8, <1>9, <1>10, <1>11, <1>12,
     <1>13, <1>14, <1>15, <1>16 DEF ThreadNext, Progress

(* The lock keeps its one holder.                                          *)
LEMMA LockStep ==
    ASSUME EvTypeOK, LockExclusive, NEW t \in EvThread, ThreadNext(t)
    PROVE  LockExclusive'
<1> USE DEF Holds, LockTaken, LockReleased, LockKept
<1>0. /\ m_lock \in BOOLEAN /\ m_lock' \in BOOLEAN
      /\ m_lock <=> \E u \in EvThread : Holds(u)
      /\ \A u \in EvThread : ~(ThreadHolds(u) /\ IrqHolds(u))
      /\ \A u, v \in EvThread : Holds(u) /\ Holds(v) => u = v
  BY TypeStep DEF EvTypeOK, LockExclusive
<1>1. CASE LockTaken(t)
  <2>1. \A u \in EvThread : ~Holds(u)
    BY <1>0, <1>1
  <2>2. Holds(t)' /\ \A u \in EvThread : u # t => ~Holds(u)'
    BY <1>1, <2>1
  <2> QED
    BY <1>1, <2>2 DEF LockExclusive
<1>2. CASE LockReleased(t)
  <2>1. \A u \in EvThread : ~Holds(u)'
    BY <1>0, <1>2
  <2> QED
    BY <1>2, <2>1 DEF LockExclusive
<1>3. CASE LockKept
  BY <1>0, <1>3 DEF LockExclusive
<1> QED
  BY <1>1, <1>2, <1>3, LockEffect

(* Every step keeps the TS_BLOCKED threads outside Irq on the queue, and   *)
(* nobody blocked on a defunct event.                                      *)
LEMMA QueueStep ==
    ASSUME EvTypeOK, EvIrqInv, BlockedIsQueued, DefunctBlocksNobody,
           NEW t \in EvThread, ThreadNext(t)
    PROVE  EvIrqInv' /\ BlockedIsQueued' /\ DefunctBlocksNobody'
<1> DEFINE Goal == EvIrqInv' /\ BlockedIsQueued' /\ DefunctBlocksNobody'
<1> SUFFICES Goal
  OBVIOUS
<1> USE EventAssumption
    DEF EvTypeOK, Statuses, EvIrqInv, BlockedIsQueued, DefunctBlocksNobody, evVars, irqVars
<1>1. ASSUME NEW op \in Calls, Call(t, op) PROVE Goal
  BY <1>1 DEF Call
<1>2. CASE Acquire(t) \/ WaitDefunct(t) \/ Release(t) \/ LeaveCPU(t) \/ Resume(t)
  BY <1>2 DEF Acquire, WaitDefunct, Release, LeaveCPU, Resume
<1>3. ASSUME NEW st \in {"BLOCKED", "SLEEPING"}, Enqueue(t, st) PROVE Goal
  BY <1>3 DEF Enqueue, Push, Refuses
<1>4. CASE Raise(t)
  BY <1>4 DEF Raise, WakeAll
<1>5. CASE Defunct(t)
  BY <1>5 DEF Defunct, WakeAll
<1>6. CASE WakeSleeper(t) \/ EvExit(t)
  BY <1>6 DEF WakeSleeper, EvExit
<1>7. CASE Interrupt(t) \/ EvHandleSignal(t)
  BY <1>7 DEF Interrupt, EvHandleSignal
<1>8. CASE IrqEnter(t)
  BY <1>8 DEF IrqEnter
<1>9. CASE IrqAcquire(t) \/ IrqRelease(t)
  BY <1>9 DEF IrqAcquire, IrqRelease
<1>10. CASE IrqRaise(t)
  BY <1>10 DEF IrqRaise, WakeAll
<1>11. CASE IrqLeave(t)
  BY <1>11 DEF IrqLeave
<1> HIDE DEF EvIrqInv, BlockedIsQueued, DefunctBlocksNobody
<1> QED
  BY <1>1, <1>2, <1>3, <1>4, <1>5, <1>6, <1>7, <1>8, <1>9, <1>10, <1>11
  DEF ThreadNext, Progress

----------------------------------------------------------------------------
(* The invariant holds in every state of every behaviour of the event.     *)
THEOREM Inductive == EvSpec => []EvIInv
<1>1. EvInit => EvIInv
  <2> SUFFICES ASSUME EvInit PROVE EvIInv
    OBVIOUS
  <2>1. EvTypeOK
    BY EventAssumption, Zenon DEF EvInit, EvTypeOK, Statuses
  <2>2. LockExclusive
    BY DEF EvInit, LockExclusive, ThreadHolds, IrqHolds, LockedPcs
  <2>3. EvIrqInv /\ BlockedIsQueued /\ DefunctBlocksNobody
    BY EventAssumption DEF EvInit, EvIrqInv, BlockedIsQueued, DefunctBlocksNobody
  <2> QED
    BY <2>1, <2>2, <2>3 DEF EvIInv
<1>2. EvIInv /\ [EvNext]_eventVars => EvIInv'
  <2> SUFFICES ASSUME EvIInv, [EvNext]_eventVars PROVE EvIInv'
    OBVIOUS
  <2>1. ASSUME NEW t \in EvThread, ThreadNext(t) PROVE EvIInv'
    BY <2>1, TypeStep, LockStep, QueueStep DEF EvIInv
  <2>2. CASE UNCHANGED eventVars
    BY <2>2 DEF eventVars, evVars, irqVars, EvIInv, EvTypeOK, LockExclusive, ThreadHolds, IrqHolds,
                EvIrqInv, BlockedIsQueued, DefunctBlocksNobody
  <2> QED
    BY <2>1, <2>2 DEF EvNext
<1> QED
  BY <1>1, <1>2, PTL DEF EvSpec

(* The event, the threads and the interrupt frames keep their types.       *)
THEOREM EvTypeCorrect == EvSpec => []EvTypeOK
<1>1. EvIInv => EvTypeOK
  BY DEF EvIInv
<1> QED
  BY <1>1, Inductive, PTL

(* wait(), raise() and defunct(), called by threads or by handlers,        *)
(* exclude each other.                                                     *)
THEOREM LockCorrect == EvSpec => []LockExclusive
<1>1. EvIInv => LockExclusive
  BY DEF EvIInv
<1> QED
  BY <1>1, Inductive, PTL

(* A thread that Event::wait() blocked, and that no device interrupt hits, *)
(* is found by the next raise(), whatever the other threads, their         *)
(* handlers, time-outs, signals and exits do.                              *)
THEOREM NoLostWakeup == EvSpec => []BlockedIsQueued
<1>1. EvIInv => BlockedIsQueued
  BY DEF EvIInv
<1> QED
  BY <1>1, Inductive, PTL

(* After defunct() no thread outside Irq is blocked on the event.          *)
THEOREM DefunctIsFinal == EvSpec => []DefunctBlocksNobody
<1>1. EvIInv => DefunctBlocksNobody
  BY DEF EvIInv
<1> QED
  BY <1>1, Inductive, PTL

-----------------------------------------------------------------------------
(* MessageQueue: the broker's requests.                                     *)
MqReq == MqWriters \X (1 .. MqRequests)
MqBytes == {"header", "data"} \X MqReq
Payload(r) == [j \in 1 .. MqLen |-> <<"data", r>>]

MqType ==
    /\ mqFree \in Int /\ mqBuffer \in Seq(MqBytes)
    /\ mqTodo \in [MqWriters -> 0 .. MqRequests]
    /\ mqRun \in Seq([1 .. MqLen -> MqBytes])

(* A[i] is where the i-th of the k messages in the len bytes of the buffer  *)
(* begins, and f numbers them after the n that were taken.                  *)
Framed(T, buf, len, n, k, A, f) ==
    /\ A[0] = 0 /\ A[k] = len
    /\ \A i \in 0 .. k - 1 : A[i + 1] = A[i] + T /\ A[i + 1] >= T /\ A[i + 1] <= len
    /\ \A i \in 0 .. k - 1, j \in 1 .. T : buf[A[i] + j] = Message(f[n + i + 1])[j]

Asked(n, f, todo) ==
    /\ \A i, j \in 1 .. n : i < j /\ f[i][1] = f[j][1] => f[i][2] > f[j][2]
    /\ \A i \in 1 .. n : f[i][2] > todo[f[i][1]]

MqInv ==
    /\ mqFree = MqMaxWaiting - Len(mqBuffer)
    /\ SleepersHaveReason
    /\ \E f \in [Nat -> MqReq], k \in Nat, A \in [Nat -> Nat] :
         /\ \A i \in 1 .. Len(mqRun) : mqRun[i] = Payload(f[i])
         /\ Framed(TotalLen, mqBuffer, Len(mqBuffer), Len(mqRun), k, A, f)
         /\ Asked(Len(mqRun) + k, f, mqTodo)

-----------------------------------------------------------------------------
(* A message is its header and at least one byte of payload.              *)
LEMMA MqFacts ==
  /\ TotalLen \in Nat /\ TotalLen > 2 /\ TotalLen = MqLen + 2 /\ MqHeader = 2
  /\ MqLen \in Nat /\ MqLen > 0 /\ MqMaxWaiting \in Nat /\ MqRequests \in Nat
  /\ MqBroker \notin MqWriters
BY MqAssumption DEF TotalLen, MqHeader

(* The bytes writeArray() puts together for a request, one by one.        *)
LEMMA MessageSeq ==
  ASSUME NEW r \in MqReq
  PROVE  /\ Message(r) \in Seq(MqBytes) /\ Len(Message(r)) = TotalLen
         /\ \A i \in 1 .. TotalLen : Message(r)[i] = <<IF i <= 2 THEN "header" ELSE "data", r>>
<1>1. \A i \in 1 .. TotalLen : <<IF i <= MqHeader THEN "header" ELSE "data", r>> \in MqBytes
  BY DEF MqBytes
<1>2. Message(r) \in [1 .. TotalLen -> MqBytes]
  BY <1>1 DEF Message
<1> QED BY <1>2, MqFacts DEF Message

(* b is what p and q hold, position by position.                           *)
Follows(b, p, q) ==
    /\ Len(b) = Len(p) + Len(q) /\ Len(p) \in Nat
    /\ \A i \in 1 .. Len(p) : b[i] = p[i]
    /\ \A i \in 1 .. Len(q) : b[Len(p) + i] = q[i]

(* A concatenation holds what its two parts hold.                          *)
LEMMA ConcatFacts ==
  ASSUME NEW S, NEW p \in Seq(S), NEW q \in Seq(S)
  PROVE  p \o q \in Seq(S) /\ Follows(p \o q, p, q)
BY DEF Follows

(* A sequence is a function on its positions.                             *)
LEMMA SeqIsFunction ==
  ASSUME NEW S, NEW q \in Seq(S)
  PROVE  q \in [1 .. Len(q) -> S]
OBVIOUS

(* What a part of a sequence holds, position by position.                 *)
LEMMA SubFacts ==
  ASSUME NEW S, NEW q \in Seq(S), NEW a \in Nat, NEW b \in Nat, a <= b, b <= Len(q)
  PROVE  /\ SubSeq(q, a + 1, b) \in Seq(S) /\ Len(SubSeq(q, a + 1, b)) = b - a
         /\ \A i \in 1 .. b - a : SubSeq(q, a + 1, b)[i] = q[a + i]
         /\ SubSeq(q, a + 1, b) \in [1 .. b - a -> S]
<1>1. Len(q) \in Nat
  OBVIOUS
<1>2. /\ SubSeq(q, a + 1, b) \in Seq(S) /\ Len(SubSeq(q, a + 1, b)) = b - a
  BY <1>1
<1>3. \A i \in 1 .. b - a : SubSeq(q, a + 1, b)[i] = q[a + i]
  BY <1>1
<1>4. SubSeq(q, a + 1, b) \in [1 .. Len(SubSeq(q, a + 1, b)) -> S]
  BY <1>2, SeqIsFunction, Zenon
<1> QED BY <1>2, <1>3, <1>4, Zenon

(* What is put into the buffer follows what was there.                      *)
LEMMA FrameAppend ==
  ASSUME NEW buf, NEW c, NEW L \in Nat, NEW n \in Nat, NEW k \in Nat, NEW A \in [Nat -> Nat],
         NEW f \in [Nat -> MqReq], NEW r \in MqReq, NEW T \in Nat, Framed(T, buf, L, n, k, A, f),
         \A i \in 1 .. L : c[i] = buf[i], \A j \in 1 .. T : c[L + j] = Message(r)[j]
  PROVE  Framed(T, c, L + T, n, k + 1, [A EXCEPT ![k + 1] = A[k] + T], [f EXCEPT ![n + k + 1] = r])
<1> DEFINE B == [A EXCEPT ![k + 1] = A[k] + T]   g == [f EXCEPT ![n + k + 1] = r]
<1>3. /\ \A i \in 0 .. k : B[i] = A[i]
      /\ B[k + 1] = A[k] + T /\ A[k] = L
      /\ \A i \in 0 .. k - 1 : g[n + i + 1] = f[n + i + 1]
      /\ g[n + k + 1] = r
  BY DEF Framed
<1>4. /\ A[0] = 0
      /\ \A i \in 0 .. k - 1 : A[i] \in Nat /\ A[i + 1] = A[i] + T /\ A[i + 1] >= T /\ A[i + 1] <= L
      /\ \A i \in 0 .. k - 1, j \in 1 .. T : buf[A[i] + j] = Message(f[n + i + 1])[j]
  BY DEF Framed
<1> HIDE DEF B, g
<1>5. B[0] = 0 /\ B[k + 1] = L + T
  BY <1>3, <1>4
<1>6. \A i \in 0 .. k : B[i + 1] = B[i] + T /\ B[i + 1] >= T /\ B[i + 1] <= L + T
  <2> SUFFICES ASSUME NEW i \in 0 .. k PROVE B[i + 1] = B[i] + T /\ B[i + 1] >= T /\ B[i + 1] <= L + T
    OBVIOUS
  <2>1. CASE i = k
    BY <2>1, <1>3
  <2>2. CASE i # k
    <3>1. i \in 0 .. k - 1 /\ i + 1 \in 0 .. k
      BY <2>2
    <3>2. B[i] = A[i] /\ B[i + 1] = A[i + 1]
      BY <3>1, <1>3
    <3> QED BY <3>1, <3>2, <1>4
  <2> QED BY <2>1, <2>2
<1>7. \A i \in 0 .. k, j \in 1 .. T : c[B[i] + j] = Message(g[n + i + 1])[j]
  <2> SUFFICES ASSUME NEW i \in 0 .. k, NEW j \in 1 .. T PROVE c[B[i] + j] = Message(g[n + i + 1])[j]
    OBVIOUS
  <2>1. CASE i = k
    BY <2>1, <1>3
  <2>2. CASE i # k
    <3>1. i \in 0 .. k - 1 /\ B[i] = A[i] /\ A[i] \in Nat /\ g[n + i + 1] = f[n + i + 1]
      BY <2>2, <1>3, <1>4
    <3>2. A[i] + j \in 1 .. L
      BY <3>1, <1>4
    <3> QED BY <3>1, <3>2, <1>4
  <2> QED BY <2>1, <2>2
<1>8. 0 .. (k + 1) - 1 = 0 .. k
  OBVIOUS
<1> QED BY <1>5, <1>6, <1>7, <1>8 DEF Framed, B, g

(* What is taken is the first message, and the others move up.              *)
LEMMA FrameTake ==
  ASSUME NEW buf, NEW c, NEW L \in Nat, NEW n \in Nat, NEW k \in Nat, NEW A \in [Nat -> Nat],
         NEW f \in [Nat -> MqReq], NEW T \in Nat, T > 0, L >= T, Framed(T, buf, L, n, k, A, f),
         \A i \in 1 .. L - T : c[i] = buf[T + i]
  PROVE  /\ k > 0
         /\ \A j \in 1 .. T : buf[j] = Message(f[n + 1])[j]
         /\ \E B \in [Nat -> Nat] : Framed(T, c, L - T, n + 1, k - 1, B, f)
<1> DEFINE B == [i \in Nat |-> IF A[i + 1] >= T THEN A[i + 1] - T ELSE 0]
<1>2. /\ A[0] = 0 /\ A[k] = L
      /\ \A i \in 0 .. k - 1 : A[i] \in Nat /\ A[i + 1] = A[i] + T /\ A[i + 1] >= T /\ A[i + 1] <= L
      /\ \A i \in 0 .. k - 1, j \in 1 .. T : buf[A[i] + j] = Message(f[n + i + 1])[j]
  BY DEF Framed
<1>3. k > 0
  BY <1>2
<1>4. \A j \in 1 .. T : buf[j] = Message(f[n + 1])[j]
  <2> SUFFICES ASSUME NEW j \in 1 .. T PROVE buf[j] = Message(f[n + 1])[j]
    OBVIOUS
  <2>1. 0 \in 0 .. k - 1 /\ A[0] + j = j /\ n + 0 + 1 = n + 1
    BY <1>2, <1>3
  <2> QED BY <2>1, <1>2
<1>7. B \in [Nat -> Nat] /\ \A i \in 0 .. k - 1 : B[i] = A[i + 1] - T /\ B[i] = A[i]
  <2>1. \A i \in Nat : (IF A[i + 1] >= T THEN A[i + 1] - T ELSE 0) \in Nat
    OBVIOUS
  <2>2. B \in [Nat -> Nat]
    BY <2>1
  <2>3. \A i \in 0 .. k - 1 : B[i] = A[i + 1] - T /\ B[i] = A[i]
    <3> SUFFICES ASSUME NEW i \in 0 .. k - 1 PROVE B[i] = A[i + 1] - T /\ B[i] = A[i]
      OBVIOUS
    <3>1. A[i] \in Nat /\ A[i + 1] = A[i] + T /\ A[i + 1] >= T
      BY <1>2
    <3>2. i \in Nat /\ B[i] = IF A[i + 1] >= T THEN A[i + 1] - T ELSE 0
      OBVIOUS
    <3> HIDE DEF B
    <3> QED BY <3>1, <3>2
  <2> QED BY <2>2, <2>3
<1> HIDE DEF B
<1>8. B[0] = 0 /\ B[k - 1] = L - T
  <2>1. 0 \in 0 .. k - 1 /\ k - 1 \in 0 .. k - 1 /\ (k - 1) + 1 = k
    BY <1>3
  <2> QED BY <2>1, <1>2, <1>7
<1>9. \A i \in 0 .. (k - 1) - 1 : B[i + 1] = B[i] + T /\ B[i + 1] >= T /\ B[i + 1] <= L - T
  <2> SUFFICES ASSUME NEW i \in 0 .. (k - 1) - 1 PROVE B[i + 1] = B[i] + T /\ B[i + 1] >= T /\ B[i + 1] <= L - T
    OBVIOUS
  <2>1. i \in 0 .. k - 1 /\ i + 1 \in 0 .. k - 1
    BY <1>3
  <2>2. A[(i + 1) + 1] = A[i + 1] + T /\ A[(i + 1) + 1] <= L /\ A[i + 1] = A[i] + T /\ A[i + 1] >= T /\ A[i + 1] \in Nat
    BY <2>1, <1>2
  <2>3. B[i] = A[i + 1] - T /\ B[i + 1] = A[(i + 1) + 1] - T
    BY <2>1, <1>7
  <2> QED BY <2>2, <2>3
<1>10. \A i \in 0 .. (k - 1) - 1, j \in 1 .. T : c[B[i] + j] = Message(f[(n + 1) + i + 1])[j]
  <2> SUFFICES ASSUME NEW i \in 0 .. (k - 1) - 1, NEW j \in 1 .. T PROVE c[B[i] + j] = Message(f[(n + 1) + i + 1])[j]
    OBVIOUS
  <2>1. i + 1 \in 0 .. k - 1 /\ i \in 0 .. k - 1 /\ (n + 1) + i + 1 = n + (i + 1) + 1
    BY <1>3
  <2>2. buf[A[i + 1] + j] = Message(f[n + (i + 1) + 1])[j]
    BY <2>1, <1>2
  <2>3. /\ B[i] = A[i + 1] - T /\ A[i + 1] >= T /\ A[(i + 1) + 1] = A[i + 1] + T /\ A[(i + 1) + 1] <= L
        /\ A[i + 1] \in Nat
    BY <2>1, <1>2, <1>7, Zenon
  <2>4. B[i] + j \in 1 .. L - T /\ T + (B[i] + j) = A[i + 1] + j
    BY <2>3
  <2> QED BY <2>1, <2>2, <2>4
<1>11. Framed(T, c, L - T, n + 1, k - 1, B, f)
  BY <1>8, <1>9, <1>10 DEF Framed
<1> QED BY <1>3, <1>4, <1>7, <1>11

-----------------------------------------------------------------------------
(* A request that is asked for now has a smaller number than the others of  *)
(* its writer.                                                              *)
LEMMA AskedMore ==
  ASSUME NEW n \in Nat, NEW f \in [Nat -> MqReq], NEW todo \in [MqWriters -> 0 .. MqRequests],
         NEW w \in MqWriters, todo[w] > 0, Asked(n, f, todo)
  PROVE  Asked(n + 1, [f EXCEPT ![n + 1] = <<w, todo[w]>>], [todo EXCEPT ![w] = @ - 1])
<1> DEFINE r == <<w, todo[w]>>   g == [f EXCEPT ![n + 1] = r]   left == [todo EXCEPT ![w] = @ - 1]
<1>1. /\ g[n + 1] = r /\ \A i \in 1 .. n : g[i] = f[i]
      /\ r[1] = w /\ r[2] = todo[w] /\ todo[w] \in Nat
      /\ left[w] = todo[w] - 1 /\ \A v \in MqWriters \ {w} : left[v] = todo[v]
  BY MqFacts
<1>2. \A i \in 1 .. n : f[i] \in MqReq /\ f[i][1] \in MqWriters /\ f[i][2] \in Nat /\ todo[f[i][1]] \in Nat
  BY MqFacts DEF MqReq
<1>3. /\ \A i, j \in 1 .. n : i < j /\ f[i][1] = f[j][1] => f[i][2] > f[j][2]
      /\ \A i \in 1 .. n : f[i][2] > todo[f[i][1]]
  BY DEF Asked
<1> HIDE DEF r, g, left
<1>4. \A i \in 1 .. n : g[i][2] > left[g[i][1]] /\ (g[i][1] = w => g[i][2] > todo[w])
  BY <1>1, <1>2, <1>3
<1>5. g[n + 1][2] > left[g[n + 1][1]]
  BY <1>1
<1>6. \A i, j \in 1 .. n + 1 : i < j /\ g[i][1] = g[j][1] => g[i][2] > g[j][2]
  <2> SUFFICES ASSUME NEW i \in 1 .. n + 1, NEW j \in 1 .. n + 1, i < j, g[i][1] = g[j][1] PROVE g[i][2] > g[j][2]
    OBVIOUS
  <2>1. i \in 1 .. n
    OBVIOUS
  <2>2. CASE j = n + 1
    BY <2>1, <2>2, <1>1, <1>4
  <2>3. CASE j # n + 1
    <3>1. j \in 1 .. n
      BY <2>3
    <3> QED BY <2>1, <3>1, <1>1, <1>3
  <2> QED BY <2>2, <2>3
<1>7. \A i \in 1 .. n + 1 : g[i][2] > left[g[i][1]]
  <2> SUFFICES ASSUME NEW i \in 1 .. n + 1 PROVE g[i][2] > left[g[i][1]]
    OBVIOUS
  <2>1. i = n + 1 \/ i \in 1 .. n
    OBVIOUS
  <2> QED BY <2>1, <1>4, <1>5
<1> QED BY <1>6, <1>7 DEF Asked, r, g, left

(* MessageQueue::writeArray() keeps the frames whole, whether there is    *)
(* room for the message or the writer waits for it.                       *)
LEMMA MqWrite ==
  ASSUME MqType, MqInv, NEW w \in MqWriters, WriteMessage(w)
  PROVE  MqType' /\ MqInv'
<1> DEFINE r == <<w, mqTodo[w]>>
<1>1. CASE /\ mqFree < TotalLen /\ mqWaiting' = mqWaiting \union {w}
           /\ UNCHANGED <<mqFree, mqBuffer, mqTodo, mqRun>>
  <2>1. SleepersHaveReason'
    BY <1>1, MqFacts DEF MqInv, SleepersHaveReason
  <2> QED BY <1>1, <2>1, Zenon DEF MqType, MqInv
<1>2. CASE /\ mqFree >= TotalLen /\ mqFree' = mqFree - TotalLen /\ mqBuffer' = mqBuffer \o Message(r)
           /\ mqWaiting' = Raised(mqWaiting) /\ mqTodo' = [mqTodo EXCEPT ![w] = @ - 1] /\ mqRun' = mqRun
  <2>1. mqTodo[w] > 0 /\ mqTodo[w] \in 1 .. MqRequests
    BY MqFacts DEF WriteMessage, MqType
  <2>2. r \in MqReq
    BY <2>1 DEF MqReq
  <2> HIDE DEF r
  <2>3. Message(r) \in Seq(MqBytes) /\ Len(Message(r)) = TotalLen
    BY <2>2, MessageSeq
  <2>4. /\ mqBuffer' \in Seq(MqBytes) /\ Len(mqBuffer') = Len(mqBuffer) + TotalLen /\ Len(mqBuffer) \in Nat
        /\ \A i \in 1 .. Len(mqBuffer) : mqBuffer'[i] = mqBuffer[i]
        /\ \A i \in 1 .. TotalLen : mqBuffer'[Len(mqBuffer) + i] = Message(r)[i]
    <3>1. mqBuffer \in Seq(MqBytes)
      BY DEF MqType
    <3>2. mqBuffer \o Message(r) \in Seq(MqBytes) /\ Follows(mqBuffer \o Message(r), mqBuffer, Message(r))
      BY <2>3, <3>1, ConcatFacts, Zenon
    <3>3. mqBuffer' \in Seq(MqBytes) /\ Follows(mqBuffer', mqBuffer, Message(r))
      BY <1>2, <3>2, Zenon
    <3> QED BY <2>3, <3>3, Zenon DEF Follows
  <2>5. mqTodo' \in [MqWriters -> 0 .. MqRequests]
    <3>1. mqTodo[w] - 1 \in 0 .. MqRequests
      BY <2>1, MqFacts
    <3> QED BY <1>2, <3>1 DEF MqType
  <2>6. mqFree' \in Int /\ mqFree' = MqMaxWaiting - Len(mqBuffer')
    <3>1. mqFree \in Int /\ mqFree = MqMaxWaiting - Len(mqBuffer)
      BY DEF MqType, MqInv
    <3> DEFINE a == Len(mqBuffer)   b == Len(mqBuffer')
    <3>2. a \in Nat /\ b = a + TotalLen /\ mqFree = MqMaxWaiting - a /\ mqFree' = mqFree - TotalLen
      BY <1>2, <2>4, <3>1
    <3> HIDE DEF a, b
    <3>3. mqFree' \in Int /\ mqFree' = MqMaxWaiting - b
      BY <3>1, <3>2, MqFacts
    <3> QED BY <3>3 DEF b
  <2>7. MqType'
    BY <1>2, <2>4, <2>5, <2>6 DEF MqType
  <2>8. SleepersHaveReason'
    BY <1>2 DEF SleepersHaveReason, Raised
  <2>9. PICK f \in [Nat -> MqReq], k \in Nat, A \in [Nat -> Nat] :
         /\ \A i \in 1 .. Len(mqRun) : mqRun[i] = Payload(f[i])
         /\ Framed(TotalLen, mqBuffer, Len(mqBuffer), Len(mqRun), k, A, f)
         /\ Asked(Len(mqRun) + k, f, mqTodo)
    BY Zenon DEF MqInv
  <2>10. Len(mqRun) \in Nat /\ TotalLen \in Nat
    BY MqFacts DEF MqType
  <2> DEFINE n == Len(mqRun)   L == Len(mqBuffer)
             B == [A EXCEPT ![k + 1] = A[k] + TotalLen]   g == [f EXCEPT ![n + k + 1] = r]
  <2>11. Framed(TotalLen, mqBuffer', L + TotalLen, n, k + 1, B, g)
    <3> HIDE DEF L, n
    <3>1. n \in Nat /\ L \in Nat /\ Framed(TotalLen, mqBuffer, L, n, k, A, f)
          /\ (\A i \in 1 .. L : mqBuffer'[i] = mqBuffer[i])
          /\ (\A i \in 1 .. TotalLen : mqBuffer'[L + i] = Message(r)[i])
      BY <2>4, <2>9, <2>10 DEF L, n
    <3> QED BY <2>2, <2>10, <3>1, FrameAppend, Zenon
  <2>12. Asked(n + (k + 1), g, mqTodo')
    <3> HIDE DEF n
    <3>1. n \in Nat /\ Asked(n + k, f, mqTodo)
      BY <2>9, <2>10 DEF n
    <3>2. n + k \in Nat /\ n + (k + 1) = (n + k) + 1
      BY <3>1
    <3>3. mqTodo \in [MqWriters -> 0 .. MqRequests]
      BY DEF MqType
    <3>4. Asked((n + k) + 1, [f EXCEPT ![(n + k) + 1] = r], [mqTodo EXCEPT ![w] = @ - 1])
      BY <2>1, <3>1, <3>2, <3>3, AskedMore, Zenon DEF r
    <3> QED BY <1>2, <3>2, <3>4
  <2>13. \A i \in 1 .. n : g[i] = f[i]
    <3> HIDE DEF n
    <3>1. n \in Nat
      BY <2>10 DEF n
    <3> QED BY <3>1
  <2>14. B \in [Nat -> Nat] /\ g \in [Nat -> MqReq] /\ k + 1 \in Nat
    <3> HIDE DEF n
    <3>1. n \in Nat
      BY <2>10 DEF n
    <3> QED BY <2>2, <2>10, <3>1, SMTT(30)
  <2>15. \A i \in 1 .. n : mqRun[i] = Payload(g[i])
    BY <2>9, <2>13
  <2> HIDE DEF B, g
  <2>16. /\ \A i \in 1 .. Len(mqRun') : mqRun'[i] = Payload(g[i])
         /\ Framed(TotalLen, mqBuffer', Len(mqBuffer'), Len(mqRun'), k + 1, B, g)
         /\ Asked(Len(mqRun') + (k + 1), g, mqTodo')
    BY <1>2, <2>4, <2>11, <2>12, <2>15
  <2> QED BY <2>6, <2>7, <2>8, <2>14, <2>16, Zenon DEF MqInv
<1> QED BY <1>1, <1>2, Zenon DEF WriteMessage

(* What a sequence with one more element holds.                           *)
LEMMA AppendFacts ==
  ASSUME NEW S, NEW q \in Seq(S), NEW x \in S
  PROVE  /\ Append(q, x) \in Seq(S) /\ Len(Append(q, x)) = Len(q) + 1 /\ Len(q) \in Nat
         /\ Append(q, x)[Len(q) + 1] = x /\ \A i \in 1 .. Len(q) : Append(q, x)[i] = q[i]
OBVIOUS

(* MessageQueue::readArray() takes one whole message and leaves the       *)
(* others framed, and wakes the writers the room is for.                  *)
LEMMA MqRead ==
  ASSUME MqType, MqInv, ReadMessage
  PROVE  MqType' /\ MqInv'
<1> DEFINE L == Len(mqBuffer)   n == Len(mqRun)   T == TotalLen
           c == SubSeq(mqBuffer, TotalLen + 1, Len(mqBuffer))
           p == SubSeq(mqBuffer, MqHeader + 1, TotalLen)
<1>0. /\ mqFree \in Int /\ mqFree = MqMaxWaiting - L /\ L \in Nat /\ n \in Nat
      /\ T \in Nat /\ T > 2 /\ T = MqLen + 2 /\ MqLen \in Nat /\ MqMaxWaiting \in Nat
  <2>1. L \in Nat /\ n \in Nat
    BY DEF MqType
  <2> QED BY <2>1, MqFacts DEF MqType, MqInv
<1>1. CASE /\ MqMaxWaiting - mqFree < TotalLen /\ mqWaiting' = mqWaiting \union {MqBroker}
           /\ UNCHANGED <<mqFree, mqBuffer, mqTodo, mqRun>>
  <2>1. L < T
    <3> HIDE DEF L, T
    <3> QED BY <1>0, <1>1 DEF T
  <2>2. SleepersHaveReason'
    BY <1>1, <2>1, MqFacts DEF MqInv, SleepersHaveReason
  <2> QED BY <1>1, <2>2, Zenon DEF MqType, MqInv
<1>2. CASE /\ MqMaxWaiting - mqFree >= TotalLen /\ mqFree' = mqFree + TotalLen /\ mqBuffer' = c
           /\ mqWaiting' = Raised(mqWaiting) /\ mqRun' = Append(mqRun, p) /\ mqTodo' = mqTodo
  <2>1. L >= T
    <3> HIDE DEF L, T, c, p
    <3> QED BY <1>0, <1>2 DEF T
  <2>2. /\ c \in Seq(MqBytes) /\ Len(c) = L - T /\ \A i \in 1 .. L - T : c[i] = mqBuffer[T + i]
    <3>1. mqBuffer \in Seq(MqBytes)
      BY DEF MqType
    <3> HIDE DEF T, L
    <3>2. L <= Len(mqBuffer) /\ T \in Nat /\ L \in Nat /\ T <= L /\ c = SubSeq(mqBuffer, T + 1, L)
      BY <1>0, <2>1 DEF T, L
    <3> HIDE DEF c
    <3> QED BY <3>1, <3>2, SubFacts
  <2>3. p \in [1 .. MqLen -> MqBytes] /\ \A i \in 1 .. MqLen : p[i] = mqBuffer[MqHeader + i]
    <3>1. mqBuffer \in Seq(MqBytes)
      BY DEF MqType
    <3> HIDE DEF T, L
    <3>2. T <= L /\ T \in Nat /\ MqHeader \in Nat /\ MqHeader <= T /\ T - MqHeader = MqLen
      BY <1>0, <2>1, MqFacts
    <3>3. T <= Len(mqBuffer) /\ p = SubSeq(mqBuffer, MqHeader + 1, T)
      BY <3>2 DEF L, T
    <3> HIDE DEF p
    <3>4. /\ SubSeq(mqBuffer, MqHeader + 1, T) \in [1 .. T - MqHeader -> MqBytes]
          /\ \A i \in 1 .. T - MqHeader : SubSeq(mqBuffer, MqHeader + 1, T)[i] = mqBuffer[MqHeader + i]
      <4> DEFINE h == MqHeader
      <4> HIDE DEF h
      <4>1. h \in Nat /\ h <= T /\ T \in Nat /\ T <= Len(mqBuffer)
        BY <3>2, <3>3 DEF h
      <4>2. /\ SubSeq(mqBuffer, h + 1, T) \in [1 .. T - h -> MqBytes]
            /\ \A i \in 1 .. T - h : SubSeq(mqBuffer, h + 1, T)[i] = mqBuffer[h + i]
        BY <3>1, <4>1, SubFacts
      <4> QED BY <4>2, Zenon DEF h
    <3> QED BY <3>2, <3>3, <3>4, Zenon
  <2>4. PICK f \in [Nat -> MqReq], k \in Nat, A \in [Nat -> Nat] :
         /\ \A i \in 1 .. n : mqRun[i] = Payload(f[i])
         /\ Framed(T, mqBuffer, L, n, k, A, f)
         /\ Asked(n + k, f, mqTodo)
    BY Zenon DEF MqInv
  <2>5. /\ k > 0
        /\ \A j \in 1 .. T : mqBuffer[j] = Message(f[n + 1])[j]
        /\ \E B \in [Nat -> Nat] : Framed(T, c, L - T, n + 1, k - 1, B, f)
    <3>1. \A i \in 1 .. L - T : c[i] = mqBuffer[T + i]
      BY <2>2, Zenon
    <3>2. Framed(T, mqBuffer, L, n, k, A, f) /\ L \in Nat /\ n \in Nat
      BY <1>0, <2>4
    <3> HIDE DEF T, L, c, n
    <3>3. T \in Nat /\ T > 0
      BY <1>0
    <3> QED BY <2>1, <3>1, <3>2, <3>3, FrameTake, Zenon
  <2>6. PICK B \in [Nat -> Nat] : Framed(T, c, L - T, n + 1, k - 1, B, f)
    BY <2>5, Zenon
  <2>7. p = Payload(f[n + 1])
    <3>1. f[n + 1] \in MqReq
      BY <1>0
    <3>2. \A i \in 1 .. MqLen : p[i] = <<"data", f[n + 1]>>
      <4> HIDE DEF T, p, n
      <4> SUFFICES ASSUME NEW i \in 1 .. MqLen PROVE p[i] = <<"data", f[n + 1]>>
        OBVIOUS
      <4>1. MqHeader + i \in 1 .. T /\ ~(MqHeader + i <= 2)
        BY <1>0, MqFacts
      <4>2. Message(f[n + 1])[MqHeader + i] = <<"data", f[n + 1]>>
        BY <4>1, <3>1, MessageSeq, Zenon DEF T
      <4> QED BY <4>1, <4>2, <2>3, <2>5, Zenon
    <3> HIDE DEF p, n
    <3> QED BY <2>3, <3>2, Zenon DEF Payload
  <2>8. /\ mqRun' \in Seq([1 .. MqLen -> MqBytes]) /\ Len(mqRun') = n + 1
        /\ mqRun'[n + 1] = p /\ \A i \in 1 .. n : mqRun'[i] = mqRun[i]
    <3>1. mqRun \in Seq([1 .. MqLen -> MqBytes])
      BY DEF MqType
    <3> HIDE DEF p, c, L, T
    <3>2. p \in [1 .. MqLen -> MqBytes] /\ mqRun' = Append(mqRun, p)
      BY <1>2, <2>3
    <3>3. /\ Append(mqRun, p) \in Seq([1 .. MqLen -> MqBytes]) /\ Len(Append(mqRun, p)) = Len(mqRun) + 1
          /\ Append(mqRun, p)[Len(mqRun) + 1] = p /\ \A i \in 1 .. Len(mqRun) : Append(mqRun, p)[i] = mqRun[i]
      <4> DEFINE S == [1 .. MqLen -> MqBytes]
      <4> HIDE DEF S
      <4>1. mqRun \in Seq(S) /\ p \in S
        BY <3>1, <3>2 DEF S
      <4>2. /\ Append(mqRun, p) \in Seq(S) /\ Len(Append(mqRun, p)) = Len(mqRun) + 1
            /\ Append(mqRun, p)[Len(mqRun) + 1] = p /\ \A i \in 1 .. Len(mqRun) : Append(mqRun, p)[i] = mqRun[i]
        BY <4>1, AppendFacts
      <4> QED BY <4>2 DEF S
    <3> QED BY <3>2, <3>3, Zenon
  <2> HIDE DEF L, n, T, c, p
  <2>9. \A i \in 1 .. n + 1 : mqRun'[i] = Payload(f[i])
    <3> SUFFICES ASSUME NEW i \in 1 .. n + 1 PROVE mqRun'[i] = Payload(f[i])
      OBVIOUS
    <3>1. i = n + 1 \/ i \in 1 .. n
      BY <1>0
    <3> QED BY <3>1, <2>4, <2>7, <2>8, Zenon
  <2>10. Asked((n + 1) + (k - 1), f, mqTodo') /\ k - 1 \in Nat
    <3>1. (n + 1) + (k - 1) = n + k /\ k - 1 \in Nat
      <4>1. n \in Nat /\ k \in Nat /\ k > 0
        BY <1>0, <2>5, Zenon
      <4> HIDE DEF n
      <4> QED BY ONLY <4>1
    <3> QED BY <3>1, <1>2, <2>4
  <2>11. mqFree' \in Int /\ mqFree' = MqMaxWaiting - (L - T)
    BY <1>0, <1>2 DEF T
  <2>12. Len(mqBuffer') = L - T /\ mqBuffer' \in Seq(MqBytes)
    BY <1>2, <2>2
  <2>13. MqType'
    BY <1>2, <2>8, <2>11, <2>12, Zenon DEF MqType
  <2>14. SleepersHaveReason'
    BY <1>2 DEF SleepersHaveReason, Raised
  <2>15. mqFree' = MqMaxWaiting - Len(mqBuffer')
    BY <2>11, <2>12
  <2>16. /\ \A i \in 1 .. Len(mqRun') : mqRun'[i] = Payload(f[i])
         /\ Framed(TotalLen, mqBuffer', Len(mqBuffer'), Len(mqRun'), k - 1, B, f)
         /\ Asked(Len(mqRun') + (k - 1), f, mqTodo')
    BY <1>2, <2>6, <2>8, <2>9, <2>10, <2>12, Zenon DEF T
  <2> QED BY <2>10, <2>13, <2>14, <2>15, <2>16, Zenon DEF MqInv
<1> QED BY <1>1, <1>2 DEF ReadMessage

(* An empty queue has no frame and nobody asleep.                         *)
LEMMA MqInitInv == ASSUME MqInit, MqWriters # {}, MqRequests > 0 PROVE MqType /\ MqInv
<1>1. MqType
  BY MqFacts DEF MqInit, MqType
<1>2. SleepersHaveReason
  BY DEF MqInit, SleepersHaveReason
<1>3. Len(mqBuffer) = 0 /\ Len(mqRun) = 0
  BY DEF MqInit
<1>4. mqFree = MqMaxWaiting - Len(mqBuffer)
  <2>1. MqMaxWaiting - 0 = MqMaxWaiting
    BY MqFacts
  <2> QED BY <1>3, <2>1 DEF MqInit
<1>5. PICK w \in MqWriters : TRUE
  OBVIOUS
<1> DEFINE f == [i \in Nat |-> <<w, 1>>]   A == [i \in Nat |-> 0]
<1>6. f \in [Nat -> MqReq] /\ A \in [Nat -> Nat]
  BY MqFacts DEF MqReq
<1>7. Framed(TotalLen, mqBuffer, 0, 0, 0, A, f) /\ Asked(0, f, mqTodo)
  BY DEF Framed, Asked
<1> HIDE DEF f, A
<1>8. /\ \A i \in 1 .. Len(mqRun) : mqRun[i] = Payload(f[i])
      /\ Framed(TotalLen, mqBuffer, Len(mqBuffer), Len(mqRun), 0, A, f)
      /\ Asked(Len(mqRun) + 0, f, mqTodo)
  BY <1>3, <1>7
<1> QED BY <1>1, <1>2, <1>4, <1>6, <1>8, Zenon DEF MqInv

(* What runs is what was asked for: each request once, those of a writer  *)
(* in their order, no message torn.                                       *)
LEMMA MqInvImplies == MqType /\ MqInv => RequestsServed
<1> SUFFICES ASSUME MqType, MqInv PROVE RequestsWhole
  BY Zenon DEF MqInv, RequestsServed
<1>1. PICK f \in [Nat -> MqReq], k \in Nat, A \in [Nat -> Nat] :
         /\ \A i \in 1 .. Len(mqRun) : mqRun[i] = Payload(f[i])
         /\ Asked(Len(mqRun) + k, f, mqTodo)
  BY Zenon DEF MqInv
<1> DEFINE n == Len(mqRun)
<1>2. n \in Nat /\ DOMAIN mqRun = 1 .. n
  BY DEF MqType
<1> HIDE DEF n
<1>3. \A i \in 1 .. n : mqRun[i] = Payload(f[i])
  BY <1>1 DEF n
<1>4. \A i, j \in 1 .. n : i < j /\ f[i][1] = f[j][1] => f[i][2] > f[j][2]
  <2>1. \A i, j \in 1 .. n + k : i < j /\ f[i][1] = f[j][1] => f[i][2] > f[j][2]
    BY <1>1 DEF Asked, n
  <2> QED BY <1>2, <2>1
<1>5. \A i \in 1 .. n : f[i] \in MqReq /\ mqRun[i] = [j \in 1 .. MqLen |-> <<"data", f[i]>>] /\ mqRun[i][1][2] = f[i]
  <2> SUFFICES ASSUME NEW i \in 1 .. n
               PROVE  f[i] \in MqReq /\ mqRun[i] = [j \in 1 .. MqLen |-> <<"data", f[i]>>] /\ mqRun[i][1][2] = f[i]
    BY Zenon
  <2>1. f[i] \in MqReq /\ 1 \in 1 .. MqLen
    BY <1>2, MqFacts
  <2>2. mqRun[i] = [j \in 1 .. MqLen |-> <<"data", f[i]>>]
    BY <1>3, Zenon DEF Payload
  <2>3. mqRun[i][1] = <<"data", f[i]>>
    BY <2>1, <2>2, Zenon
  <2> QED BY <2>1, <2>2, <2>3
<1>6. \A i \in 1 .. n : \E r \in MqWriters \X (1 .. MqRequests) : mqRun[i] = [j \in 1 .. MqLen |-> <<"data", r>>]
  BY <1>5, Zenon DEF MqReq
<1>7. \A i, j \in 1 .. n :
        i < j /\ mqRun[i][1][2][1] = mqRun[j][1][2][1] => mqRun[i][1][2][2] > mqRun[j][1][2][2]
  <2>1. \A i \in 1 .. n : mqRun[i][1][2] = f[i]
    BY <1>5
  <2> QED BY ONLY <1>4, <2>1, Zenon
<1> QED BY <1>2, <1>6, <1>7, Zenon DEF RequestsWhole

(* The broker runs the requests as they were asked for, those of one      *)
(* thread in their order, with whole messages, and nobody sleeps who      *)
(* could go on: for every number of writers, requests and bytes           *)
(* (ipc/messagequeue.cpp, proc/broker.cpp).                               *)
THEOREM MqCorrect == MqSpec => []RequestsServed
<1>1. MqInit => MqType /\ MqInv
  BY MqInitInv, MqAssumption
<1>2. MqType /\ MqInv /\ [MqNext]_mqVars => MqType' /\ MqInv'
  <2> SUFFICES ASSUME MqType, MqInv, [MqNext]_mqVars PROVE MqType' /\ MqInv'
    OBVIOUS
  <2>1. CASE UNCHANGED mqVars
    BY <2>1, Zenon DEF mqVars, MqType, MqInv, SleepersHaveReason
  <2> QED BY <2>1, MqRead, MqWrite DEF MqNext
<1> QED BY <1>1, <1>2, MqInvImplies, PTL DEF MqSpec

-----------------------------------------------------------------------------
(* Signals: of one thread, and the handlers they enter.                     *)
SgPlaces == {"user", "sys", "handle", "entering", "leaving", "dead"}
SgContexts == [pc : SgPlaces, in : {"main", "handler"}]
SgInfos == SgIds \X Nat
SgThreads == [at : SgContexts, aux : SgContexts, busy : Int, insignal : BOOLEAN, swapped : BOOLEAN,
              pending : Seq(SgInfos), info : SgInfos \union {<<>>}]

SgType == sgT \in SgThreads /\ sgSent \in Nat /\ sgHung \in BOOLEAN

(* Where the thread is, which stack it is on, what the broker was asked for *)
(* and whether a signal is in hand go together.                             *)
SgPlaced(t, b) ==
    t.at.pc # "dead" =>
        /\ b \in {<<>>, <<"enter">>, <<"exit">>}
        /\ b = <<"enter">> <=> t.at.pc = "entering" /\ t.insignal
        /\ b = <<"exit">> <=> t.at.pc = "leaving"
        /\ t.swapped <=> t.at.in = "handler"
        /\ t.swapped => t.insignal /\ t.aux = [pc |-> "entering", in |-> "main"] /\ t.at.pc # "entering"
        /\ t.insignal /\ ~t.swapped => t.at.pc = "entering"
        /\ t.at.pc = "leaving" => t.swapped
        /\ t.info # <<>> <=> t.at.pc = "handle" \/ (t.at.pc = "entering" /\ t.insignal)

Taken(t) == IF t.info = <<>> THEN {} ELSE {t.info[2]}

(* Each of the signals sent is in one place: among the first len of p, in   *)
(* taken, or in done.                                                       *)
Sorted(p, len, taken, done, sent) ==
    /\ taken \subseteq 1 .. sent /\ done \subseteq 1 .. sent /\ taken \cap done = {}
    /\ \A i \in 1 .. len : p[i][2] \in (1 .. sent) \ (taken \union done)
    /\ \A i, j \in 1 .. len : p[i][2] = p[j][2] => i = j
    /\ \A n \in 1 .. sent : n \in taken \union done \/ \E i \in 1 .. len : p[i][2] = n

SgInv ==
    /\ SgPlaced(sgT, sgBroker)
    /\ sgT.at.pc # "dead" /\ ~sgHung =>
         Sorted(sgT.pending, Len(sgT.pending), Taken(sgT), sgDone, sgSent)

-----------------------------------------------------------------------------
(* A signal that is sent and waits is in one place.                       *)
LEMMA SortedSend ==
  ASSUME NEW p, NEW q, NEW len \in Nat, NEW taken, NEW done, NEW sent \in Nat,
         Sorted(p, len, taken, done, sent), \A i \in 1 .. len : q[i] = p[i], q[len + 1][2] = sent + 1
  PROVE  Sorted(q, len + 1, taken, done, sent + 1)
<1>1. /\ taken \subseteq 1 .. sent + 1 /\ done \subseteq 1 .. sent + 1 /\ taken \cap done = {}
      /\ sent + 1 \notin taken \union done
  BY DEF Sorted
<1>2. \A i \in 1 .. len : q[i][2] \in (1 .. sent) \ (taken \union done)
  BY DEF Sorted
<1>3. \A i \in 1 .. len + 1 : i \in 1 .. len \/ i = len + 1
  OBVIOUS
<1>4. \A i \in 1 .. len + 1 : q[i][2] \in (1 .. sent + 1) \ (taken \union done)
  BY <1>1, <1>2, <1>3
<1>5. \A i, j \in 1 .. len + 1 : q[i][2] = q[j][2] => i = j
  BY <1>2, <1>3 DEF Sorted
<1>6. \A n \in 1 .. sent + 1 : n \in taken \union done \/ \E i \in 1 .. len + 1 : q[i][2] = n
  BY DEF Sorted
<1> QED BY <1>1, <1>4, <1>5, <1>6 DEF Sorted

(* A signal that has its effect as it is sent is in one place.            *)
LEMMA SortedSendDone ==
  ASSUME NEW p, NEW len \in Nat, NEW taken, NEW done, NEW sent \in Nat, Sorted(p, len, taken, done, sent)
  PROVE  Sorted(p, len, taken, done \union {sent + 1}, sent + 1)
<1>1. taken \subseteq 1 .. sent + 1 /\ done \union {sent + 1} \subseteq 1 .. sent + 1
      /\ taken \cap (done \union {sent + 1}) = {}
  BY DEF Sorted
<1>2. \A i \in 1 .. len : p[i][2] \in (1 .. sent + 1) \ (taken \union (done \union {sent + 1}))
  BY DEF Sorted
<1>3. \A n \in 1 .. sent + 1 : n \in taken \union (done \union {sent + 1}) \/ \E i \in 1 .. len : p[i][2] = n
  BY DEF Sorted
<1> QED BY <1>1, <1>2, <1>3 DEF Sorted

(* A signal in hand that is put back to the others is in one place.       *)
LEMMA SortedBack ==
  ASSUME NEW p, NEW q, NEW len \in Nat, NEW x, NEW done, NEW sent \in Nat,
         Sorted(p, len, {x}, done, sent), \A i \in 1 .. len : q[i] = p[i], q[len + 1][2] = x
  PROVE  Sorted(q, len + 1, {}, done, sent)
<1>1. x \in 1 .. sent /\ done \subseteq 1 .. sent /\ x \notin done
  BY DEF Sorted
<1>2. \A i \in 1 .. len : q[i][2] \in (1 .. sent) \ done /\ q[i][2] # x
  BY DEF Sorted
<1>3. \A i \in 1 .. len + 1 : i \in 1 .. len \/ i = len + 1
  OBVIOUS
<1>4. \A i \in 1 .. len + 1 : q[i][2] \in (1 .. sent) \ done
  BY <1>1, <1>2, <1>3
<1>5. \A i, j \in 1 .. len + 1 : q[i][2] = q[j][2] => i = j
  BY <1>2, <1>3 DEF Sorted
<1>6. \A n \in 1 .. sent : n \in done \/ \E i \in 1 .. len + 1 : q[i][2] = n
  BY DEF Sorted
<1> QED BY <1>1, <1>4, <1>5, <1>6 DEF Sorted

(* The last of the waiting signals, taken in hand, is in one place.       *)
LEMMA SortedPop ==
  ASSUME NEW p, NEW q, NEW len \in Nat, len > 0, NEW done, NEW sent \in Nat,
         Sorted(p, len, {}, done, sent), \A i \in 1 .. len - 1 : q[i] = p[i]
  PROVE  Sorted(q, len - 1, {p[len][2]}, done, sent)
<1>1. len \in 1 .. len /\ \A i \in 1 .. len : i = len \/ i \in 1 .. len - 1
  OBVIOUS
<1>2. p[len][2] \in (1 .. sent) \ done
  BY <1>1 DEF Sorted
<1>3. \A i \in 1 .. len - 1 : q[i][2] \in (1 .. sent) \ done /\ q[i][2] # p[len][2]
  BY <1>1 DEF Sorted
<1>4. \A i, j \in 1 .. len - 1 : q[i][2] = q[j][2] => i = j
  BY DEF Sorted
<1>5. \A n \in 1 .. sent : n = p[len][2] \/ n \in done \/ \E i \in 1 .. len - 1 : q[i][2] = n
  BY <1>1 DEF Sorted
<1> QED BY <1>2, <1>3, <1>4, <1>5 DEF Sorted

(* A signal in hand that has its effect is in one place.                  *)
LEMMA SortedDone ==
  ASSUME NEW p, NEW len \in Nat, NEW x, NEW done, NEW sent \in Nat, Sorted(p, len, {x}, done, sent)
  PROVE  Sorted(p, len, {}, done \union {x}, sent)
BY Zenon DEF Sorted

(* A signal waits once, or is in hand, or had its effect.                   *)
LEMMA SortedOnce ==
  ASSUME NEW p, NEW len \in Nat, NEW taken, NEW done, NEW sent \in Nat, Sorted(p, len, taken, done, sent),
         NEW n \in 1 .. sent
  PROVE  LET W == {i \in 1 .. len : p[i][2] = n}
         IN  \/ (\E i \in W : W = {i}) /\ n \notin taken /\ n \notin done
             \/ W = {} /\ n \in taken /\ n \notin done
             \/ W = {} /\ n \notin taken /\ n \in done
<1>1. CASE n \in taken \union done
  BY <1>1 DEF Sorted
<1>2. CASE n \notin taken \union done
  <2>1. PICK i \in 1 .. len : p[i][2] = n
    BY <1>2 DEF Sorted
  <2>2. {j \in 1 .. len : p[j][2] = n} = {i}
    BY <2>1 DEF Sorted
  <2> QED BY <1>2, <2>2
<1> QED BY <1>1, <1>2

-----------------------------------------------------------------------------
(* What the waiting signals are after a push.                             *)
LEMMA SgAppend ==
  ASSUME NEW S, NEW s \in Seq(S), NEW x \in S
  PROVE  /\ Append(s, x) \in Seq(S) /\ Len(s) \in Nat /\ Len(Append(s, x)) = Len(s) + 1
         /\ \A i \in 1 .. Len(s) : Append(s, x)[i] = s[i]
         /\ Append(s, x)[Len(s) + 1] = x
OBVIOUS

(* What the waiting signals are without the last.                         *)
LEMMA SgFront ==
  ASSUME NEW S, NEW s \in Seq(S), s # <<>>
  PROVE  /\ Len(s) \in Nat /\ Len(s) > 0 /\ s[Len(s)] \in S
         /\ SubSeq(s, 1, Len(s) - 1) \in Seq(S)
         /\ Len(SubSeq(s, 1, Len(s) - 1)) = Len(s) - 1
         /\ \A i \in 1 .. Len(s) - 1 : SubSeq(s, 1, Len(s) - 1)[i] = s[i]
<1>1. Len(s) \in Nat /\ Len(s) > 0 /\ s[Len(s)] \in S
  OBVIOUS
<1>2. SubSeq(s, 1, Len(s) - 1) \in Seq(S)
  OBVIOUS
<1>3. Len(SubSeq(s, 1, Len(s) - 1)) = Len(s) - 1
  <2>1. \A b \in Nat : b <= Len(s) => Len(SubSeq(s, 1, b)) = b
    BY <1>1
  <2>2. Len(s) - 1 \in Nat /\ Len(s) - 1 <= Len(s)
    BY <1>1
  <2> QED BY <2>1, <2>2, Zenon
<1>4. \A i \in 1 .. Len(s) - 1 : SubSeq(s, 1, Len(s) - 1)[i] = s[i]
  OBVIOUS
<1> QED BY <1>1, <1>2, <1>3, <1>4

SgRecords(S, I) == [at : SgContexts, aux : SgContexts, busy : Int, insignal : BOOLEAN, swapped : BOOLEAN,
                    pending : S, info : I]

(* The queue of the broker with one request or none.                      *)
LEMMA SgBrokerFacts ==
  /\ Append(<<>>, "enter") = <<"enter">> /\ Append(<<>>, "exit") = <<"exit">>
  /\ Head(<<"enter">>) = "enter" /\ Tail(<<"enter">>) = <<>>
  /\ Head(<<"exit">>) = "exit" /\ Tail(<<"exit">>) = <<>>
  /\ <<"enter">> # <<>> /\ <<"exit">> # <<>> /\ <<"enter">> # <<"exit">>
OBVIOUS

(* The record of a thread, with the types of its last two fields as       *)
(* parameters.                                                            *)
LEMMA SgThreadsAre == SgThreads = SgRecords(Seq(SgInfos), SgInfos \union {<<>>})
BY DEF SgThreads, SgRecords

(* A signal is a number of a kind and a number of its own.                *)
LEMMA SgInfoFacts ==
  /\ <<>> \in SgInfos \union {<<>>} /\ <<>> \notin SgInfos
  /\ \A x \in SgInfos : x[1] \in SgIds /\ x[2] \in Nat /\ x # <<>>
  /\ \A id \in SgIds, n \in Nat : <<id, n>> \in SgInfos /\ <<id, n>>[2] = n
BY DEF SgInfos

-----------------------------------------------------------------------------
(* The threads the actions make, field by field.                            *)
SgAt(u, place, in) == u.at.pc = place /\ u.at.in = in
SgFlags(u, aux, insignal, swapped) == u.aux = aux /\ u.insignal = insignal /\ u.swapped = swapped
SgHolds(u, pending, info) == u.pending = pending /\ u.info = info

(* A thread that enters a busy section and goes on elsewhere, field by    *)
(* field.                                                                 *)
LEMMA SgCounted ==
  ASSUME NEW S, NEW I, NEW t \in SgRecords(S, I), NEW place \in SgPlaces
  PROVE  LET u == [SgGoto(t, place) EXCEPT !.busy = @ + 1]
         IN  u \in SgRecords(S, I) /\ SgAt(u, place, t.at.in)
             /\ SgFlags(u, t.aux, t.insignal, t.swapped) /\ SgHolds(u, t.pending, t.info)
<1>1. SgGoto(t, place).busy + 1 \in Int
  BY DEF SgRecords, SgContexts, SgGoto, SgPlaces
<1>2. PICK b \in Int : b = SgGoto(t, place).busy + 1
  BY <1>1
<1>3. LET u == [SgGoto(t, place) EXCEPT !.busy = b]
      IN  u \in SgRecords(S, I) /\ SgAt(u, place, t.at.in)
          /\ SgFlags(u, t.aux, t.insignal, t.swapped) /\ SgHolds(u, t.pending, t.info)
  BY Zenon DEF SgRecords, SgContexts, SgGoto, SgAt, SgFlags, SgHolds, SgPlaces
<1> QED BY <1>2, <1>3, Zenon

(* A thread that leaves a busy section, field by field.                   *)
LEMMA SgUncounted ==
  ASSUME NEW S, NEW I, NEW t \in SgRecords(S, I), NEW place \in SgPlaces
  PROVE  LET u == SgGoto([t EXCEPT !.busy = @ - 1], place)
         IN  u \in SgRecords(S, I) /\ SgAt(u, place, t.at.in)
             /\ SgFlags(u, t.aux, t.insignal, t.swapped) /\ SgHolds(u, t.pending, t.info)
<1>1. t.busy - 1 \in Int
  BY DEF SgRecords, SgContexts, SgGoto, SgPlaces
<1>2. PICK b \in Int : b = t.busy - 1
  BY <1>1
<1>3. LET u == SgGoto([t EXCEPT !.busy = b], place)
      IN  u \in SgRecords(S, I) /\ SgAt(u, place, t.at.in)
          /\ SgFlags(u, t.aux, t.insignal, t.swapped) /\ SgHolds(u, t.pending, t.info)
  BY Zenon DEF SgRecords, SgContexts, SgGoto, SgAt, SgFlags, SgHolds, SgPlaces
<1> QED BY <1>2, <1>3, Zenon

(* A thread that leaves a busy section with a signal in hand, field by    *)
(* field.                                                                 *)
LEMMA SgPopped ==
  ASSUME NEW S, NEW I, NEW t \in SgRecords(S, I), NEW place \in SgPlaces, NEW p \in S, NEW x \in I
  PROVE  LET u == [SgGoto([t EXCEPT !.busy = @ - 1], place) EXCEPT !.info = x, !.pending = p]
         IN  u \in SgRecords(S, I) /\ SgAt(u, place, t.at.in)
             /\ SgFlags(u, t.aux, t.insignal, t.swapped) /\ SgHolds(u, p, x)
<1>1. t.busy - 1 \in Int
  BY DEF SgRecords, SgContexts, SgGoto, SgPlaces
<1>2. PICK b \in Int : b = t.busy - 1
  BY <1>1
<1>3. LET u == [SgGoto([t EXCEPT !.busy = b], place) EXCEPT !.info = x, !.pending = p]
      IN  u \in SgRecords(S, I) /\ SgAt(u, place, t.at.in)
          /\ SgFlags(u, t.aux, t.insignal, t.swapped) /\ SgHolds(u, p, x)
  BY Zenon DEF SgRecords, SgContexts, SgGoto, SgAt, SgFlags, SgHolds, SgPlaces
<1> QED BY <1>2, <1>3, Zenon

(* A thread with other signals waiting, field by field.                   *)
LEMMA SgPushed ==
  ASSUME NEW S, NEW I, NEW t \in SgRecords(S, I), NEW p \in S
  PROVE  LET u == [t EXCEPT !.pending = p]
         IN  u \in SgRecords(S, I) /\ SgAt(u, t.at.pc, t.at.in)
             /\ SgFlags(u, t.aux, t.insignal, t.swapped) /\ SgHolds(u, p, t.info)
BY DEF SgRecords, SgContexts, SgGoto, SgAt, SgFlags, SgHolds, SgPlaces

(* A thread that goes on elsewhere, field by field.                       *)
LEMMA SgMoved ==
  ASSUME NEW S, NEW I, NEW t \in SgRecords(S, I), NEW place \in SgPlaces
  PROVE  LET u == SgGoto(t, place)
         IN  u \in SgRecords(S, I) /\ SgAt(u, place, t.at.in)
             /\ SgFlags(u, t.aux, t.insignal, t.swapped) /\ SgHolds(u, t.pending, t.info)
BY DEF SgRecords, SgContexts, SgGoto, SgAt, SgFlags, SgHolds, SgPlaces

(* A thread that goes on without the signal in hand, field by field.      *)
LEMMA SgDropped ==
  ASSUME NEW S, NEW I, NEW t \in SgRecords(S, I), NEW place \in SgPlaces, NEW x \in I
  PROVE  LET u == [SgGoto(t, place) EXCEPT !.info = x]
         IN  u \in SgRecords(S, I) /\ SgAt(u, place, t.at.in)
             /\ SgFlags(u, t.aux, t.insignal, t.swapped) /\ SgHolds(u, t.pending, x)
BY Zenon DEF SgRecords, SgContexts, SgGoto, SgAt, SgFlags, SgHolds, SgPlaces

(* A thread that has asked the broker for its handler, field by field.    *)
LEMMA SgEntering ==
  ASSUME NEW S, NEW I, NEW t \in SgRecords(S, I), NEW place \in SgPlaces
  PROVE  LET u == [SgGoto(t, place) EXCEPT !.insignal = TRUE]
         IN  u \in SgRecords(S, I) /\ SgAt(u, place, t.at.in)
             /\ SgFlags(u, t.aux, TRUE, t.swapped) /\ SgHolds(u, t.pending, t.info)
BY Zenon DEF SgRecords, SgContexts, SgGoto, SgAt, SgFlags, SgHolds, SgPlaces

(* A thread that puts the signal in hand back, field by field.            *)
LEMMA SgPutBack ==
  ASSUME NEW S, NEW I, NEW t \in SgRecords(S, I), NEW place \in SgPlaces, NEW p \in S, NEW x \in I
  PROVE  LET u == [[SgGoto(t, place) EXCEPT !.pending = p] EXCEPT !.info = x]
         IN  u \in SgRecords(S, I) /\ SgAt(u, place, t.at.in)
             /\ SgFlags(u, t.aux, t.insignal, t.swapped) /\ SgHolds(u, p, x)
BY Zenon DEF SgRecords, SgContexts, SgGoto, SgAt, SgFlags, SgHolds, SgPlaces

(* A thread whose handler begins, field by field.                         *)
LEMMA SgEntered ==
  ASSUME NEW S, NEW I, NEW t \in SgRecords(S, I), NEW x \in I
  PROVE  LET u == [t EXCEPT !.aux = t.at, !.at = [pc |-> "user", in |-> "handler"],
                        !.swapped = ~@, !.info = x]
         IN  u \in SgRecords(S, I) /\ SgAt(u, "user", "handler")
             /\ SgFlags(u, t.at, t.insignal, ~t.swapped) /\ SgHolds(u, t.pending, x)
BY Zenon DEF SgRecords, SgContexts, SgGoto, SgAt, SgFlags, SgHolds, SgPlaces

(* A thread whose handler is over, field by field.                        *)
LEMMA SgLeft ==
  ASSUME NEW S, NEW I, NEW t \in SgRecords(S, I)
  PROVE  LET u == [t EXCEPT !.at = t.aux, !.swapped = ~@, !.insignal = FALSE, !.busy = @ - 1]
         IN  u \in SgRecords(S, I) /\ u.at = t.aux
             /\ SgFlags(u, t.aux, FALSE, ~t.swapped) /\ SgHolds(u, t.pending, t.info)
<1>1. t.busy - 1 \in Int
  BY DEF SgRecords, SgContexts, SgGoto, SgPlaces
<1>2. PICK b \in Int : b = t.busy - 1
  BY <1>1
<1>3. LET u == [t EXCEPT !.at = t.aux, !.swapped = ~@, !.insignal = FALSE, !.busy = b]
      IN  u \in SgRecords(S, I) /\ u.at = t.aux
          /\ SgFlags(u, t.aux, FALSE, ~t.swapped) /\ SgHolds(u, t.pending, t.info)
  BY Zenon DEF SgRecords, SgContexts, SgGoto, SgAt, SgFlags, SgHolds, SgPlaces
<1> QED BY <1>2, <1>3, Zenon

-----------------------------------------------------------------------------
(* The fields of the thread have their types.                             *)
LEMMA SgTypes ==
  ASSUME SgType
  PROVE  /\ sgT \in SgRecords(Seq(SgInfos), SgInfos \union {<<>>}) /\ sgSent \in Nat /\ sgHung \in BOOLEAN
         /\ sgT.busy \in Int /\ sgT.busy + 1 \in Int /\ sgT.busy - 1 \in Int
         /\ sgT.pending \in Seq(SgInfos) /\ sgT.info \in SgInfos \union {<<>>}
         /\ sgT.at \in SgContexts /\ sgT.aux \in SgContexts
         /\ sgT.insignal \in BOOLEAN /\ sgT.swapped \in BOOLEAN
<1>1. sgT \in SgRecords(Seq(SgInfos), SgInfos \union {<<>>}) /\ sgSent \in Nat /\ sgHung \in BOOLEAN
  BY SgThreadsAre DEF SgType
<1> DEFINE S == Seq(SgInfos)   I == SgInfos \union {<<>>}
<1>2. sgT \in SgRecords(S, I)
  BY <1>1
<1> HIDE DEF S, I
<1>3. /\ sgT.busy \in Int /\ sgT.pending \in S /\ sgT.info \in I
      /\ sgT.at \in SgContexts /\ sgT.aux \in SgContexts /\ sgT.insignal \in BOOLEAN /\ sgT.swapped \in BOOLEAN
  BY <1>2 DEF SgRecords
<1>4. sgT.busy + 1 \in Int /\ sgT.busy - 1 \in Int
  BY <1>3
<1> QED BY <1>1, <1>3, <1>4, Zenon DEF S, I

(* A step that keeps the waiting signals and the one in hand.                *)
LEMMA SgSame ==
  ASSUME SgInv, SgRuns, sgT'.pending = sgT.pending, sgT'.info = sgT.info, sgDone' = sgDone, sgSent' = sgSent
  PROVE  Sorted(sgT.pending, Len(sgT.pending), Taken(sgT), sgDone, sgSent)'
<1>1. Sorted(sgT.pending, Len(sgT.pending), Taken(sgT), sgDone, sgSent)
  BY DEF SgInv, SgRuns
<1>2. Taken(sgT)' = Taken(sgT)
  BY DEF Taken
<1>4. /\ sgT.pending' = sgT.pending /\ Len(sgT.pending)' = Len(sgT.pending)
  OBVIOUS
<1> QED BY <1>1, <1>2, <1>4 DEF Sorted

(* syscall_prepare() keeps the invariant.                                 *)
LEMMA SgPrepareStep ==
  ASSUME SgType, SgInv, SyscallPrepare
  PROVE  SgType' /\ SgInv'
<1>0. "sys" \in SgPlaces
  BY DEF SgPlaces
<1>2. /\ sgT' \in SgRecords(Seq(SgInfos), SgInfos \union {<<>>})
      /\ SgAt(sgT', "sys", sgT.at.in) /\ SgFlags(sgT', sgT.aux, sgT.insignal, sgT.swapped)
      /\ SgHolds(sgT', sgT.pending, sgT.info)
  BY <1>0, SgTypes, SgCounted, Zenon DEF SyscallPrepare
<1>3. SgType'
  BY <1>2, SgThreadsAre DEF SyscallPrepare, SgType
<1>4. SgPlaced(sgT, sgBroker)'
  BY <1>2 DEF SyscallPrepare, SgInv, SgPlaced, SgAt, SgFlags, SgHolds, SgRuns
<1>5. Sorted(sgT.pending, Len(sgT.pending), Taken(sgT), sgDone, sgSent)'
  BY <1>2, SgSame DEF SyscallPrepare, SgHolds
<1> QED BY <1>3, <1>4, <1>5 DEF SgInv

(* Process::sigaction() touches neither the thread nor its signals.       *)
LEMMA SgSigactionStep ==
  ASSUME SgType, SgInv, sgT' = sgT, sgBroker' = sgBroker, sgSent' = sgSent, sgDone' = sgDone, sgHung' = sgHung
  PROVE  SgType' /\ SgInv'
BY DEF SgType, SgInv, SgPlaced, Sorted, Taken

(* The return of enterSignal() keeps the invariant: the handler is over,  *)
(* so nothing is in hand.                                                 *)
LEMMA SgResumeStep ==
  ASSUME SgType, SgInv, SgResume
  PROVE  SgType' /\ SgInv'
<1>0. "user" \in SgPlaces
  BY DEF SgPlaces
<1>2. /\ sgT' \in SgRecords(Seq(SgInfos), SgInfos \union {<<>>})
      /\ SgAt(sgT', "user", sgT.at.in) /\ SgFlags(sgT', sgT.aux, sgT.insignal, sgT.swapped)
      /\ SgHolds(sgT', sgT.pending, sgT.info)
  BY <1>0, SgTypes, SgMoved, Zenon DEF SgResume
<1>3. SgType'
  BY <1>2, SgThreadsAre DEF SgResume, SgType
<1>4. SgPlaced(sgT, sgBroker)'
  BY <1>2, Zenon DEF SgResume, SgInv, SgPlaced, SgAt, SgFlags, SgHolds, SgRuns
<1>5. Sorted(sgT.pending, Len(sgT.pending), Taken(sgT), sgDone, sgSent)'
  BY <1>2, SgSame DEF SgResume, SgHolds
<1> QED BY <1>3, <1>4, <1>5 DEF SgInv

(* The sigret call keeps the invariant: in user code a thread that is in  *)
(* a signal is in its handler.                                            *)
LEMMA SgSigretStep ==
  ASSUME SgType, SgInv, Sigret
  PROVE  SgType' /\ SgInv'
<1> DEFINE place == IF sgT.insignal THEN "leaving" ELSE "sys"
<1>0. place \in SgPlaces
  BY DEF SgPlaces
<1>1. sgT' = [SgGoto(sgT, place) EXCEPT !.busy = @ + 1]
  BY DEF Sigret
<1> HIDE DEF place
<1>2. /\ sgT' \in SgRecords(Seq(SgInfos), SgInfos \union {<<>>})
      /\ SgAt(sgT', place, sgT.at.in) /\ SgFlags(sgT', sgT.aux, sgT.insignal, sgT.swapped)
      /\ SgHolds(sgT', sgT.pending, sgT.info)
  BY <1>0, <1>1, SgTypes, SgCounted, Zenon
<1>3. SgType'
  BY <1>2, SgThreadsAre DEF Sigret, SgType
<1>4. sgBroker = <<>>
  BY DEF Sigret, SgInv, SgPlaced, SgRuns
<1>5. sgBroker' = IF sgT.insignal THEN <<"exit">> ELSE <<>>
  BY <1>4, SgBrokerFacts DEF Sigret
<1>6. SgPlaced(sgT, sgBroker)'
  <2>1. SgPlaced(sgT, sgBroker) /\ sgT.at.pc = "user"
    BY DEF SgInv, Sigret
  <2>2. CASE sgT.insignal
    <3>1. sgBroker' = <<"exit">> /\ place = "leaving"
      BY <1>5, <2>2 DEF place
    <3> QED BY ONLY <1>2, <1>4, <2>1, <2>2, <3>1, SgBrokerFacts DEF SgPlaced, SgAt, SgFlags, SgHolds
  <2>3. CASE ~sgT.insignal
    <3>1. sgBroker' = <<>> /\ place = "sys"
      BY <1>5, <2>3 DEF place
    <3> QED BY ONLY <1>2, <1>4, <2>1, <2>3, <3>1, SgBrokerFacts DEF SgPlaced, SgAt, SgFlags, SgHolds
  <2> QED BY <2>2, <2>3
<1>7. Sorted(sgT.pending, Len(sgT.pending), Taken(sgT), sgDone, sgSent)'
  BY <1>2, SgSame DEF Sigret, SgHolds
<1> QED BY <1>3, <1>6, <1>7 DEF SgInv

(* A signal that must wait joins the others.                                *)
LEMMA SgWaitStep ==
  ASSUME SgType, SgInv, SgRuns, NEW id \in SgIds, sgT' = SgPush(sgT, <<id, sgSent + 1>>), sgSent' = sgSent + 1,
         sgBroker' = sgBroker, sgDone' = sgDone, sgHung' = sgHung
  PROVE  SgType' /\ SgInv'
<1> DEFINE x == <<id, sgSent + 1>>   p == Append(sgT.pending, x)
<1>1. sgSent + 1 \in Nat /\ sgSent \in Nat
  BY DEF SgType
<1>2. x \in SgInfos /\ x[2] = sgSent + 1
  BY <1>1, SgInfoFacts
<1>3. sgT.pending \in Seq(SgInfos)
  BY SgTypes
<1>4. sgT' = [sgT EXCEPT !.pending = p]
  BY DEF SgPush
<1> HIDE DEF x
<1>5. /\ p \in Seq(SgInfos) /\ Len(sgT.pending) \in Nat /\ Len(p) = Len(sgT.pending) + 1
      /\ \A i \in 1 .. Len(sgT.pending) : p[i] = sgT.pending[i]
      /\ p[Len(sgT.pending) + 1] = x
  BY <1>2, <1>3, SgAppend
<1> HIDE DEF p
<1>6. /\ sgT' \in SgRecords(Seq(SgInfos), SgInfos \union {<<>>})
      /\ SgAt(sgT', sgT.at.pc, sgT.at.in) /\ SgFlags(sgT', sgT.aux, sgT.insignal, sgT.swapped)
      /\ SgHolds(sgT', p, sgT.info)
  <2>1. p \in Seq(SgInfos) /\ sgT \in SgRecords(Seq(SgInfos), SgInfos \union {<<>>})
    BY <1>5, SgTypes
  <2> QED BY ONLY <1>4, <2>1, SgPushed, Zenon
<1>7. SgType'
  BY <1>1, <1>6, SgThreadsAre DEF SgType
<1>8. SgPlaced(sgT, sgBroker)'
  BY <1>6, Zenon DEF SgInv, SgPlaced, SgAt, SgFlags, SgHolds, SgRuns
<1>9. Sorted(sgT.pending, Len(sgT.pending), Taken(sgT), sgDone, sgSent)
  BY DEF SgInv, SgRuns
<1>10. Taken(sgT)' = Taken(sgT) /\ sgT'.pending = p
  BY <1>6, Zenon DEF Taken, SgHolds
<1>11. p[Len(sgT.pending) + 1][2] = sgSent + 1
  BY <1>2, <1>5
<1>12. Sorted(p, Len(sgT.pending) + 1, Taken(sgT), sgDone, sgSent + 1)
  BY <1>1, <1>5, <1>9, <1>11, SortedSend, Zenon
<1>13. Sorted(sgT.pending, Len(sgT.pending), Taken(sgT), sgDone, sgSent)'
  <2>1. Sorted(p, Len(p), Taken(sgT), sgDone, sgSent')
    BY <1>5, <1>12
  <2>2. Sorted(sgT'.pending, Len(sgT'.pending), Taken(sgT)', sgDone', sgSent')
    BY ONLY <2>1, <1>10, sgDone' = sgDone DEF Sorted
  <2> QED BY ONLY <2>2, Zenon DEF Sorted
<1> QED BY <1>7, <1>8, <1>13 DEF SgInv

(* A signal handled by another thread at once.                              *)
LEMMA SgForeignStep ==
  ASSUME SgType, SgInv, SgRuns, NEW id \in SgIds, HandleForeign(sgT, <<id, sgSent + 1>>), sgSent' = sgSent + 1,
         sgBroker' = sgBroker
  PROVE  SgType' /\ SgInv'
<1> DEFINE action == sgActions[<<id, sgSent + 1>>[1]]
<1>1. sgSent + 1 \in Nat /\ sgSent \in Nat
  BY DEF SgType
<1>2. /\ sgT' = IF Fatal(action) THEN SgGoto(sgT, "dead") ELSE sgT
      /\ sgHung' = (action = "user")
      /\ sgDone' = IF action = "user" THEN sgDone ELSE sgDone \cup {sgSent + 1}
  BY SMTT(30) DEF HandleForeign
<1> HIDE DEF action
<1>3. CASE Fatal(action)
  <2>1. "dead" \in SgPlaces
    BY DEF SgPlaces
  <2>2. sgT' \in SgRecords(Seq(SgInfos), SgInfos \union {<<>>}) /\ SgAt(sgT', "dead", sgT.at.in)
    BY <1>2, <1>3, <2>1, SgTypes, SgMoved, Zenon
  <2>3. sgHung' \in BOOLEAN
    BY <1>2
  <2> QED BY <1>1, <2>2, <2>3, SgThreadsAre DEF SgType, SgInv, SgPlaced, SgAt
<1>4. CASE ~Fatal(action)
  <2>1. sgT' = sgT
    BY <1>2, <1>4
  <2>2. SgType'
    BY <1>1, <1>2, <2>1, SMTT(30) DEF SgType
  <2>3. SgPlaced(sgT, sgBroker)'
    BY <2>1 DEF SgInv, SgPlaced
  <2>4. CASE action = "user"
    BY <1>2, <2>2, <2>3, <2>4, Zenon DEF SgInv
  <2>5. CASE action # "user"
    <3>1. sgDone' = sgDone \cup {sgSent + 1}
      BY <1>2, <2>5
    <3>2. Len(sgT.pending) \in Nat
      BY SgTypes
    <3>3. Sorted(sgT.pending, Len(sgT.pending), Taken(sgT), sgDone, sgSent)
      BY DEF SgInv, SgRuns
    <3>4. Sorted(sgT.pending, Len(sgT.pending), Taken(sgT), sgDone \cup {sgSent + 1}, sgSent + 1)
      BY <1>1, <3>2, <3>3, SortedSendDone, Zenon
    <3>5. Sorted(sgT.pending, Len(sgT.pending), Taken(sgT), sgDone, sgSent)'
      BY ONLY <2>1, <3>1, <3>4, sgSent' = sgSent + 1 DEF Sorted, Taken
    <3> QED BY <2>2, <2>3, <3>5 DEF SgInv
  <2> QED BY <2>4, <2>5
<1> QED BY <1>3, <1>4

(* The last of the waiting signals taken off.                               *)
LEMMA SgTake ==
  ASSUME SgType, SgInv, SgRuns, sgT.info = <<>>, sgT.pending # <<>>
  PROVE  LET p == SubSeq(sgT.pending, 1, Len(sgT.pending) - 1)
             x == sgT.pending[Len(sgT.pending)]
         IN  p \in Seq(SgInfos) /\ Len(p) \in Nat /\ x \in SgInfos /\ Sorted(p, Len(p), {x[2]}, sgDone, sgSent)
<1> DEFINE p == SubSeq(sgT.pending, 1, Len(sgT.pending) - 1)   x == sgT.pending[Len(sgT.pending)]
<1>1. sgT.pending \in Seq(SgInfos)
  BY SgTypes
<1>2. /\ Len(sgT.pending) \in Nat /\ Len(sgT.pending) > 0 /\ x \in SgInfos /\ p \in Seq(SgInfos)
      /\ Len(p) = Len(sgT.pending) - 1
      /\ \A i \in 1 .. Len(sgT.pending) - 1 : p[i] = sgT.pending[i]
  BY <1>1, SgFront
<1>3. Sorted(sgT.pending, Len(sgT.pending), {}, sgDone, sgSent)
  BY DEF SgInv, SgRuns, Taken
<1>4. sgSent \in Nat
  BY DEF SgType
<1>5. \A i \in 1 .. Len(sgT.pending) - 1 : p[i] = sgT.pending[i]
  BY <1>2
<1> HIDE DEF p
<1>6. Sorted(p, Len(sgT.pending) - 1, {sgT.pending[Len(sgT.pending)][2]}, sgDone, sgSent)
  BY <1>2, <1>3, <1>4, <1>5, SortedPop, Zenon
<1>7. Len(p) \in Nat
  BY <1>2
<1>8. Sorted(p, Len(p), {x[2]}, sgDone, sgSent)
  BY <1>2, <1>6
<1> QED BY <1>2, <1>7, <1>8, Zenon DEF p

(* syscall_done() keeps the invariant: the signal it takes is in hand and *)
(* no longer waits.                                                       *)
LEMMA SgDoneStep ==
  ASSUME SgType, SgInv, SyscallDone
  PROVE  SgType' /\ SgInv'
<1>0. "user" \in SgPlaces /\ "handle" \in SgPlaces
  BY DEF SgPlaces
<1>1. SgPlaced(sgT, sgBroker) /\ sgT.at.pc = "sys" /\ SgRuns
  BY DEF SyscallDone, SgInv
<1>2. sgT.info = <<>> /\ sgBroker = <<>>
  BY <1>1 DEF SgPlaced
<1> DEFINE t == [sgT EXCEPT !.busy = @ - 1]
<1>3. t.pending = sgT.pending
  <2>1. sgT \in SgRecords(Seq(SgInfos), SgInfos \union {<<>>})
    BY SgTypes
  <2> QED BY <2>1 DEF SgRecords
<1>4. CASE sgT.pending = <<>>
  <2>1. sgT' = SgGoto(t, "user")
    BY <1>3, <1>4 DEF SyscallDone
  <2>2. /\ sgT' \in SgRecords(Seq(SgInfos), SgInfos \union {<<>>})
        /\ SgAt(sgT', "user", sgT.at.in) /\ SgFlags(sgT', sgT.aux, sgT.insignal, sgT.swapped)
        /\ SgHolds(sgT', sgT.pending, sgT.info)
    BY <1>0, <2>1, SgTypes, SgUncounted, Zenon
  <2>3. SgType'
    BY <2>2, SgThreadsAre DEF SyscallDone, SgType
  <2>4. SgPlaced(sgT, sgBroker)'
    BY <1>1, <2>2 DEF SyscallDone, SgPlaced, SgAt, SgFlags, SgHolds
  <2>5. Sorted(sgT.pending, Len(sgT.pending), Taken(sgT), sgDone, sgSent)'
    BY <2>2, SgSame DEF SyscallDone, SgHolds
  <2> QED BY <2>3, <2>4, <2>5 DEF SgInv
<1>5. CASE sgT.pending # <<>>
  <2> DEFINE p == SubSeq(sgT.pending, 1, Len(sgT.pending) - 1)   x == sgT.pending[Len(sgT.pending)]
  <2>1. p \in Seq(SgInfos) /\ Len(p) \in Nat /\ x \in SgInfos /\ Sorted(p, Len(p), {x[2]}, sgDone, sgSent)
    BY <1>1, <1>2, <1>5, SgTake
  <2>2. sgT' = PopLast(t)
    BY <1>3, <1>5 DEF SyscallDone
  <2>3. SgGoto(t, "handle").pending = sgT.pending
    <3>1. sgT \in SgRecords(Seq(SgInfos), SgInfos \union {<<>>})
      BY SgTypes
    <3>2. SgHolds(SgGoto([sgT EXCEPT !.busy = @ - 1], "handle"), sgT.pending, sgT.info)
      BY <1>0, <3>1, SgUncounted, Zenon
    <3> QED BY <3>2 DEF SgHolds
  <2>4. sgT' = [SgGoto(t, "handle") EXCEPT !.info = x, !.pending = p]
    BY <1>3, <2>2, <2>3, Zenon DEF PopLast
  <2> HIDE DEF p, x
  <2>5. x \in SgInfos \union {<<>>} /\ x # <<>>
    BY <2>1, SgInfoFacts
  <2>6. /\ sgT' \in SgRecords(Seq(SgInfos), SgInfos \union {<<>>})
        /\ SgAt(sgT', "handle", sgT.at.in) /\ SgFlags(sgT', sgT.aux, sgT.insignal, sgT.swapped)
        /\ SgHolds(sgT', p, x)
    BY <1>0, <2>1, <2>4, <2>5, SgTypes, SgPopped, Zenon
  <2>7. SgType'
    BY <2>6, SgThreadsAre DEF SyscallDone, SgType
  <2>8. SgPlaced(sgT, sgBroker)'
    <3>1. sgBroker' = sgBroker
      BY DEF SyscallDone
    <3> QED BY ONLY <1>1, <2>5, <2>6, <3>1 DEF SgPlaced, SgAt, SgFlags, SgHolds
  <2>9. sgT'.pending = p /\ Taken(sgT)' = {x[2]}
    BY <2>5, <2>6 DEF Taken, SgHolds
  <2>10. sgDone' = sgDone /\ sgSent' = sgSent
    BY DEF SyscallDone
  <2>11. Sorted(sgT.pending, Len(sgT.pending), Taken(sgT), sgDone, sgSent)'
    <3>1. Sorted(sgT'.pending, Len(sgT'.pending), Taken(sgT)', sgDone', sgSent')
      BY ONLY <2>1, <2>9, <2>10 DEF Sorted
    <3> QED BY ONLY <3>1 DEF Sorted
  <2> QED BY <2>7, <2>8, <2>11 DEF SgInv
<1> QED BY <1>4, <1>5

(* signal_enter() keeps the invariant: what it saves is the point at      *)
(* which enterSignal() waits.                                             *)
LEMMA SgEnterStep ==
  ASSUME SgType, SgInv, SignalEnter
  PROVE  SgType' /\ SgInv'
<1>1. SgPlaced(sgT, sgBroker) /\ SgRuns /\ sgBroker # <<>> /\ Head(sgBroker) = "enter"
  BY DEF SignalEnter, SgInv
<1>2. sgBroker = <<"enter">>
  <2>1. sgBroker \in {<<>>, <<"enter">>, <<"exit">>}
    BY <1>1 DEF SgPlaced, SgRuns
  <2>2. sgBroker # <<"exit">>
    BY <1>1, SgBrokerFacts
  <2> QED BY <1>1, <2>1, <2>2
<1>3. sgT.at.pc = "entering" /\ sgT.insignal /\ ~sgT.swapped /\ sgT.at.in # "handler" /\ sgT.info # <<>>
  <2>1. sgT.at.pc # "dead"
    BY <1>1 DEF SgRuns
  <2>2. sgT.at.pc = "entering" /\ sgT.insignal
    BY <1>1, <1>2, <2>1, Zenon DEF SgPlaced
  <2>3. sgT.swapped => sgT.at.pc # "entering"
    BY <1>1, <2>1, Zenon DEF SgPlaced
  <2>4. sgT.swapped <=> sgT.at.in = "handler"
    BY <1>1, <2>1, Zenon DEF SgPlaced
  <2>5. sgT.info # <<>>
    BY <1>1, <2>1, <2>2, Zenon DEF SgPlaced
  <2> QED BY <2>2, <2>3, <2>4, <2>5
<1>4. sgBroker' = <<>>
  BY <1>2, SgBrokerFacts DEF SignalEnter
<1>5. <<>> \in SgInfos \union {<<>>} /\ sgT \in SgRecords(Seq(SgInfos), SgInfos \union {<<>>})
  BY SgTypes
<1>6. /\ sgT' \in SgRecords(Seq(SgInfos), SgInfos \union {<<>>})
      /\ SgAt(sgT', "user", "handler") /\ SgFlags(sgT', sgT.at, sgT.insignal, ~sgT.swapped)
      /\ SgHolds(sgT', sgT.pending, <<>>)
  BY <1>5, SgEntered, Zenon DEF SignalEnter
<1>7. SgType'
  BY <1>6, SgThreadsAre DEF SignalEnter, SgType
<1>8. sgT.at = [pc |-> "entering", in |-> "main"]
  <2>1. sgT.at \in SgContexts
    BY SgTypes
  <2> QED BY <1>3, <2>1 DEF SgContexts
<1>9. SgPlaced(sgT, sgBroker)'
  BY ONLY <1>3, <1>4, <1>6, <1>8, SgBrokerFacts, Zenon DEF SgPlaced, SgAt, SgFlags, SgHolds
<1>10. Sorted(sgT.pending, Len(sgT.pending), {sgT.info[2]}, sgDone, sgSent)
  BY <1>1, <1>3 DEF SgInv, SgRuns, Taken
<1>11. sgSent \in Nat /\ Len(sgT.pending) \in Nat
  BY SgTypes
<1>12. Sorted(sgT.pending, Len(sgT.pending), {}, sgDone \union {sgT.info[2]}, sgSent)
  BY <1>10, <1>11, SortedDone, Zenon
<1>13. sgT'.pending = sgT.pending /\ Taken(sgT)' = {} /\ sgDone' = sgDone \union {sgT.info[2]} /\ sgSent' = sgSent
  BY <1>6 DEF Taken, SgHolds, SignalEnter
<1>14. Sorted(sgT.pending, Len(sgT.pending), Taken(sgT), sgDone, sgSent)'
  <2>1. Sorted(sgT'.pending, Len(sgT'.pending), Taken(sgT)', sgDone', sgSent')
    BY ONLY <1>12, <1>13 DEF Sorted
  <2> QED BY ONLY <2>1 DEF Sorted
<1> QED BY <1>7, <1>9, <1>14 DEF SgInv

(* handleSignal() keeps the invariant, whatever the action of the signal. *)
LEMMA SgHandleStep ==
  ASSUME SgType, SgInv, HandleSignal
  PROVE  SgType' /\ SgInv'
<1> DEFINE info == sgT.info   action == sgActions[info[1]]
<1>0. {"dead", "user", "entering"} \subseteq SgPlaces
  BY DEF SgPlaces
<1>1. SgPlaced(sgT, sgBroker) /\ SgRuns /\ sgT.at.pc = "handle" /\ sgSent' = sgSent /\ sgHung' = sgHung
  BY DEF HandleSignal, SgInv
<1>2. info # <<>> /\ sgBroker = <<>> /\ (sgT.insignal => sgT.swapped)
  BY <1>1 DEF SgPlaced
<1>3. /\ sgT \in SgRecords(Seq(SgInfos), SgInfos \union {<<>>}) /\ <<>> \in SgInfos \union {<<>>}
      /\ info \in SgInfos /\ sgSent \in Nat /\ sgT.pending \in Seq(SgInfos) /\ Len(sgT.pending) \in Nat
  BY <1>2, SgTypes
<1>4. Sorted(sgT.pending, Len(sgT.pending), {info[2]}, sgDone, sgSent)
  BY <1>1, <1>2 DEF SgInv, SgRuns, Taken
<1>5. CASE /\ Fatal(action)
           /\ sgT' = SgGoto(sgT, "dead") /\ sgDone' = sgDone \cup {info[2]}
           /\ UNCHANGED sgBroker
  <2>1. sgT' \in SgRecords(Seq(SgInfos), SgInfos \union {<<>>}) /\ SgAt(sgT', "dead", sgT.at.in)
    BY <1>0, <1>3, <1>5, SgMoved, Zenon
  <2> QED BY <1>1, <2>1, SgThreadsAre, Zenon DEF SgType, SgInv, SgPlaced, SgAt
<1>6. CASE /\ action = "ign"
           /\ sgT' = [SgGoto(sgT, "user") EXCEPT !.info = <<>>]
           /\ sgDone' = sgDone \cup {info[2]}
           /\ UNCHANGED sgBroker
  <2>1. /\ sgT' \in SgRecords(Seq(SgInfos), SgInfos \union {<<>>})
        /\ SgAt(sgT', "user", sgT.at.in) /\ SgFlags(sgT', sgT.aux, sgT.insignal, sgT.swapped)
        /\ SgHolds(sgT', sgT.pending, <<>>)
    BY <1>0, <1>3, <1>6, SgDropped, Zenon
  <2>2. SgType'
    BY <1>1, <2>1, SgThreadsAre DEF SgType
  <2>3. SgPlaced(sgT, sgBroker)'
    BY ONLY <1>1, <1>2, <2>1, <1>6, SgBrokerFacts DEF SgPlaced, SgAt, SgFlags, SgHolds
  <2>4. Sorted(sgT.pending, Len(sgT.pending), {}, sgDone \union {info[2]}, sgSent)
    BY <1>3, <1>4, SortedDone, Zenon
  <2>5. sgT'.pending = sgT.pending /\ Taken(sgT)' = {} /\ sgDone' = sgDone \union {info[2]} /\ sgSent' = sgSent
    BY <1>1, <1>6, <2>1 DEF Taken, SgHolds
  <2>6. Sorted(sgT.pending, Len(sgT.pending), Taken(sgT), sgDone, sgSent)'
    <3>1. Sorted(sgT'.pending, Len(sgT'.pending), Taken(sgT)', sgDone', sgSent')
      BY ONLY <2>4, <2>5 DEF Sorted
    <3> QED BY ONLY <3>1 DEF Sorted
  <2> QED BY <2>2, <2>3, <2>6 DEF SgInv
<1>7. CASE /\ action = "user" /\ MayEnter(sgT)
           /\ sgT' = [SgGoto(sgT, "entering") EXCEPT !.insignal = TRUE]
           /\ sgBroker' = Append(sgBroker, "enter")
           /\ UNCHANGED sgDone
  <2>1. /\ sgT' \in SgRecords(Seq(SgInfos), SgInfos \union {<<>>})
        /\ SgAt(sgT', "entering", sgT.at.in) /\ SgFlags(sgT', sgT.aux, TRUE, sgT.swapped)
        /\ SgHolds(sgT', sgT.pending, info)
    BY <1>0, <1>3, <1>7, SgEntering, Zenon
  <2>2. SgType'
    BY <1>1, <2>1, SgThreadsAre DEF SgType
  <2>3. sgBroker' = <<"enter">> /\ ~sgT.insignal
    BY <1>2, <1>7, SgBrokerFacts DEF MayEnter
  <2>4. SgPlaced(sgT, sgBroker)'
    BY ONLY <1>1, <1>2, <2>1, <2>3, SgBrokerFacts DEF SgPlaced, SgAt, SgFlags, SgHolds
  <2>5. Sorted(sgT.pending, Len(sgT.pending), Taken(sgT), sgDone, sgSent)'
    BY <1>1, <1>7, <2>1, SgSame DEF SgHolds
  <2> QED BY <2>2, <2>4, <2>5 DEF SgInv
<1>8. CASE /\ action = "user" /\ ~MayEnter(sgT)
           /\ sgT' = [SgPush(SgGoto(sgT, "user"), info) EXCEPT !.info = <<>>]
           /\ UNCHANGED <<sgBroker, sgDone>>
  <2> DEFINE p == Append(sgT.pending, info)
  <2>1. SgGoto(sgT, "user").pending = sgT.pending
    <3>1. SgHolds(SgGoto(sgT, "user"), sgT.pending, sgT.info)
      BY <1>0, <1>3, SgMoved, Zenon
    <3> QED BY <3>1 DEF SgHolds
  <2>2. sgT' = [[SgGoto(sgT, "user") EXCEPT !.pending = p] EXCEPT !.info = <<>>]
    BY <1>8, <2>1, Zenon DEF SgPush
  <2>3. /\ p \in Seq(SgInfos) /\ Len(p) = Len(sgT.pending) + 1
        /\ \A i \in 1 .. Len(sgT.pending) : p[i] = sgT.pending[i]
        /\ p[Len(sgT.pending) + 1] = info
    BY <1>3, SgAppend
  <2> HIDE DEF p
  <2>4. /\ sgT' \in SgRecords(Seq(SgInfos), SgInfos \union {<<>>})
        /\ SgAt(sgT', "user", sgT.at.in) /\ SgFlags(sgT', sgT.aux, sgT.insignal, sgT.swapped)
        /\ SgHolds(sgT', p, <<>>)
    <3>1. p \in Seq(SgInfos) /\ "user" \in SgPlaces
      BY <1>0, <2>3
    <3> QED BY ONLY <1>3, <3>1, <2>2, SgPutBack, Zenon
  <2>5. SgType'
    BY <1>1, <2>4, SgThreadsAre DEF SgType
  <2>6. SgPlaced(sgT, sgBroker)'
    BY ONLY <1>1, <1>2, <1>8, <2>4, SgBrokerFacts DEF SgPlaced, SgAt, SgFlags, SgHolds
  <2>7. p[Len(sgT.pending) + 1][2] = info[2]
    BY <2>3
  <2>8. Sorted(p, Len(sgT.pending) + 1, {}, sgDone, sgSent)
    BY <1>3, <1>4, <2>3, <2>7, SortedBack, Zenon
  <2>9. sgT'.pending = p /\ Taken(sgT)' = {} /\ sgDone' = sgDone /\ sgSent' = sgSent
    BY <1>1, <1>8, <2>4 DEF Taken, SgHolds
  <2>10. Sorted(sgT.pending, Len(sgT.pending), Taken(sgT), sgDone, sgSent)'
    <3>1. Sorted(p, Len(p), {}, sgDone, sgSent)
      BY <2>3, <2>8
    <3>2. Sorted(sgT'.pending, Len(sgT'.pending), Taken(sgT)', sgDone', sgSent')
      BY ONLY <3>1, <2>9 DEF Sorted
    <3> QED BY ONLY <3>2 DEF Sorted
  <2> QED BY <2>5, <2>6, <2>10 DEF SgInv
<1> HIDE DEF action
<1>9. \/ /\ Fatal(action)
         /\ sgT' = SgGoto(sgT, "dead") /\ sgDone' = sgDone \cup {info[2]}
         /\ UNCHANGED sgBroker
      \/ /\ action = "ign"
         /\ sgT' = [SgGoto(sgT, "user") EXCEPT !.info = <<>>]
         /\ sgDone' = sgDone \cup {info[2]}
         /\ UNCHANGED sgBroker
      \/ /\ action = "user" /\ MayEnter(sgT)
         /\ sgT' = [SgGoto(sgT, "entering") EXCEPT !.insignal = TRUE]
         /\ sgBroker' = Append(sgBroker, "enter")
         /\ UNCHANGED sgDone
      \/ /\ action = "user" /\ ~MayEnter(sgT)
         /\ sgT' = [SgPush(SgGoto(sgT, "user"), info) EXCEPT !.info = <<>>]
         /\ UNCHANGED <<sgBroker, sgDone>>
  BY Zenon DEF HandleSignal, action
<1> QED BY <1>5, <1>6, <1>7, <1>8, <1>9, Zenon

(* signal_exit() keeps the invariant, with a waiting signal to deliver or *)
(* without.                                                               *)
LEMMA SgExitStep ==
  ASSUME SgType, SgInv, SignalExit
  PROVE  SgType' /\ SgInv'
<1> DEFINE t == Returned(sgT)
<1>0. {"dead", "handle"} \subseteq SgPlaces
  BY DEF SgPlaces
<1>1. SgPlaced(sgT, sgBroker) /\ SgRuns /\ sgBroker # <<>> /\ Head(sgBroker) = "exit" /\ sgSent' = sgSent
      /\ sgBroker' = Tail(sgBroker)
  BY DEF SignalExit, SgInv
<1>2. sgBroker = <<"exit">>
  <2>1. sgBroker \in {<<>>, <<"enter">>, <<"exit">>}
    BY <1>1 DEF SgPlaced, SgRuns
  <2>2. sgBroker # <<"enter">>
    BY <1>1, SgBrokerFacts
  <2> QED BY <1>1, <2>1, <2>2
<1>3. sgT.at.pc = "leaving" /\ sgT.swapped /\ sgT.aux = [pc |-> "entering", in |-> "main"] /\ sgT.info = <<>>
  <2>1. sgT.at.pc # "dead"
    BY <1>1 DEF SgRuns
  <2>2. sgT.at.pc = "leaving"
    BY <1>1, <1>2, <2>1, Zenon DEF SgPlaced
  <2>3. sgT.swapped
    BY <1>1, <2>1, <2>2, Zenon DEF SgPlaced
  <2>4. sgT.aux = [pc |-> "entering", in |-> "main"]
    BY <1>1, <2>1, <2>3, Zenon DEF SgPlaced
  <2>5. sgT.info = <<>>
    BY <1>1, <2>1, <2>2 DEF SgPlaced
  <2> QED BY <2>2, <2>3, <2>4, <2>5
<1>4. sgBroker' = <<>>
  BY <1>1, <1>2, SgBrokerFacts
<1>5. <<>> \in SgInfos \union {<<>>} /\ sgT \in SgRecords(Seq(SgInfos), SgInfos \union {<<>>})
  BY SgTypes
<1>6. /\ t \in SgRecords(Seq(SgInfos), SgInfos \union {<<>>})
      /\ t.at = sgT.aux /\ SgFlags(t, sgT.aux, FALSE, ~sgT.swapped) /\ SgHolds(t, sgT.pending, sgT.info)
  BY <1>5, SgLeft, Zenon DEF Returned
<1> HIDE DEF t
<1>7. t.at.pc = "entering" /\ t.at.in = "main"
  BY <1>3, <1>6
<1>8. ASSUME sgT'.at = t.at, sgT'.insignal = FALSE, sgT'.swapped = FALSE, sgT'.info = <<>>
      PROVE  SgPlaced(sgT, sgBroker)'
  BY ONLY <1>4, <1>7, <1>8, SgBrokerFacts, SMTT(30) DEF SgPlaced
<1>9. CASE sgT.pending = <<>> /\ sgT' = t /\ UNCHANGED <<sgActions, sgDone, sgHung>>
  <2>1. SgType'
    BY <1>1, <1>6, <1>9, SgThreadsAre DEF SgType
  <2>2. SgPlaced(sgT, sgBroker)'
    BY <1>3, <1>6, <1>8, <1>9, Zenon DEF SgFlags, SgHolds
  <2>3. Sorted(sgT.pending, Len(sgT.pending), Taken(sgT), sgDone, sgSent)'
    BY <1>1, <1>6, <1>9, SgSame DEF SgHolds
  <2> QED BY <2>1, <2>2, <2>3 DEF SgInv
<1>10. CASE /\ sgT.pending # <<>>
            /\ HandleForeign([PopLast(t) EXCEPT !.at = t.at, !.info = <<>>], PopLast(t).info)
  <2> DEFINE p == SubSeq(sgT.pending, 1, Len(sgT.pending) - 1)   x == sgT.pending[Len(sgT.pending)]
             v == [PopLast(t) EXCEPT !.at = t.at, !.info = <<>>]
  <2>1. p \in Seq(SgInfos) /\ Len(p) \in Nat /\ x \in SgInfos /\ Sorted(p, Len(p), {x[2]}, sgDone, sgSent)
    BY <1>1, <1>3, <1>10, SgTake
  <2>2. t.pending = sgT.pending /\ SgGoto(t, "handle").pending = sgT.pending
    <3>1. SgHolds(SgGoto(t, "handle"), t.pending, t.info)
      BY <1>0, <1>6, SgMoved, Zenon
    <3> QED BY <1>6, <3>1 DEF SgHolds
  <2>3. PopLast(t) = [SgGoto(t, "handle") EXCEPT !.info = x, !.pending = p]
    BY <2>2, Zenon DEF PopLast
  <2> HIDE DEF p, x
  <2>4. x \in SgInfos \union {<<>>} /\ "handle" \in SgPlaces
    BY <1>0, <2>1
  <2>5. PopLast(t).info = x
    <3>1. SgGoto(t, "handle") \in SgRecords(Seq(SgInfos), SgInfos \union {<<>>})
      BY <1>6, <2>4, SgMoved, Zenon
    <3> QED BY <2>3, <3>1 DEF SgRecords
  <2>6. /\ v \in SgRecords(Seq(SgInfos), SgInfos \union {<<>>})
        /\ v.at = t.at /\ SgFlags(v, t.aux, t.insignal, t.swapped) /\ SgHolds(v, p, <<>>)
    <3>1. v = [[SgGoto(t, "handle") EXCEPT !.info = x, !.pending = p] EXCEPT !.at = t.at, !.info = <<>>]
      BY <2>3
    <3>2. /\ t \in SgRecords(Seq(SgInfos), SgInfos \union {<<>>}) /\ <<>> \in SgInfos \union {<<>>}
          /\ p \in Seq(SgInfos) /\ x \in SgInfos \union {<<>>} /\ "handle" \in SgPlaces
      BY <1>5, <1>6, <2>1, <2>4
    <3> HIDE DEF v
    <3> DEFINE S == Seq(SgInfos)   I == SgInfos \union {<<>>}
    <3>3. t \in SgRecords(S, I) /\ <<>> \in I /\ p \in S /\ x \in I
      BY <3>2
    <3> HIDE DEF S, I
    <3>4. v \in SgRecords(S, I) /\ v.at = t.at
        /\ SgFlags(v, t.aux, t.insignal, t.swapped) /\ SgHolds(v, p, <<>>)
      BY ONLY <3>1, <3>3, Zenon DEF SgRecords, SgContexts, SgGoto, SgAt, SgFlags, SgHolds, SgPlaces
    <3> QED BY <3>4 DEF S, I
  <2>7. HandleForeign(v, x)
    BY <1>10, <2>5
  <2> HIDE DEF v
  <2> DEFINE action == sgActions[x[1]]
  <2>8. /\ sgT' = IF Fatal(action) THEN SgGoto(v, "dead") ELSE v
        /\ sgHung' = (action = "user")
        /\ sgDone' = IF action = "user" THEN sgDone ELSE sgDone \cup {x[2]}
    BY <2>7 DEF HandleForeign
  <2> HIDE DEF action
  <2>9. CASE Fatal(action)
    <3>1. sgT' \in SgRecords(Seq(SgInfos), SgInfos \union {<<>>}) /\ SgAt(sgT', "dead", v.at.in)
      BY <1>0, <2>6, <2>8, <2>9, SgMoved, Zenon
    <3>2. sgHung' \in BOOLEAN
      BY <2>8
    <3> QED BY <1>1, <3>1, <3>2, SgThreadsAre, Zenon DEF SgType, SgInv, SgPlaced, SgAt
  <2>10. CASE ~Fatal(action)
    <3>1. sgT' = v
      BY <2>8, <2>10
    <3>2. SgType'
      BY <1>1, <2>6, <2>8, <3>1, SgThreadsAre DEF SgType
    <3>3. SgPlaced(sgT, sgBroker)'
      BY <1>3, <1>6, <1>8, <2>6, <3>1, Zenon DEF SgFlags, SgHolds
    <3>4. CASE action = "user"
      BY <2>8, <3>2, <3>3, <3>4, Zenon DEF SgInv
    <3>5. CASE action # "user"
      <4>1. Sorted(p, Len(p), {}, sgDone \union {x[2]}, sgSent)
        <5>1. sgSent \in Nat
          BY SgTypes
        <5> QED BY <2>1, <5>1, SortedDone, Zenon
      <4>2. sgT'.pending = p /\ Taken(sgT)' = {} /\ sgDone' = sgDone \union {x[2]} /\ sgSent' = sgSent
        BY <1>1, <2>6, <2>8, <3>1, <3>5 DEF Taken, SgHolds
      <4>3. Sorted(sgT.pending, Len(sgT.pending), Taken(sgT), sgDone, sgSent)'
        <5>1. Sorted(sgT'.pending, Len(sgT'.pending), Taken(sgT)', sgDone', sgSent')
          BY ONLY <4>1, <4>2 DEF Sorted
        <5> QED BY ONLY <5>1 DEF Sorted
      <4> QED BY <3>2, <3>3, <4>3 DEF SgInv
    <3> QED BY <3>4, <3>5
  <2> QED BY <2>9, <2>10
<1>11. \/ sgT.pending = <<>> /\ sgT' = t /\ UNCHANGED <<sgActions, sgDone, sgHung>>
       \/ /\ sgT.pending # <<>>
          /\ HandleForeign([PopLast(t) EXCEPT !.at = t.at, !.info = <<>>], PopLast(t).info)
  BY Zenon DEF SignalExit, t
<1> QED BY <1>9, <1>10, <1>11, Zenon

(* A thread begins with no signal and in its own program.                 *)
LEMMA SgInitInv == SgInit => SgType /\ SgInv
<1> SUFFICES ASSUME SgInit PROVE SgType /\ SgInv
  OBVIOUS
<1>1. SgType
  <2>1. Context \in SgContexts
    BY DEF SgContexts, SgPlaces, Context
  <2>2. <<>> \in Seq(SgInfos) /\ <<>> \in SgInfos \union {<<>>}
    OBVIOUS
  <2> DEFINE S == Seq(SgInfos)   I == SgInfos \union {<<>>}
  <2>3. <<>> \in S /\ <<>> \in I
    BY <2>2
  <2> HIDE DEF S, I
  <2>4. sgT \in SgRecords(S, I)
    BY <2>1, <2>3 DEF SgInit, SgRecords
  <2> QED BY <2>4, SgThreadsAre, Zenon DEF SgInit, SgType, S, I
<1>2. SgPlaced(sgT, sgBroker)
  BY SgBrokerFacts DEF SgInit, SgPlaced, Context
<1>3. sgT.pending = <<>> /\ Len(sgT.pending) = 0 /\ Taken(sgT) = {} /\ sgDone = {} /\ sgSent = 0
  BY DEF SgInit, Taken
<1>4. Sorted(sgT.pending, 0, {}, {}, 0)
  BY DEF Sorted
<1> QED BY <1>1, <1>2, <1>3, <1>4 DEF SgInv

(* Every step keeps the invariant of the signals.                         *)
LEMMA SgStepInv == SgType /\ SgInv /\ [SgNext]_sgVars => (SgType /\ SgInv)'
<1> SUFFICES ASSUME SgType, SgInv, [SgNext]_sgVars PROVE SgType' /\ SgInv'
  OBVIOUS
<1>1. ASSUME NEW id \in SgIds, SignalSelf(id) PROVE SgType' /\ SgInv'
  BY <1>1, SgWaitStep DEF SignalSelf
<1>2. ASSUME NEW id \in SgIds, SignalOther(id) PROVE SgType' /\ SgInv'
  BY <1>2, SgWaitStep, SgForeignStep DEF SignalOther
<1>3. ASSUME NEW id \in SgIds, NEW a \in {"user", "dfl", "ign"}, Sigaction(id, a) PROVE SgType' /\ SgInv'
  BY <1>3, SgSigactionStep DEF Sigaction
<1>4. CASE UNCHANGED sgVars
  BY <1>4, SgSigactionStep DEF sgVars
<1> QED
  BY <1>1, <1>2, <1>3, <1>4, SgPrepareStep, SgDoneStep, SgHandleStep, SgSigretStep, SgResumeStep, SgEnterStep,
     SgExitStep, Zenon DEF SgNext

(* Signals that are each in one place are counted once, and a thread      *)
(* whose stack is the other one is in its handler.                        *)
LEMMA SgInvImplies == SgType /\ SgInv => SignalsHandled
<1> SUFFICES ASSUME SgType, SgInv PROVE SignalsHandled
  OBVIOUS
<1>1. HandlerReturns
  BY SMTT(30) DEF SgInv, SgPlaced, HandlerReturns
<1>2. ASSUME sgT.at.pc # "dead", ~sgHung, NEW n \in 1 .. sgSent
      PROVE  LET waiting == {i \in DOMAIN sgT.pending : sgT.pending[i][2] = n}
                 taken   == sgT.info # <<>> /\ sgT.info[2] = n
                 done    == n \in sgDone
             IN  \/ (\E i \in waiting : waiting = {i}) /\ ~taken /\ ~done
                 \/ waiting = {} /\ taken /\ ~done
                 \/ waiting = {} /\ ~taken /\ done
  <2>1. DOMAIN sgT.pending = 1 .. Len(sgT.pending) /\ Len(sgT.pending) \in Nat /\ sgSent \in Nat
    BY SgTypes
  <2>2. Sorted(sgT.pending, Len(sgT.pending), Taken(sgT), sgDone, sgSent)
    BY <1>2 DEF SgInv
  <2> DEFINE W == {i \in 1 .. Len(sgT.pending) : sgT.pending[i][2] = n}
  <2>3. \/ (\E i \in W : W = {i}) /\ n \notin Taken(sgT) /\ n \notin sgDone
        \/ W = {} /\ n \in Taken(sgT) /\ n \notin sgDone
        \/ W = {} /\ n \notin Taken(sgT) /\ n \in sgDone
    BY <1>2, <2>1, <2>2, SortedOnce, SMTT(30)
  <2>4. (n \in Taken(sgT)) <=> (sgT.info # <<>> /\ sgT.info[2] = n)
    BY DEF Taken
  <2> QED BY <2>1, <2>3, <2>4, Zenon
<1>3. SignalsKept
  BY <1>2, Zenon DEF SignalsKept
<1> QED BY <1>1, <1>3 DEF SignalsHandled

(* A signal that was accepted is handled once, and its handler returns to *)
(* what it interrupted: for every set of signals and any number of them   *)
(* (ipc/thread.cpp:45-156, proc/thread.cpp:336-348).                      *)
THEOREM SignalsCorrect == SgSpec => []SignalsHandled
<1>1. SgSpec => [](SgType /\ SgInv)
  BY SgInitInv, SgStepInv, PTL DEF SgSpec
<1> QED BY <1>1, SgInvImplies, PTL
=============================================================================
