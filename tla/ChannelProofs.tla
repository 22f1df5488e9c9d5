---------------------------- MODULE ChannelProofs ---------------------------
(* Proofs about two ways by which data passes from one to another: the     *)
(* bytes of a CircularBuffer from thread to thread, and the packets of Smp *)
(* from processor to processor.  They hold for any size of the buffer and  *)
(* any number of threads and processors.                                   *)
EXTENDS CircularBuffer, Smp, Sequences, TLAPS

-----------------------------------------------------------------------------
(* CircularBuffer.  Together with TypeOK the three invariants CountExact,   *)
(* DataInOrder and WaitersCannotGoOn are inductive: a copy only needs to    *)
(* know how many bytes are in the buffer, where they are, and that a        *)
(* raise() leaves nobody on the queue.  The refinement of ByteFifo follows  *)
(* from them: a copy in appends, a copy out takes from the front, a resize  *)
(* empties, and every other step stutters.                                  *)

(* The bytes between the two positions, without the wrap-around            *)
Held(r, w) == IF w >= r THEN w - r ELSE w - r + Size

Index == 0..(Size - 1)

IInv == TypeOK /\ CountExact /\ DataInOrder /\ WaitersCannotGoOn

(* The arithmetic of findDistance(): what the four availability functions  *)
(* return when both positions index the buffer.                            *)
LEMMA Available ==
    ASSUME m_readPos \in Index, m_writePos \in Index
    PROVE  /\ readAvailable = Held(m_readPos, m_writePos)
           /\ writeAvailable = Size - 1 - readAvailable
           /\ readAvailableCut = MinOf(Size - m_readPos, readAvailable)
           /\ writeAvailableCut = MinOf(Size - m_writePos, writeAvailable)
           /\ readAvailable \in Index
BY BufferAssumption DEF readAvailable, writeAvailable, readAvailableCut, writeAvailableCut,
     findDistance, Wrapped, MinOf, Held, Index

(* readAvailable() after a step is again the distance of the cursors.      *)
LEMMA AvailableNext ==
    ASSUME m_readPos' \in Index, m_writePos' \in Index
    PROVE  readAvailable' = Held(m_readPos', m_writePos') /\ readAvailable' \in Index
<1>1. ASSUME NEW r \in Index, NEW w \in Index
      PROVE  MinOf(Size, findDistance(r, w)) = Held(r, w) /\ Held(r, w) \in Index
  BY BufferAssumption DEF findDistance, Wrapped, MinOf, Held, Index
<1>2. readAvailable' = MinOf(Size, findDistance(m_readPos', m_writePos'))
  BY DEF readAvailable, findDistance, Wrapped, MinOf
<1> QED BY <1>1, <1>2

(* A step that leaves the positions alone leaves the counts alone.         *)
LEMMA SamePositions ==
    ASSUME UNCHANGED <<m_readPos, m_writePos>>
    PROVE  /\ readAvailable' = readAvailable
           /\ writeAvailable' = writeAvailable
           /\ writeAvailableCut' = writeAvailableCut
BY DEF readAvailable, writeAvailable, writeAvailableCut, findDistance, Wrapped, MinOf

(* A copy moves at least one byte, no more than were asked for, and stays  *)
(* within the bytes, or the room, before the end of the buffer.            *)
LEMMA CopyLength ==
    ASSUME TypeOK, NEW t \in Thread, Copies(t)
    PROVE  /\ clen(t) \in 1..len[t]
           /\ op[t] = "read" => clen(t) <= readAvailable /\ m_readPos + clen(t) <= Size
           /\ op[t] # "read" =>
                clen(t) <= Size - 1 - readAvailable /\ m_writePos + clen(t) <= Size
<1>1. m_readPos \in Index /\ m_writePos \in Index /\ len[t] \in Nat
  BY DEF TypeOK, Index
<1>2. CASE op[t] = "read"
  BY <1>1, <1>2, Available, BufferAssumption DEF Copies, clen, MinOf, Index
<1>3. CASE op[t] # "read"
  BY <1>1, <1>3, Available, BufferAssumption DEF Copies, clen, MinOf, Index
<1> QED BY <1>2, <1>3

(* A position moved by such a copy indexes the buffer again.               *)
LEMMA AdvanceIndex ==
    ASSUME NEW p \in Index, NEW n \in Nat, p + n <= Size
    PROVE  Advance(p, n) \in Index
BY BufferAssumption DEF Advance, Index

(* The constructor establishes the invariant: both cursors at the start.   *)
LEMMA InitIInv == Init => IInv
<1> SUFFICES ASSUME Init PROVE IInv OBVIOUS
<1>1. TypeOK BY BufferAssumption DEF Init, TypeOK
<1>2. readAvailable = 0
  BY BufferAssumption DEF Init, readAvailable, findDistance, Wrapped, MinOf
<1>3. CountExact /\ DataInOrder
  BY <1>2, BufferAssumption DEF Init, CountExact, DataInOrder
<1>4. WaitersCannotGoOn BY DEF Init, WaitersCannotGoOn
<1> QED BY <1>1, <1>3, <1>4 DEF IInv

(* Steps that leave the buffer alone: the contents stay as they are.       *)
LEMMA BufferKept ==
    ASSUME CountExact, DataInOrder, UNCHANGED bufVars
    PROVE  CountExact' /\ DataInOrder'
BY SamePositions DEF CountExact, DataInOrder, bufVars, Cell

(* ... and so does everybody on the queue, if nobody joins it.             *)
LEMMA WaitersKept ==
    ASSUME WaitersCannotGoOn, UNCHANGED bufVars, m_tiddies' \subseteq m_tiddies,
           \A u \in m_tiddies' : pc'[u] = "wait" =>
               pc[u] = "wait" /\ op'[u] = op[u] /\ len'[u] = len[u]
    PROVE  WaitersCannotGoOn'
BY SamePositions DEF WaitersCannotGoOn, bufVars

(* read()'s copy keeps the invariant: the oldest bytes leave, the cursor   *)
(* wraps at the end of the storage.                                        *)
LEMMA CopyOutStep ==
    ASSUME IInv, NEW t \in Thread, CopyOut(t)
    PROVE  IInv'
<1> DEFINE n == clen(t)
<1>1. n \in 1..len[t] /\ n <= readAvailable /\ m_readPos + n <= Size /\ len[t] \in Nat
  BY CopyLength DEF IInv, CopyOut, TypeOK
<1>2. m_readPos \in Index /\ m_writePos \in Index /\ wtotal \in Nat /\ rtotal \in Nat
  BY DEF IInv, TypeOK, Index
<1> HIDE DEF n
<1>3. m_readPos' = Advance(m_readPos, n) /\ m_writePos' = m_writePos /\ rtotal' = rtotal + n
      /\ wtotal' = wtotal /\ m_buffer' = m_buffer /\ m_tiddies' = {}
  BY DEF CopyOut, n, raise
<1>4. m_readPos' \in Index BY <1>1, <1>2, <1>3, AdvanceIndex
<1>5. TypeOK'
  <2>1. len' = [len EXCEPT ![t] = len[t] - n] /\ offset' = [offset EXCEPT ![t] = offset[t] + n]
    BY DEF CopyOut, Count, n
  <2>2. len' \in [Thread -> Nat] /\ offset' \in [Thread -> Nat]
    BY <1>1, <2>1, SMTT(30) DEF IInv, TypeOK
  <2>4. wtotal' \in Nat /\ rtotal' \in Nat BY <1>1, <1>2, <1>3
  <2>5. UNCHANGED <<m_lock, op, pc, quota, interrupted>> /\ m_tiddies' \subseteq Thread
    BY <1>3 DEF CopyOut
  <2> QED BY <1>2, <1>3, <1>4, <2>2, <2>4, <2>5, SMTT(30) DEF IInv, TypeOK, Index
<1>6. readAvailable = Held(m_readPos, m_writePos) /\ readAvailable' = Held(m_readPos', m_writePos)
  BY <1>2, <1>3, <1>4, Available, AvailableNext
<1>7. readAvailable' = readAvailable - n /\ readAvailable' \in Index /\ readAvailable \in Index
  <2>1. readAvailable' \in Index /\ readAvailable \in Index
    BY <1>2, <1>3, <1>4, Available, AvailableNext
  <2>2. Held(Advance(m_readPos, n), m_writePos) = Held(m_readPos, m_writePos) - n
    BY <1>1, <1>2, <1>6, BufferAssumption DEF Held, Advance, Index
  <2> QED BY <1>3, <1>6, <2>1, <2>2
<1>8. CountExact'
  <2>1. rtotal + readAvailable = wtotal BY DEF IInv, CountExact
  <2>2. rtotal' + readAvailable' = wtotal' /\ readAvailable' < Size
    BY <1>1, <1>2, <1>3, <1>7, <2>1, BufferAssumption DEF Index
  <2> QED BY <2>2 DEF CountExact
<1>9. DataInOrder'
  <2> SUFFICES ASSUME NEW k \in 0..(readAvailable' - 1)
               PROVE  m_buffer'[Cell(k)'] = rtotal' + k
    BY DEF DataInOrder
  <2>1. k + n \in 0..(readAvailable - 1) BY <1>1, <1>7 DEF Index
  <2>2. Cell(k)' = Cell(k + n)
    BY <1>1, <1>2, <1>3, <1>7, <2>1, BufferAssumption DEF Cell, Advance, Index
  <2>3. m_buffer[Cell(k + n)] = rtotal + (k + n) BY <2>1 DEF IInv, DataInOrder
  <2> QED BY <1>1, <1>2, <1>3, <2>2, <2>3
<1>10. WaitersCannotGoOn' BY <1>3 DEF WaitersCannotGoOn
<1> QED BY <1>5, <1>8, <1>9, <1>10 DEF IInv

(* write()'s and writeAtomic()'s copy keeps the invariant: it fills free   *)
(* cells only.                                                             *)
LEMMA CopyInStep ==
    ASSUME IInv, NEW t \in Thread, CopyIn(t)
    PROVE  IInv'
<1> DEFINE n == clen(t)
<1>1. n \in 1..len[t] /\ n <= Size - 1 - readAvailable /\ m_writePos + n <= Size /\ len[t] \in Nat
  BY CopyLength DEF IInv, CopyIn, TypeOK
<1>2. m_readPos \in Index /\ m_writePos \in Index /\ wtotal \in Nat /\ rtotal \in Nat
      /\ m_buffer \in [Index -> Nat]
  BY DEF IInv, TypeOK, Index
<1> HIDE DEF n
<1>3. m_writePos' = Advance(m_writePos, n) /\ m_readPos' = m_readPos /\ rtotal' = rtotal
      /\ wtotal' = wtotal + n /\ m_buffer' = Filled(n) /\ m_tiddies' = {}
  BY DEF CopyIn, n, raise
<1>4. m_writePos' \in Index BY <1>1, <1>2, <1>3, AdvanceIndex
<1>5. TypeOK'
  <2>1. len' = [len EXCEPT ![t] = len[t] - n] /\ offset' = [offset EXCEPT ![t] = offset[t] + n]
    BY DEF CopyIn, Count, n
  <2>2. len' \in [Thread -> Nat] /\ offset' \in [Thread -> Nat]
    BY <1>1, <2>1 DEF IInv, TypeOK
  <2>3. m_buffer' \in [Index -> Nat]
    BY <1>1, <1>2, <1>3 DEF Filled, Index
  <2>4. wtotal' \in Nat /\ rtotal' \in Nat BY <1>1, <1>2, <1>3
  <2>5. UNCHANGED <<m_lock, op, pc, quota, interrupted>> /\ m_tiddies' \subseteq Thread
    BY <1>3 DEF CopyIn
  <2> QED BY <1>2, <1>3, <1>4, <2>2, <2>3, <2>4, <2>5, SMTT(30) DEF IInv, TypeOK, Index
<1>6. readAvailable = Held(m_readPos, m_writePos) /\ readAvailable' = Held(m_readPos, m_writePos')
  BY <1>2, <1>3, <1>4, Available, AvailableNext
<1>7. readAvailable' = readAvailable + n /\ readAvailable' \in Index /\ readAvailable \in Index
  <2>1. readAvailable' \in Index /\ readAvailable \in Index
    BY <1>2, <1>3, <1>4, Available, AvailableNext
  <2>2. Held(m_readPos, Advance(m_writePos, n)) = Held(m_readPos, m_writePos) + n
    BY <1>1, <1>2, <1>6, BufferAssumption DEF Held, Advance, Index
  <2> QED BY <1>3, <1>6, <2>1, <2>2
<1>8. CountExact'
  <2>1. rtotal + readAvailable = wtotal BY DEF IInv, CountExact
  <2>2. rtotal' + readAvailable' = wtotal' /\ readAvailable' < Size
    BY <1>1, <1>2, <1>3, <1>7, <2>1, BufferAssumption DEF Index
  <2> QED BY <2>2 DEF CountExact
<1>9. DataInOrder'
  <2> SUFFICES ASSUME NEW k \in 0..(readAvailable' - 1)
               PROVE  m_buffer'[Cell(k)'] = rtotal' + k
    BY DEF DataInOrder
  <2>1. Cell(k)' = Cell(k) /\ Cell(k) \in Index
    BY <1>2, <1>3, <1>7, BufferAssumption DEF Cell, Index
  <2>2. CASE k < readAvailable
    <3>1. Cell(k) \notin m_writePos..(m_writePos + n - 1)
      BY <1>1, <1>2, <1>6, <1>7, <2>2, BufferAssumption DEF Cell, Held, Index
    <3>2. Filled(n)[Cell(k)] = m_buffer[Cell(k)] BY <2>1, <3>1 DEF Filled, Index
    <3> QED BY <1>3, <1>7, <2>1, <2>2, <3>2 DEF IInv, DataInOrder, Index
  <2>3. CASE k >= readAvailable
    <3>1. Cell(k) = m_writePos + (k - readAvailable) /\ k - readAvailable \in 0..(n - 1)
      BY <1>1, <1>2, <1>6, <1>7, <2>3, BufferAssumption, SMTT(30) DEF Cell, Held, Index
    <3>2. Filled(n)[Cell(k)] = wtotal + (k - readAvailable)
      BY <1>1, <1>2, <1>7, <2>1, <3>1 DEF Filled, Index
    <3> QED BY <1>2, <1>3, <1>7, <2>1, <3>2 DEF IInv, CountExact, Index
  <2> QED BY <1>7, <2>2, <2>3 DEF Index
<1>10. WaitersCannotGoOn' BY <1>3 DEF WaitersCannotGoOn
<1> QED BY <1>5, <1>8, <1>9, <1>10 DEF IInv

(* A thread joins the queue only when it cannot go on.                     *)
LEMMA WaitStep ==
    ASSUME IInv, NEW t \in Thread, Wait(t)
    PROVE  IInv'
<1>1. TypeOK' BY DEF IInv, TypeOK, Wait, bufVars, callVars
<1>2. CountExact' /\ DataInOrder' BY BufferKept DEF IInv, Wait
<1>3. m_readPos \in Index /\ m_writePos \in Index /\ len[t] \in Nat
  BY DEF IInv, TypeOK, Index
<1>4. len[t] > 0 /\ ~Copies(t) BY DEF Wait
<1>5. IF op[t] = "read" THEN readAvailable = 0
      ELSE IF op[t] = "write" THEN writeAvailable = 0
      ELSE writeAvailableCut < len[t]
  <2>1. CASE op[t] = "read"
    BY <1>3, <1>4, <2>1, Available, BufferAssumption DEF Copies, clen, MinOf, Index
  <2>2. CASE op[t] # "read"
    BY <1>3, <1>4, <2>2, Available, BufferAssumption DEF Copies, clen, MinOf, Index
  <2> QED BY <2>1, <2>2
<1>6. WaitersCannotGoOn'
  <2> SUFFICES ASSUME NEW u \in m_tiddies', pc'[u] = "wait"
               PROVE  IF op'[u] = "read" THEN readAvailable' = 0
                      ELSE IF op'[u] = "write" THEN writeAvailable' = 0
                      ELSE writeAvailableCut' < len'[u]
    BY DEF WaitersCannotGoOn
  <2>1. op' = op /\ len' = len /\ readAvailable' = readAvailable
        /\ writeAvailable' = writeAvailable /\ writeAvailableCut' = writeAvailableCut
    BY SamePositions DEF Wait, bufVars, callVars
  <2>2. CASE u = t BY <1>5, <2>1, <2>2
  <2>3. CASE u # t
    <3>1. u \in m_tiddies /\ pc[u] = "wait" BY <2>3 DEF Wait, IInv, TypeOK
    <3> QED BY <2>1, <3>1 DEF IInv, WaitersCannotGoOn
  <2> QED BY <2>2, <2>3
<1> QED BY <1>1, <1>2, <1>6 DEF IInv

(* Entering read(), write() or writeAtomic() keeps the invariant.          *)
LEMMA CallStep ==
    ASSUME IInv, NEW t \in Thread, Begin(t)
    PROVE  IInv'
<1>1. PICK o \in {"read", "write", "atomic"}, l \in 1..MaxLen, qt \in {-1, 1} : Call(t, o, l, qt)
  BY DEF Begin
<1>2. TypeOK' BY <1>1, BufferAssumption DEF IInv, TypeOK, Call, bufVars
<1>3. CountExact' /\ DataInOrder' BY <1>1, BufferKept DEF IInv, Call
<1>4. WaitersCannotGoOn'
  BY <1>1, WaitersKept DEF IInv, TypeOK, Call
<1> QED BY <1>2, <1>3, <1>4 DEF IInv

(* So do the steps that leave the buffer alone: taking the lock,           *)
(* returning, waking up, an interruption and its handling.                 *)
LEMMA OtherStep ==
    ASSUME IInv, NEW t \in Thread,
           Acquire(t) \/ Return(t) \/ Resume(t) \/ Interrupt(t) \/ HandleSignal(t)
    PROVE  IInv'
<1> USE DEF IInv
<1>1. TypeOK'
  <2>1. CASE Acquire(t) BY <2>1 DEF TypeOK, Acquire, bufVars, callVars
  <2>2. CASE Return(t) BY <2>2 DEF TypeOK, Return, bufVars
  <2>3. CASE Resume(t) BY <2>3 DEF TypeOK, Resume, bufVars, callVars
  <2>4. CASE Interrupt(t) BY <2>4 DEF TypeOK, Interrupt, bufVars, callVars
  <2>5. CASE HandleSignal(t) BY <2>5 DEF TypeOK, HandleSignal, bufVars, callVars
  <2> QED BY <2>1, <2>2, <2>3, <2>4, <2>5
<1>2. UNCHANGED bufVars /\ m_tiddies' = m_tiddies
  BY DEF Acquire, Return, Resume, Interrupt, HandleSignal
<1>3. CountExact' /\ DataInOrder' BY <1>2, BufferKept
<1>4. WaitersCannotGoOn'
  <2>1. \A u \in m_tiddies' : pc'[u] = "wait" =>
            pc[u] = "wait" /\ op'[u] = op[u] /\ len'[u] = len[u]
    BY DEF TypeOK, Acquire, Return, Resume, Interrupt, HandleSignal, callVars, AtLoop
  <2> QED BY <1>2, <2>1, WaitersKept
<1> QED BY <1>1, <1>3, <1>4

(* resize() keeps the invariant: it empties the buffer.                    *)
LEMMA ResizeStep == IInv /\ resize => IInv'
<1> SUFFICES ASSUME IInv, resize PROVE IInv' OBVIOUS
<1>1. TypeOK' BY BufferAssumption DEF IInv, TypeOK, resize, callVars
<1>2. readAvailable' = 0
  BY BufferAssumption DEF resize, readAvailable, findDistance, Wrapped, MinOf
<1>3. CountExact' BY <1>2, BufferAssumption DEF resize, CountExact, IInv, TypeOK
<1>4. DataInOrder' BY <1>2 DEF DataInOrder
<1>5. WaitersCannotGoOn' BY DEF resize, WaitersCannotGoOn, IInv, TypeOK
<1> QED BY <1>1, <1>3, <1>4, <1>5 DEF IInv

(* The inductive invariant, from which the theorems below follow.          *)
THEOREM Inductive == Spec => []IInv
<1>1. Init => IInv BY InitIInv
<1>2. IInv /\ [Next]_vars => IInv'
  <2> SUFFICES ASSUME IInv, [Next]_vars PROVE IInv' OBVIOUS
  <2>1. CASE UNCHANGED vars
    <3>1. TypeOK' BY <2>1 DEF IInv, TypeOK, vars, bufVars, callVars
    <3>2. CountExact' /\ DataInOrder' BY <2>1, BufferKept DEF IInv, vars
    <3>3. WaitersCannotGoOn' BY <2>1, WaitersKept DEF IInv, vars, callVars
    <3> QED BY <3>1, <3>2, <3>3 DEF IInv
  <2>2. CASE resize BY <2>2, ResizeStep
  <2>3. ASSUME NEW t \in Thread, Step(t) \/ Begin(t) \/ Interrupt(t) \/ HandleSignal(t)
        PROVE  IInv'
    BY <2>3, CopyOutStep, CopyInStep, WaitStep, CallStep, OtherStep DEF Step
  <2> QED BY <2>1, <2>2, <2>3 DEF Next
<1> QED BY <1>1, <1>2, PTL DEF Spec

(* The positions of every buffer always index it, whatever its size.       *)
THEOREM TypeCorrect == Spec => []TypeOK
<1>1. IInv => TypeOK BY DEF IInv
<1> QED BY <1>1, Inductive, PTL

(* readAvailable() is always what was written and not yet read.            *)
THEOREM CountCorrect == Spec => []CountExact
<1>1. IInv => CountExact BY DEF IInv
<1> QED BY <1>1, Inductive, PTL

(* read() delivers the bytes of write() and writeAtomic() in order.        *)
THEOREM OrderKept == Spec => []DataInOrder
<1>1. IInv => DataInOrder BY DEF IInv
<1> QED BY <1>1, Inductive, PTL

(* No thread waits on the event for what is already there.                 *)
THEOREM NoIdleWait == Spec => []WaitersCannotGoOn
<1>1. IInv => WaitersCannotGoOn BY DEF IInv
<1> QED BY <1>1, Inductive, PTL

(* A thread between the start and the return of a call is in read(),       *)
(* write() or writeAtomic().                                               *)
InCall == \A t \in Thread : pc[t] # "out" => op[t] # "none"

(* Every call names its operation, and only the return forgets it.         *)
LEMMA InCallStep == TypeOK /\ InCall /\ [Next]_vars => InCall'
<1> SUFFICES ASSUME TypeOK, InCall, [Next]_vars PROVE InCall' OBVIOUS
<1> USE DEF InCall, TypeOK
<1>1. CASE UNCHANGED <<op, pc>> BY <1>1
<1>2. ASSUME NEW t \in Thread, Step(t) PROVE InCall'
  <2>1. CASE op' = op /\ pc[t] # "out" /\ \E p \in {"acquire", "loop", "wait"} : pc' = [pc EXCEPT ![t] = p]
    BY <2>1
  <2>2. CASE op' = op /\ pc' = pc BY <2>2
  <2>3. CASE Return(t) BY <2>3 DEF Return
  <2>4. AtLoop(t) => pc[t] = "loop" BY DEF AtLoop
  <2> QED BY <1>2, <2>1, <2>2, <2>3, <2>4 DEF Step, Acquire, CopyOut, CopyIn, Wait, Resume
<1>3. ASSUME NEW t \in Thread, Begin(t) PROVE InCall'
  <2> PICK o \in {"read", "write", "atomic"} : \E l \in 1..MaxLen, qt \in {-1, 1} : Call(t, o, l, qt)
    BY <1>3 DEF Begin
  <2> QED BY DEF Call
<1>4. \A t \in Thread : Interrupt(t) \/ HandleSignal(t) => UNCHANGED <<op, pc>>
  BY DEF Interrupt, HandleSignal
<1>5. UNCHANGED vars \/ resize => UNCHANGED <<op, pc>>
  BY DEF vars, resize
<1> QED BY <1>1, <1>2, <1>3, <1>4, <1>5 DEF Next

(* In a buffer that holds a byte at all, a reader and a writer only ever   *)
(* wait for each other when the block of a writeAtomic() does not fit      *)
(* before the end of the buffer: write() and read() never do.              *)
THEOREM WaitAtWrapOnly == ASSUME Size > 1 PROVE Spec => []BothWaitOnlyAtWrap
<1>1. Init => InCall BY DEF Init, InCall
<1>2. IInv => TypeOK BY DEF IInv
<1>3. IInv /\ InCall => BothWaitOnlyAtWrap
  <2> SUFFICES ASSUME IInv, InCall, NEW r \in m_tiddies, NEW w \in m_tiddies,
                      pc[r] = "wait", op[r] = "read", pc[w] = "wait", op[w] # "read"
               PROVE  op[w] = "atomic" /\ (Size - m_writePos < len[w] \/ Size <= len[w])
    BY DEF BothWaitOnlyAtWrap
  <2>1. /\ m_readPos \in Index /\ m_writePos \in Index /\ r \in Thread /\ w \in Thread
        /\ len[w] \in Nat /\ op[w] \in {"none", "read", "write", "atomic"}
    BY DEF IInv, TypeOK, Index
  <2>2. readAvailable = 0 BY DEF IInv, WaitersCannotGoOn
  <2>3. writeAvailable = Size - 1 /\ writeAvailableCut = MinOf(Size - m_writePos, Size - 1)
    BY <2>1, <2>2, Available, BufferAssumption
  <2>4. op[w] = "atomic"
    <3>1. op[w] # "none" BY <2>1 DEF InCall
    <3>2. op[w] # "write" BY <2>3, BufferAssumption DEF IInv, WaitersCannotGoOn
    <3> QED BY <2>1, <3>1, <3>2
  <2>5. writeAvailableCut < len[w] BY <2>4 DEF IInv, WaitersCannotGoOn
  <2> QED BY <2>1, <2>3, <2>4, <2>5, BufferAssumption DEF MinOf, Index
<1>4. Spec => []InCall BY <1>1, <1>2, InCallStep, Inductive, PTL DEF Spec
<1> QED BY <1>3, <1>4, Inductive, PTL
----------------------------------------------------------------------------
(* n bytes in the order they were written, from the a-th on                *)
Run(a, n) == [k \in 1..n |-> a + (k - 1)]
Unread == [k \in 1..readAvailable |-> m_buffer[Cell(k - 1)]]

(* A run is a sequence of its length.                                      *)
LEMMA RunSeq ==
    ASSUME NEW a \in Nat, NEW n \in Nat
    PROVE  Run(a, n) \in Seq(Nat) /\ Len(Run(a, n)) = n
BY DEF Run

(* Taking c bytes from the front of a run leaves the run of the others, and *)
(* a longer run from the same byte on begins with the shorter one.         *)
LEMMA RunSub ==
    ASSUME NEW a \in Nat, NEW n \in Nat, NEW c \in 0..n
    PROVE  /\ SubSeq(Run(a, n), c + 1, n) = Run(a + c, n - c)
           /\ SubSeq(Run(a, n), 1, c) = Run(a, c)
<1>1. SubSeq(Run(a, n), c + 1, n) = [k \in 1..(n - c) |-> Run(a, n)[k + c]]
  BY RunSeq DEF Run
<1>2. SubSeq(Run(a, n), 1, c) = [k \in 1..c |-> Run(a, n)[k]]
  BY RunSeq DEF Run
<1>3. \A k \in 1..(n - c) : Run(a, n)[k + c] = (a + c) + (k - 1)
  BY DEF Run
<1>4. \A k \in 1..c : Run(a, n)[k] = a + (k - 1)
  BY DEF Run
<1> QED BY <1>1, <1>2, <1>3, <1>4 DEF Run

(* What the refinement mapping gives in a state of the invariant           *)
LEMMA UnreadRun == IInv => Unread = Run(rtotal, readAvailable) /\ readAvailable \in Nat
<1> SUFFICES ASSUME IInv
             PROVE  Unread = Run(rtotal, readAvailable) /\ readAvailable \in Nat
  OBVIOUS
<1>1. readAvailable \in Nat
  BY Available, BufferAssumption DEF IInv, TypeOK, Index
<1>2. \A k \in 0..(readAvailable - 1) : m_buffer[Cell(k)] = rtotal + k
  BY DEF IInv, DataInOrder
<1>3. Unread = [k \in 1..readAvailable |-> m_buffer[Cell(k - 1)]]
  BY DEF Unread
<1>4. ASSUME NEW k \in 1..readAvailable PROVE m_buffer[Cell(k - 1)] = rtotal + (k - 1)
  <2>1. k - 1 \in 0..(readAvailable - 1) BY <1>1
  <2> QED BY <1>2, <2>1
<1> QED BY <1>1, <1>3, <1>4 DEF Run

(* After a step the cells to be read are again the run of bytes that       *)
(* follows the last one read.                                              *)
LEMMA UnreadRunNext == IInv' => Unread' = Run(rtotal', readAvailable') /\ readAvailable' \in Nat
<1> SUFFICES ASSUME IInv'
             PROVE  Unread' = Run(rtotal', readAvailable') /\ readAvailable' \in Nat
  OBVIOUS
<1>1. readAvailable' \in Nat
  BY AvailableNext, BufferAssumption DEF IInv, TypeOK, Index
<1>2. \A k \in 0..(readAvailable' - 1) : m_buffer'[Cell(k)'] = rtotal' + k
  BY DEF IInv, DataInOrder
<1>3. Unread' = [k \in 1..readAvailable' |-> m_buffer'[Cell(k - 1)']]
  BY DEF Unread
<1>m. PICK m \in Nat : m = readAvailable' BY <1>1
<1>4. ASSUME NEW k \in 1..m PROVE m_buffer'[Cell(k - 1)'] = rtotal' + (k - 1)
  <2>1. k - 1 \in 0..(m - 1) OBVIOUS
  <2> QED BY <1>m, <1>2, <2>1, Zenon
<1> QED BY <1>m, <1>1, <1>3, <1>4 DEF Run

(* A step of the buffer is a step of the queue, or leaves it alone.        *)
LEMMA FifoStep ==
    ASSUME IInv, IInv', [Next]_vars
    PROVE  [Fifo!Next]_Unread
<1>1. Unread = Run(rtotal, readAvailable) /\ Unread' = Run(rtotal', readAvailable')
  BY UnreadRun, UnreadRunNext
<1>2. /\ rtotal \in Nat /\ wtotal \in Nat /\ rtotal' \in Nat
      /\ readAvailable \in Nat /\ readAvailable' \in Nat
  BY Available, UnreadRun, UnreadRunNext, BufferAssumption, Zenon DEF IInv, TypeOK
<1>m. PICK m \in Nat : m = readAvailable' BY <1>2
<1>3. rtotal + readAvailable = wtotal /\ rtotal' + m = wtotal'
  BY <1>m DEF IInv, CountExact
<1>4. ASSUME UNCHANGED bufVars PROVE Unread' = Unread
  BY <1>1, <1>4, SamePositions DEF bufVars
<1>5. ASSUME NEW t \in Thread, CopyIn(t) PROVE Fifo!Put
  <2>1. rtotal' = rtotal /\ wtotal' = wtotal + clen(t) /\ clen(t) \in Nat \ {0}
    <3>1. clen(t) \in 1..len[t] /\ len[t] \in Nat
      BY <1>5, CopyLength, SMTT(30) DEF CopyIn, IInv, TypeOK
    <3>2. rtotal' = rtotal /\ wtotal' = wtotal + clen(t) BY <1>5, Zenon DEF CopyIn
    <3> QED BY <3>1, <3>2
  <2>2. m \in (readAvailable + 1)..(Size - 1)
    <3>1. m < Size BY <1>m DEF IInv, CountExact
    <3> QED BY <1>2, <1>3, <2>1, <3>1, BufferAssumption
  <2>3. Len(Unread) = readAvailable /\ Len(Unread') = m
    BY <1>m, <1>1, <1>2, RunSeq
  <2>4. SubSeq(Unread', 1, readAvailable) = Unread
    <3>1. readAvailable \in 0..m BY <1>2, <2>2
    <3>2. Unread' = Run(rtotal, m) BY <1>m, <1>1, <2>1
    <3>3. SubSeq(Run(rtotal, m), 1, readAvailable) = Run(rtotal, readAvailable)
      BY <1>2, <3>1, RunSub, Zenon
    <3> QED BY <1>1, <3>2, <3>3
  <2> QED BY <2>2, <2>3, <2>4, Zenon DEF Fifo!Put, Unread
<1>6. ASSUME NEW t \in Thread, CopyOut(t) PROVE Fifo!Take
  <2> DEFINE n == clen(t)
  <2>1. rtotal' = rtotal + n /\ wtotal' = wtotal /\ n \in 1..readAvailable
    <3>1. n \in 1..len[t] /\ len[t] \in Nat /\ n <= readAvailable
      BY <1>6, CopyLength DEF CopyOut, IInv, TypeOK
    <3>2. rtotal' = rtotal + clen(t) /\ wtotal' = wtotal BY <1>6, Zenon DEF CopyOut
    <3> QED BY <1>2, <3>1, <3>2
  <2> HIDE DEF n
  <2>2. m = readAvailable - n BY <1>2, <1>3, <2>1
  <2>3. Len(Unread) = readAvailable BY <1>1, <1>2, RunSeq
  <2>4. Unread' = SubSeq(Unread, n + 1, readAvailable)
    <3>1. Unread' = Run(rtotal + n, m) BY <1>m, <1>1, <2>1
    <3>2. n \in 0..readAvailable BY <1>2, <2>1
    <3> QED BY <1>1, <1>2, <2>2, <3>1, <3>2, RunSub, Zenon
  <2> QED BY <2>1, <2>3, <2>4, Zenon DEF Fifo!Take, Unread
<1>7. CASE resize
  <2>1. m = 0 BY <1>2, <1>3, <1>7 DEF resize
  <2>2. Unread' = <<>> BY <1>m, <1>1, <2>1 DEF Run
  <2> QED BY <2>2 DEF Fifo!Next, Fifo!Reset, Unread
<1>8. CASE UNCHANGED vars BY <1>4, <1>8 DEF vars
<1>9. ASSUME NEW t \in Thread, Step(t) \/ Begin(t) \/ Interrupt(t) \/ HandleSignal(t)
      PROVE  [Fifo!Next]_Unread
  <2>1. CASE CopyIn(t) BY <1>5, <2>1 DEF Fifo!Next
  <2>2. CASE CopyOut(t) BY <1>6, <2>2 DEF Fifo!Next
  <2>3. CASE ~CopyIn(t) /\ ~CopyOut(t)
    <3>1. UNCHANGED bufVars
      BY <1>9, <2>3 DEF Step, Acquire, Return, Wait, Resume, Begin, Call, Interrupt, HandleSignal
    <3> QED BY <1>4, <3>1
  <2> QED BY <2>1, <2>2, <2>3
<1> QED BY <1>7, <1>8, <1>9 DEF Next

(* A CircularBuffer implements a bounded first-in first-out queue of bytes, *)
(* with room for m_size - 1 of them, however many threads use it.          *)
THEOREM Refinement == Spec => ImplementsFifo
<1>1. Init => Fifo!Init
  <2> SUFFICES ASSUME Init PROVE Unread = <<>> BY DEF Fifo!Init, Unread
  <2>1. IInv BY InitIInv
  <2>2. rtotal = 0 /\ wtotal = 0 /\ rtotal + readAvailable = wtotal /\ readAvailable \in Nat
    BY <2>1, UnreadRun DEF Init, IInv, CountExact
  <2>3. readAvailable = 0 BY <2>2
  <2> QED BY <2>1, <2>3, UnreadRun DEF Run
<1>2. IInv /\ IInv' /\ [Next]_vars => [Fifo!Next]_Unread BY FifoStep
<1> QED BY <1>1, <1>2, Inductive, PTL DEF Spec, ImplementsFifo, Fifo!Spec, Unread

-----------------------------------------------------------------------------
(* Smp: one packet at a time, done by those it is for.                     *)

SmTypes == {"inv", "resched", "halt", "none"}

SmPcs == {"idle", "lock", "send", "ack"}
SendRecords == [pc : SmPcs, type : SmTypes, at : Nat, left : Int]
PacketRecords == [from : SmCpus \union {Nobody}, type : SmTypes, ack : BOOLEAN]
IrqRecords == [pending : BOOLEAN, at : {"out", "in", "second"}, type : SmTypes, from : SmCpus \union {Nobody}]

SmType ==
    /\ smCpus \subseteq SmCpus
    /\ smSend \in [SmCpus -> SendRecords]
    /\ smPacket \in [SmCpus -> PacketRecords]
    /\ smIrq \in [SmCpus -> IrqRecords]
    /\ smInts \in [SmCpus -> BOOLEAN] /\ smHalted \in [SmCpus -> BOOLEAN]
    /\ smIppLock \in SmCpus \union {Nobody}
    /\ smOwed \in [SmCpus -> SUBSET SmCpus]

BtType ==
    smBoot \in [id : SmCpus, pc : {"next", "wait"}, params : SmCpus, flag : BOOLEAN, told : SUBSET SmCpus,
                late : BOOLEAN, ap : [SmCpus -> {"off", "started", "params", "final", "ready"}],
                got : [SmCpus -> SmCpus]]

(* The lock's holder is the one that sends.                                 *)
SenderHolds == \A c \in SmCpus : smSend[c].pc \in {"send", "ack"} <=> smIppLock = c

(* A packet that is not acknowledged: its sender waits, and the interrupt   *)
(* is pending or its handler has this packet in hand.                       *)
PacketUnderway(k) ==
    LET c == smPacket[k].from
    IN  /\ c \in SmCpus /\ smSend[c].pc = "ack" /\ smSend[c].at = k /\ smPacket[k].type = smSend[c].type
        /\ \/ smIrq[k].pending /\ (smIrq[k].at = "out" \/ (smIrq[k].at = "second" /\ AckFirst(smIrq[k].type)))
           \/ /\ ~smIrq[k].pending /\ smIrq[k].from = c /\ smIrq[k].type = smPacket[k].type
              /\ \/ smIrq[k].at = "in"
                 \/ smIrq[k].at = "second" /\ ~AckFirst(smIrq[k].type) /\ k \notin smOwed[c]

(* After the acknowledgement at most the second half of a handler is left.  *)
PacketOver(k) ==
    ~smIrq[k].pending /\ (smIrq[k].at = "out" \/ (smIrq[k].at = "second" /\ AckFirst(smIrq[k].type)))

IrqInv == \A k \in SmCpus : IF smPacket[k].ack THEN PacketOver(k) ELSE PacketUnderway(k)

OwedInv ==
    /\ \A c \in SmCpus : smOwed[c] \subseteq smCpus
    /\ \A c \in SmCpus : smSend[c].pc = "lock" => smSend[c].at = 0
    /\ \A c \in SmCpus : smSend[c].pc = "ack" =>
         /\ smSend[c].at \in SmCpus
         /\ (smSend[c].type = "inv" /\ smPacket[smSend[c].at].ack => smSend[c].at \notin smOwed[c])
    /\ DoneBeforeNext

IrqFrom == \A k \in SmCpus : smIrq[k].at # "out" => smIrq[k].from \in SmCpus

PkInv == SenderHolds /\ IrqInv /\ OwedInv /\ IrqFrom

(* Only the processor that is being started is on its way, and the flag is  *)
(* its own.                                                                 *)
BtInv ==
    ~smBoot.late =>
        /\ ReportedIsThere
        /\ \A c \in SmCpus : smBoot.ap[c] \in {"final", "ready"} => c \in smCpus
        /\ \A c \in SmCpus : smBoot.ap[c] \in {"started", "params", "final"} =>
             c = smBoot.id /\ smBoot.params = c /\ smBoot.pc = "wait" /\ ~smBoot.flag
        /\ smBoot.pc = "wait" /\ smBoot.flag => smBoot.ap[smBoot.id] = "ready"

-----------------------------------------------------------------------------
(* The CPUs are numbered from 0.                                          *)
LEMMA SmFacts == LastCpu \in Nat /\ SmCpus = 0 .. LastCpu /\ Nobody \notin SmCpus
<1>1. PICK n \in SmCpus : n \in Nat /\ SmCpus = 0 .. n
  BY SmAssumption
<1>2. n \in SmCpus
  BY <1>1
<1> QED BY <1>1, <1>2 DEF LastCpu, Nobody

(* The steps that start the processors keep what is known of them, and no *)
(* processor that was added goes away.                                    *)
LEMMA BootStep ==
  ASSUME SmType, BtType, BtInv, SmBootNext
  PROVE  BtType' /\ BtInv' /\ smCpus \subseteq smCpus' /\ smCpus' \subseteq SmCpus
<1> USE DEF BtType
<1>1. CASE StartNext
  <2> DEFINE n == smBoot.id + 1
  <2>1. n \in SmCpus
    BY <1>1, SmFacts DEF StartNext
  <2>2. /\ smBoot.pc = "next" /\ smCpus' = smCpus
        /\ smBoot' = [smBoot EXCEPT !.id = n, !.pc = "wait", !.params = n, !.flag = FALSE,
                                    !.ap = [smBoot.ap EXCEPT ![n] = "started"]]
    BY <1>1, Zenon DEF StartNext, SetupTrampoline, Ap
  <2> HIDE DEF n
  <2>3. BtType'
    BY <2>1, <2>2, Zenon
  <2>4. /\ smBoot'.id = n /\ smBoot'.pc = "wait" /\ smBoot'.params = n /\ smBoot'.flag = FALSE
        /\ smBoot'.late = smBoot.late /\ smBoot'.told = smBoot.told /\ smBoot'.got = smBoot.got
        /\ smBoot'.ap[n] = "started" /\ \A c \in SmCpus \ {n} : smBoot'.ap[c] = smBoot.ap[c]
    BY <2>1, <2>2
  <2> QED BY <2>1, <2>2, <2>3, <2>4 DEF BtInv, ReportedIsThere, SmType
<1>2. ASSUME NEW c \in SmCpus, TrampolineRuns(c)
      PROVE  BtType' /\ BtInv' /\ smCpus' = smCpus
  <2>1. /\ smBoot.ap[c] = "started" /\ smCpus' = smCpus
        /\ smBoot' = [smBoot EXCEPT !.ap = [smBoot.ap EXCEPT ![c] = "params"],
                                    !.got = [smBoot.got EXCEPT ![c] = smBoot.params]]
    BY <1>2 DEF TrampolineRuns, Ap
  <2>2. BtType'
    BY <2>1, Zenon
  <2>3. /\ smBoot'.id = smBoot.id /\ smBoot'.pc = smBoot.pc /\ smBoot'.params = smBoot.params
        /\ smBoot'.flag = smBoot.flag /\ smBoot'.late = smBoot.late /\ smBoot'.told = smBoot.told
        /\ smBoot'.got[c] = smBoot.params /\ smBoot'.ap[c] = "params"
        /\ \A d \in SmCpus \ {c} : smBoot'.ap[d] = smBoot.ap[d] /\ smBoot'.got[d] = smBoot.got[d]
    BY <2>1
  <2> QED BY <2>1, <2>2, <2>3 DEF BtInv, ReportedIsThere
<1>3. ASSUME NEW c \in SmCpus, Finalize(c)
      PROVE  BtType' /\ BtInv' /\ smCpus \subseteq smCpus' /\ smCpus' \subseteq SmCpus
  <2>1. /\ smBoot.ap[c] = "params" /\ smCpus' = smCpus \union {smBoot.got[c]}
        /\ smBoot' = [smBoot EXCEPT !.ap = [smBoot.ap EXCEPT ![c] = "final"]]
    BY <1>3 DEF Finalize, Ap
  <2>2. BtType'
    BY <2>1
  <2>3. /\ smBoot'.id = smBoot.id /\ smBoot'.pc = smBoot.pc /\ smBoot'.params = smBoot.params
        /\ smBoot'.flag = smBoot.flag /\ smBoot'.late = smBoot.late /\ smBoot'.told = smBoot.told
        /\ smBoot'.got = smBoot.got /\ smBoot'.ap[c] = "final"
        /\ \A d \in SmCpus \ {c} : smBoot'.ap[d] = smBoot.ap[d]
    BY <2>1
  <2>4. smBoot.got[c] \in SmCpus
    OBVIOUS
  <2>5. smCpus \subseteq smCpus' /\ smCpus' \subseteq SmCpus
    BY <2>1, <2>4 DEF SmType
  <2>6. BtInv'
    <3> SUFFICES ASSUME ~smBoot.late PROVE BtInv'
      BY <2>3 DEF BtInv
    <3>1. smBoot.got[c] = c /\ c \in smCpus'
      BY <2>1 DEF BtInv, ReportedIsThere
    <3>2. ReportedIsThere'
      BY <2>1, <2>3, <2>5 DEF BtInv, ReportedIsThere
    <3>3. \A d \in SmCpus : smBoot'.ap[d] \in {"final", "ready"} => d \in smCpus'
      BY <2>3, <2>5, <3>1 DEF BtInv
    <3> QED BY <2>1, <2>3, <3>2, <3>3 DEF BtInv
  <2> QED BY <2>2, <2>5, <2>6
<1>4. ASSUME NEW c \in SmCpus, SignalReady(c)
      PROVE  BtType' /\ BtInv' /\ smCpus' = smCpus
  <2>1. /\ smBoot.ap[c] = "final" /\ smCpus' = smCpus
        /\ smBoot' = [smBoot EXCEPT !.ap = [smBoot.ap EXCEPT ![c] = "ready"], !.flag = TRUE]
    BY <1>4 DEF SignalReady, Ap
  <2>2. BtType'
    BY <2>1, Zenon
  <2>3. /\ smBoot'.id = smBoot.id /\ smBoot'.pc = smBoot.pc /\ smBoot'.params = smBoot.params
        /\ smBoot'.flag = TRUE /\ smBoot'.late = smBoot.late /\ smBoot'.told = smBoot.told
        /\ smBoot'.got = smBoot.got /\ smBoot'.ap[c] = "ready"
        /\ \A d \in SmCpus \ {c} : smBoot'.ap[d] = smBoot.ap[d]
    BY <2>1
  <2> QED BY <2>1, <2>2, <2>3 DEF BtInv, ReportedIsThere
<1>5. ASSUME NEW timeout \in BOOLEAN, StartReturns(timeout)
      PROVE  BtType' /\ BtInv' /\ smCpus' = smCpus
  <2>1. /\ smBoot.pc = "wait" /\ smCpus' = smCpus
        /\ smBoot' = [smBoot EXCEPT !.pc = "next", !.late = smBoot.late \/ ~smBoot.flag,
                        !.told = IF smBoot.flag THEN smBoot.told \union {smBoot.id} ELSE smBoot.told]
    BY <1>5 DEF StartReturns
  <2>2. BtType'
    BY <2>1, Zenon
  <2>3. /\ smBoot'.id = smBoot.id /\ smBoot'.pc = "next" /\ smBoot'.params = smBoot.params
        /\ smBoot'.flag = smBoot.flag /\ smBoot'.late = (smBoot.late \/ ~smBoot.flag)
        /\ smBoot'.told = (IF smBoot.flag THEN smBoot.told \union {smBoot.id} ELSE smBoot.told)
        /\ smBoot'.got = smBoot.got /\ smBoot'.ap = smBoot.ap
    BY <2>1
  <2> QED BY <2>1, <2>2, <2>3, Zenon DEF BtInv, ReportedIsThere
<1> QED BY <1>1, <1>2, <1>3, <1>4, <1>5 DEF SmBootNext, SmType

-----------------------------------------------------------------------------
(* Packets.                                                                 *)

(* The records the steps make have their types.                           *)
LEMMA RecordSteps ==
  /\ \A r \in SendRecords, p \in SmPcs, n \in Nat :
       /\ [r EXCEPT !.pc = p] \in SendRecords /\ [r EXCEPT !.at = n] \in SendRecords
       /\ [r EXCEPT !.pc = p, !.at = n] \in SendRecords
  /\ \A r \in PacketRecords : [r EXCEPT !.ack = TRUE] \in PacketRecords
  /\ \A r \in IrqRecords :
       /\ [r EXCEPT !.pending = TRUE] \in IrqRecords
       /\ \A p \in {"out", "second"} : [r EXCEPT !.at = p] \in IrqRecords
<1>1. \A r \in SendRecords, p \in SmPcs, n \in Nat :
       /\ [r EXCEPT !.pc = p] \in SendRecords /\ [r EXCEPT !.at = n] \in SendRecords
       /\ [r EXCEPT !.pc = p, !.at = n] \in SendRecords
  BY Zenon DEF SendRecords
<1>2. \A r \in PacketRecords : [r EXCEPT !.ack = TRUE] \in PacketRecords
  BY Zenon DEF PacketRecords
<1>3. \A r \in IrqRecords : [r EXCEPT !.pending = TRUE] \in IrqRecords
  BY Zenon DEF IrqRecords
<1>4. \A r \in IrqRecords : \A p \in {"out", "second"} : [r EXCEPT !.at = p] \in IrqRecords
  BY DEF IrqRecords
<1> QED BY <1>1, <1>2, <1>3, <1>4, Zenon

(* The fields of the records have their types.                            *)
LEMMA FieldTypes ==
  ASSUME SmType, NEW c \in SmCpus
  PROVE  /\ smSend[c] \in SendRecords /\ smSend[c].pc \in SmPcs /\ smSend[c].type \in SmTypes
         /\ smSend[c].at \in Nat /\ smSend[c].at + 1 \in Nat /\ smSend[c].left - 1 \in Int
         /\ smPacket[c] \in PacketRecords /\ smPacket[c].type \in SmTypes /\ smPacket[c].ack \in BOOLEAN
         /\ smPacket[c].from \in SmCpus \union {Nobody}
         /\ smIrq[c] \in IrqRecords
BY DEF SmType, SendRecords, PacketRecords

(* The steps of the packets keep the types.                               *)
LEMMA SmTypeStep ==
  ASSUME SmType, PkInv, SmNext
  PROVE  SmType'
<1> PICK c \in smCpus :
         \/ SmStep(c)
         \/ \E type \in {"inv", "resched"} : Broadcast(c, type) /\ UNCHANGED smInts
         \/ Kpanic(c)
  BY DEF SmNext
<1>0. c \in SmCpus /\ smCpus' = smCpus
  BY DEF SmType, SmNext
<1>1. ASSUME NEW type \in {"inv", "resched", "halt"}, Broadcast(c, type), smInts' \in [SmCpus -> BOOLEAN]
      PROVE  SmType'
  <2>1. [pc |-> "lock", type |-> type, at |-> 0, left |-> smSend[c].left - 1] \in SendRecords
    BY <1>0, FieldTypes DEF SendRecords, SmPcs, SmTypes
  <2> QED BY <1>0, <1>1, <2>1 DEF SmType, Broadcast
<1>2. CASE TakeIppLock(c)
  <2>1. [smSend[c] EXCEPT !.pc = "send"] \in SendRecords
    BY <1>0, FieldTypes, RecordSteps, Zenon DEF SmPcs
  <2> QED BY <1>0, <1>2, <2>1 DEF SmType, TakeIppLock
<1>3. CASE SendPacket(c)
  <2> DEFINE k == smSend[c].at
  <2>1. smIrq' = smIrq \/ (k \in SmCpus /\ smIrq' = [smIrq EXCEPT ![k] = [smIrq[k] EXCEPT !.pending = TRUE]])
    BY <1>3 DEF SendPacket, SmType
  <2>2. smPacket' = smPacket \/ (k \in SmCpus /\ smPacket' = [smPacket EXCEPT ![k] = [from |-> c, type |-> smSend[c].type, ack |-> FALSE]])
    BY <1>3 DEF SendPacket, SmType
  <2>3. \/ smSend' = [smSend EXCEPT ![c] = [smSend[c] EXCEPT !.at = smSend[c].at + 1]]
        \/ smSend' = [smSend EXCEPT ![c] = [smSend[c] EXCEPT !.pc = "ack"]]
    BY <1>3 DEF SendPacket
  <2>4. smInts' = smInts /\ smHalted' = smHalted /\ smIppLock' = smIppLock /\ smOwed' = smOwed
    BY <1>3 DEF SendPacket
  <2> HIDE DEF k
  <2>5. smIrq' \in [SmCpus -> IrqRecords]
    <3>1. k \in SmCpus => [smIrq[k] EXCEPT !.pending = TRUE] \in IrqRecords
      BY FieldTypes, RecordSteps, Zenon
    <3> QED BY <2>1, <3>1, Zenon DEF SmType
  <2>6. smPacket' \in [SmCpus -> PacketRecords]
    <3>1. [from |-> c, type |-> smSend[c].type, ack |-> FALSE] \in PacketRecords
      BY <1>0, FieldTypes DEF PacketRecords
    <3> QED BY <2>2, <3>1, Zenon DEF SmType
  <2>7. smSend' \in [SmCpus -> SendRecords]
    <3>1. [smSend[c] EXCEPT !.at = smSend[c].at + 1] \in SendRecords /\ [smSend[c] EXCEPT !.pc = "ack"] \in SendRecords
      BY <1>0, FieldTypes, RecordSteps, Zenon DEF SmPcs
    <3> QED BY <1>0, <2>3, <3>1 DEF SmType
  <2> QED BY <1>0, <2>4, <2>5, <2>6, <2>7 DEF SmType
<1>4. CASE AwaitAck(c)
  <2>1. [smSend[c] EXCEPT !.pc = "send", !.at = smSend[c].at + 1] \in SendRecords
    BY <1>0, FieldTypes, RecordSteps, Zenon DEF SmPcs
  <2>2. smSend[c].at \in SmCpus
    BY <1>0, <1>4 DEF PkInv, OwedInv, AwaitAck
  <2>3. smSend' = [smSend EXCEPT ![c] = [smSend[c] EXCEPT !.pc = "send", !.at = smSend[c].at + 1]]
    BY <1>0, <1>4, FieldTypes DEF AwaitAck, SmType, SendRecords
  <2> QED BY <1>0, <1>4, <2>1, <2>2, <2>3 DEF SmType, AwaitAck
<1>5. CASE BroadcastDone(c)
  <2>1. [smSend[c] EXCEPT !.pc = "idle"] \in SendRecords
    BY <1>0, FieldTypes, RecordSteps, Zenon DEF SmPcs
  <2> QED BY <1>0, <1>5, <2>1 DEF SmType, BroadcastDone
<1>6. CASE IpiHandle(c)
  <2>1. [pending |-> FALSE, at |-> "in", type |-> smPacket[c].type, from |-> smPacket[c].from] \in IrqRecords
    BY <1>0, FieldTypes DEF IrqRecords
  <2> QED BY <1>0, <1>6, <2>1 DEF SmType, IpiHandle
<1>7. CASE HandleIPP(c)
  <2>1. smPacket' \in [SmCpus -> PacketRecords]
    <3>1. smPacket' = smPacket \/ smPacket' = [smPacket EXCEPT ![c] = [smPacket[c] EXCEPT !.ack = TRUE]]
      BY <1>7 DEF HandleIPP, Ack
    <3>2. [smPacket[c] EXCEPT !.ack = TRUE] \in PacketRecords
      BY <1>0, FieldTypes, RecordSteps, Zenon
    <3> QED BY <1>0, <3>1, <3>2, Zenon DEF SmType
  <2>2. smOwed' \in [SmCpus -> SUBSET SmCpus]
    <3>1. smOwed' = smOwed \/ smOwed' = [smOwed EXCEPT ![smIrq[c].from] = smOwed[smIrq[c].from] \ {c}]
      BY <1>7 DEF HandleIPP, Did
    <3>2. smIrq[c].from \in SmCpus
      BY <1>0, <1>7 DEF PkInv, IrqFrom, HandleIPP
    <3> QED BY <3>1, <3>2 DEF SmType
  <2>3. \/ smIrq' = [smIrq EXCEPT ![c] = [smIrq[c] EXCEPT !.at = "second"]]
        \/ smIrq' = [smIrq EXCEPT ![c] = [smIrq[c] EXCEPT !.at = "out"]]
    BY <1>7 DEF HandleIPP
  <2>4. smHalted' \in [SmCpus -> BOOLEAN] /\ smSend' = smSend /\ smInts' = smInts /\ smIppLock' = smIppLock
    BY <1>0, <1>7, Zenon DEF SmType, HandleIPP
  <2>5. smIrq' \in [SmCpus -> IrqRecords]
    <3>1. \A p \in {"out", "second"} : [smIrq[c] EXCEPT !.at = p] \in IrqRecords
      BY <1>0, FieldTypes, RecordSteps, Zenon
    <3> QED BY <1>0, <2>3, <3>1 DEF SmType
  <2> QED BY <1>0, <2>1, <2>2, <2>4, <2>5 DEF SmType
<1>8. Kpanic(c) => smInts' \in [SmCpus -> BOOLEAN] /\ Broadcast(c, "halt")
  BY <1>0 DEF Kpanic, SmType
<1> QED BY <1>1, <1>2, <1>3, <1>4, <1>5, <1>6, <1>7, <1>8 DEF SmStep, SmType

(* A broadcast that is called has sent nothing yet.                       *)
LEMMA PkCall ==
  ASSUME SmType, PkInv, NEW c \in SmCpus, NEW type, Broadcast(c, type), smCpus' = smCpus
  PROVE  PkInv'
<1>1. /\ smSend[c].pc = "idle" /\ smPacket' = smPacket /\ smIrq' = smIrq /\ smIppLock' = smIppLock
      /\ smSend'[c].pc = "lock" /\ smSend'[c].at = 0 /\ smOwed'[c] = smCpus \ {c}
      /\ \A d \in SmCpus \ {c} : smSend'[d] = smSend[d] /\ smOwed'[d] = smOwed[d]
  BY DEF Broadcast, SmType
<1>2. SenderHolds'
  BY <1>1 DEF SenderHolds, PkInv
<1>3. IrqInv'
  <2> SUFFICES ASSUME NEW k \in SmCpus PROVE IF smPacket[k].ack THEN PacketOver(k)' ELSE PacketUnderway(k)'
    BY <1>1, SMTT(30) DEF IrqInv
  <2>1. CASE smPacket[k].ack
    BY <1>1, <2>1 DEF PkInv, IrqInv, PacketOver
  <2>2. CASE ~smPacket[k].ack
    <3>1. PacketUnderway(k) /\ smPacket[k].from \in SmCpus \ {c}
      BY <1>1, <2>2, Zenon DEF PkInv, IrqInv, PacketUnderway
    <3> QED BY <1>1, <2>2, <3>1, Zenon DEF PacketUnderway
  <2> QED BY <2>1, <2>2
<1>4. OwedInv'
  BY <1>1, Zenon DEF PkInv, OwedInv, DoneBeforeNext
<1> QED BY <1>1, <1>2, <1>3, <1>4, Zenon DEF PkInv, IrqFrom

(* The lock of the packets goes to one sender, and it sends to the first  *)
(* CPU next.                                                              *)
LEMMA PkLock ==
  ASSUME SmType, PkInv, NEW c \in SmCpus, TakeIppLock(c), smCpus' = smCpus
  PROVE  PkInv'
<1>1. /\ smSend[c].pc = "lock" /\ smPacket' = smPacket /\ smIrq' = smIrq /\ smIppLock = Nobody /\ smIppLock' = c
      /\ smOwed' = smOwed /\ smSend'[c].pc = "send" /\ smSend'[c].at = smSend[c].at /\ smSend'[c].type = smSend[c].type
      /\ \A d \in SmCpus \ {c} : smSend'[d] = smSend[d]
  BY FieldTypes DEF TakeIppLock, SmType, SendRecords
<1>2. SenderHolds'
  BY <1>1, SmFacts DEF SenderHolds, PkInv
<1>3. IrqInv'
  <2> SUFFICES ASSUME NEW k \in SmCpus PROVE IF smPacket[k].ack THEN PacketOver(k)' ELSE PacketUnderway(k)'
    BY <1>1 DEF IrqInv
  <2>1. CASE smPacket[k].ack
    BY <1>1, <2>1 DEF PkInv, IrqInv, PacketOver
  <2>2. CASE ~smPacket[k].ack
    <3>1. PacketUnderway(k) /\ smPacket[k].from \in SmCpus \ {c}
      BY <1>1, <2>2, Zenon DEF PkInv, IrqInv, PacketUnderway
    <3> QED BY <1>1, <2>2, <3>1, Zenon DEF PacketUnderway
  <2> QED BY <2>1, <2>2
<1>4. OwedInv'
  <2>1. \A k \in SmCpus : ~(k < smSend[c].at)
    BY <1>1, SmFacts, SMTT(30) DEF PkInv, OwedInv
  <2>2. DoneBeforeNext'
    BY <1>1, <2>1 DEF PkInv, OwedInv, DoneBeforeNext
  <2> QED BY <1>1, <2>2, Zenon DEF PkInv, OwedInv
<1> QED BY <1>1, <1>2, <1>3, <1>4 DEF PkInv, IrqFrom

(* sendPacket() writes the packet of a CPU whose last one was             *)
(* acknowledged.                                                          *)
LEMMA PkSend ==
  ASSUME SmType, PkInv, NEW c \in SmCpus, SendPacket(c), smCpus' = smCpus
  PROVE  PkInv'
<1> DEFINE k == smSend[c].at
<1>0. /\ smSend[c].pc = "send" /\ k \in SmCpus /\ k \in Nat /\ smIppLock' = smIppLock /\ smOwed' = smOwed
      /\ smIppLock = c
  <2>1. smSend[c].pc = "send" /\ k <= LastCpu /\ smIppLock' = smIppLock /\ smOwed' = smOwed
    BY DEF SendPacket
  <2>2. k \in SmCpus /\ k \in Nat
    BY <2>1, FieldTypes, SmFacts
  <2> QED BY <2>1, <2>2 DEF PkInv, SenderHolds
<1>1. CASE (k = c \/ k \notin smCpus) /\ smSend' = [smSend EXCEPT ![c].at = @ + 1] /\ UNCHANGED <<smPacket, smIrq>>
  <2>1. /\ smPacket' = smPacket /\ smIrq' = smIrq /\ smSend'[c].pc = "send" /\ smSend'[c].at = k + 1
        /\ smSend'[c].type = smSend[c].type /\ \A d \in SmCpus \ {c} : smSend'[d] = smSend[d]
    BY <1>0, <1>1, FieldTypes DEF SmType, SendRecords
  <2> HIDE DEF k
  <2>2. SenderHolds'
    BY <2>1, <1>0, Zenon DEF PkInv, SenderHolds
  <2>3. IrqInv'
    <3> SUFFICES ASSUME NEW j \in SmCpus PROVE IF smPacket[j].ack THEN PacketOver(j)' ELSE PacketUnderway(j)'
      BY <2>1, SMTT(30) DEF IrqInv
    <3>1. CASE smPacket[j].ack
      BY <2>1, <3>1 DEF PkInv, IrqInv, PacketOver
    <3>2. CASE ~smPacket[j].ack
      <4>1. PacketUnderway(j) /\ smPacket[j].from \in SmCpus \ {c}
        BY <1>0, <3>2 DEF PkInv, IrqInv, PacketUnderway
      <4> QED BY <1>0, <2>1, <3>2, <4>1, Zenon DEF PacketUnderway
    <3> QED BY <3>1, <3>2
  <2>4. DoneBeforeNext'
    <3> SUFFICES ASSUME NEW d \in SmCpus, NEW j \in SmCpus, smSend'[d].pc \in {"send", "ack"}, j < smSend'[d].at,
                        j # d, smSend'[d].type = "inv"
                 PROVE  j \notin smOwed'[d]
      BY DEF DoneBeforeNext
    <3>1. CASE d # c
      BY <1>0, <2>1, <3>1 DEF PkInv, OwedInv, DoneBeforeNext
    <3>2. CASE d = c /\ j = k
      BY <1>0, <1>1, <3>2 DEF PkInv, OwedInv
    <3>3. CASE d = c /\ j # k
      <4>1. j < k
        BY <1>0, <2>1, <3>3, SmFacts
      <4> QED BY <1>0, <2>1, <3>3, <4>1 DEF PkInv, OwedInv, DoneBeforeNext, k
    <3> QED BY <3>1, <3>2, <3>3
  <2> QED BY <1>0, <2>1, <2>2, <2>3, <2>4, Zenon DEF PkInv, OwedInv, IrqFrom
<1>2. CASE /\ k # c /\ k \in smCpus
           /\ smPacket' = [smPacket EXCEPT ![k] = [from |-> c, type |-> smSend[c].type, ack |-> FALSE]]
           /\ smIrq' = [smIrq EXCEPT ![k].pending = TRUE]
           /\ smSend' = [smSend EXCEPT ![c].pc = "ack"]
  <2>1. /\ smSend'[c].pc = "ack" /\ smSend'[c].at = k /\ smSend'[c].type = smSend[c].type
        /\ \A d \in SmCpus \ {c} : smSend'[d] = smSend[d]
    BY <1>0, <1>2, FieldTypes DEF SmType, SendRecords
  <2>2. /\ smPacket'[k].from = c /\ smPacket'[k].type = smSend[c].type /\ smPacket'[k].ack = FALSE
        /\ \A j \in SmCpus \ {k} : smPacket'[j] = smPacket[j]
    BY <1>0, <1>2 DEF SmType
  <2>3. /\ smIrq'[k].pending = TRUE /\ smIrq'[k].at = smIrq[k].at /\ smIrq'[k].type = smIrq[k].type
        /\ smIrq'[k].from = smIrq[k].from /\ \A j \in SmCpus \ {k} : smIrq'[j] = smIrq[j]
    BY <1>0, <1>2, FieldTypes DEF SmType, IrqRecords
  <2> HIDE DEF k
  <2>4. \A j \in SmCpus : ~smPacket[j].ack => smPacket[j].from \in SmCpus \ {c} /\ smIppLock = smPacket[j].from
    BY <1>0, Zenon DEF PkInv, IrqInv, PacketUnderway, SenderHolds
  <2>5. \A j \in SmCpus : smPacket[j].ack
    BY <1>0, <2>4
  <2>6. SenderHolds'
    BY <2>1, <1>0 DEF PkInv, SenderHolds
  <2>7. IrqInv'
    <3> SUFFICES ASSUME NEW j \in SmCpus PROVE IF smPacket'[j].ack THEN PacketOver(j)' ELSE PacketUnderway(j)'
      BY DEF IrqInv
    <3>1. CASE j # k
      BY <2>2, <2>3, <2>5, <3>1, Zenon DEF PkInv, IrqInv, PacketOver
    <3>2. CASE j = k
      <4>1. PacketOver(k)
        BY <1>0, <2>5, Zenon DEF PkInv, IrqInv
      <4> QED BY <2>1, <2>2, <2>3, <3>2, <4>1, Zenon DEF PacketOver, PacketUnderway
    <3> QED BY <3>1, <3>2
  <2>8. DoneBeforeNext'
    BY <1>0, <2>1 DEF PkInv, OwedInv, DoneBeforeNext, k
  <2>9. \A d \in SmCpus : smSend'[d].pc = "ack" => d = c
    BY <1>0, <2>1 DEF PkInv, SenderHolds
  <2>10. OwedInv'
    BY <1>0, <2>1, <2>2, <2>8, <2>9 DEF PkInv, OwedInv
  <2>11. IrqFrom'
    BY <2>3 DEF PkInv, IrqFrom
  <2> QED BY <2>6, <2>7, <2>10, <2>11 DEF PkInv
<1> QED BY <1>1, <1>2 DEF SendPacket

(* The sender goes on when its packet was acknowledged, and has lost      *)
(* nothing of what it is owed.                                            *)
LEMMA PkAwait ==
  ASSUME SmType, PkInv, NEW c \in SmCpus, AwaitAck(c) \/ BroadcastDone(c), smCpus' = smCpus
  PROVE  PkInv'
<1> DEFINE k == smSend[c].at
<1>0. /\ smPacket' = smPacket /\ smIrq' = smIrq /\ smOwed' = smOwed /\ k \in Nat
      /\ \A d \in SmCpus \ {c} : smSend'[d] = smSend[d]
      /\ smSend[c].pc \in {"send", "ack"} /\ smIppLock = c
      /\ smSend'[c].pc \in {"send", "idle"}
      /\ smIppLock' = (IF smSend'[c].pc = "send" THEN c ELSE Nobody)
  <2>1. CASE AwaitAck(c)
    BY <2>1, FieldTypes DEF AwaitAck, SmType, SendRecords, PkInv, SenderHolds
  <2>2. CASE BroadcastDone(c)
    BY <2>2, FieldTypes DEF BroadcastDone, SmType, SendRecords, PkInv, SenderHolds
  <2> QED BY <2>1, <2>2, Zenon
<1>1. smSend'[c].pc = "send" =>
        smSend[c].pc = "ack" /\ smPacket[k].ack /\ smSend'[c].at = k + 1 /\ smSend'[c].type = smSend[c].type
  <2>1. CASE AwaitAck(c)
    BY <2>1, FieldTypes DEF AwaitAck, SmType, SendRecords, Acked
  <2>2. CASE BroadcastDone(c)
    <3>1. smSend'[c].pc = "idle"
      BY <2>2, FieldTypes DEF BroadcastDone, SmType, SendRecords
    <3> QED BY <3>1
  <2> QED BY <2>1, <2>2, Zenon
<1>2. \A j \in SmCpus : ~smPacket[j].ack => smPacket[j].from \in SmCpus /\ smPacket[j].from = c /\ j = k /\ smSend[c].pc = "ack"
  BY <1>0, SMTT(30) DEF PkInv, IrqInv, PacketUnderway, SenderHolds
<1>3. \A j \in SmCpus : smPacket[j].ack
  <2>1. CASE AwaitAck(c)
    BY <1>2, <2>1 DEF AwaitAck, Acked
  <2>2. CASE BroadcastDone(c)
    BY <1>2, <2>2 DEF BroadcastDone
  <2> QED BY <2>1, <2>2
<1>4. SenderHolds'
  BY <1>0, SmFacts DEF PkInv, SenderHolds
<1>5. IrqInv'
  BY <1>0, <1>3, Zenon DEF PkInv, IrqInv, PacketOver
<1>6. DoneBeforeNext'
  <2> SUFFICES ASSUME NEW d \in SmCpus, NEW j \in SmCpus, smSend'[d].pc \in {"send", "ack"}, j < smSend'[d].at,
                      j # d, smSend'[d].type = "inv"
               PROVE  j \notin smOwed[d]
    BY <1>0, Zenon DEF DoneBeforeNext
  <2>1. CASE d # c
    BY <1>0, <2>1 DEF PkInv, OwedInv, DoneBeforeNext
  <2>2. CASE d = c
    <3>1. smSend[c].pc = "ack" /\ smPacket[k].ack /\ smSend'[c].at = k + 1 /\ smSend[c].type = "inv"
      BY <1>0, <1>1, <2>2, Zenon
    <3>2. k \notin smOwed[c]
      BY <3>1, Zenon DEF PkInv, OwedInv
    <3>3. j < k => j \notin smOwed[c]
      BY <2>2, <3>1 DEF PkInv, OwedInv, DoneBeforeNext
    <3> HIDE DEF k
    <3>4. j = k \/ j < k
      BY <1>0, <2>2, <3>1, SmFacts
    <3> QED BY <2>2, <3>2, <3>3, <3>4
  <2> QED BY <2>1, <2>2
<1>7. OwedInv'
  BY <1>0, <1>6 DEF PkInv, OwedInv
<1> QED BY <1>0, <1>4, <1>5, <1>7, Zenon DEF PkInv, IrqFrom

(* The packet of a processor nothing happens to is where it was.          *)
LEMMA PacketKept ==
  ASSUME NEW j \in SmCpus, smSend' = smSend, smPacket' = smPacket, smOwed' = smOwed, smIrq'[j] = smIrq[j]
  PROVE  (PacketUnderway(j)' <=> PacketUnderway(j)) /\ (PacketOver(j)' <=> PacketOver(j))
BY Zenon DEF PacketUnderway, PacketOver

(* A packet whose handler starts is in its hand.                          *)
LEMMA PacketTaken ==
  ASSUME NEW k \in SmCpus, PacketUnderway(k), smSend' = smSend, smPacket' = smPacket,
         smIrq'[k] = [pending |-> FALSE, at |-> "in", type |-> smPacket[k].type, from |-> smPacket[k].from]
  PROVE  PacketUnderway(k)' /\ smIrq'[k].from \in SmCpus
<1>1. /\ ~smIrq'[k].pending /\ smIrq'[k].at = "in"
      /\ smIrq'[k].type = smPacket[k].type /\ smIrq'[k].from = smPacket[k].from
  OBVIOUS
<1> QED BY <1>1, Zenon DEF PacketUnderway

(* The handler acknowledges the packet it took, before or after it acts   *)
(* on it.                                                                 *)
LEMMA PkHandle ==
  ASSUME SmType, PkInv, NEW k \in SmCpus, IpiHandle(k) \/ HandleIPP(k), smCpus' = smCpus
  PROVE  PkInv'
<1>0. smSend' = smSend /\ smIppLock' = smIppLock
  BY DEF IpiHandle, HandleIPP
<1>1. CASE IpiHandle(k)
  <2>1. /\ smIrq[k].pending /\ smIrq[k].at = "out" /\ smPacket' = smPacket /\ smOwed' = smOwed
        /\ smIrq'[k] = [pending |-> FALSE, at |-> "in", type |-> smPacket[k].type, from |-> smPacket[k].from]
        /\ \A j \in SmCpus \ {k} : smIrq'[j] = smIrq[j]
    BY <1>1 DEF IpiHandle, Awake, SmType
  <2>2. ~smPacket[k].ack /\ PacketUnderway(k)
    BY <2>1, Zenon DEF PkInv, IrqInv, PacketOver
  <2>3. IrqInv'
    <3> SUFFICES ASSUME NEW j \in SmCpus PROVE IF smPacket[j].ack THEN PacketOver(j)' ELSE PacketUnderway(j)'
      BY <2>1 DEF IrqInv
    <3>1. CASE j # k
      <4>1. smIrq'[j] = smIrq[j]
        BY <2>1, <3>1
      <4> QED BY <1>0, <2>1, <4>1, PacketKept, Zenon DEF PkInv, IrqInv
    <3>2. CASE j = k
      BY <1>0, <2>1, <2>2, <3>2, PacketTaken, Zenon
    <3> QED BY <3>1, <3>2, Zenon
  <2>4. IrqFrom'
    <3>1. smIrq'[k].from \in SmCpus
      BY <1>0, <2>1, <2>2, PacketTaken, Zenon
    <3> QED BY <2>1, <3>1 DEF PkInv, IrqFrom
  <2> QED BY <1>0, <2>1, <2>3, <2>4, Zenon DEF PkInv, SenderHolds, OwedInv, DoneBeforeNext
<1>2. CASE HandleIPP(k)
  <2> DEFINE c == smIrq[k].from   type == smIrq[k].type   here == smIrq[k].at
             acks == smPacket' = [smPacket EXCEPT ![k].ack = TRUE] /\ smOwed' = smOwed
             does == smPacket' = smPacket /\ smOwed' = [smOwed EXCEPT ![c] = smOwed[c] \ {k}]
  <2>1. c \in SmCpus
    BY <1>2 DEF PkInv, IrqFrom, HandleIPP
  <2>2. \/ here = "in" /\ smIrq'[k].at = "second" /\ IF AckFirst(type) THEN acks ELSE does
        \/ here = "second" /\ smIrq'[k].at = "out" /\ IF AckFirst(type) THEN does ELSE acks
    BY <1>2, FieldTypes DEF HandleIPP, Ack, Did, SmType, IrqRecords
  <2>3. /\ smIrq'[k].pending = smIrq[k].pending /\ smIrq'[k].type = type /\ smIrq'[k].from = c
        /\ \A j \in SmCpus \ {k} : smIrq'[j] = smIrq[j]
    BY <1>2, FieldTypes DEF HandleIPP, SmType, IrqRecords
  <2>4. acks => /\ smPacket'[k].ack = TRUE /\ smPacket'[k].from = smPacket[k].from /\ smPacket'[k].type = smPacket[k].type
                /\ \A j \in SmCpus \ {k} : smPacket'[j] = smPacket[j]
    BY FieldTypes DEF SmType, PacketRecords
  <2>5. does => smOwed'[c] = smOwed[c] \ {k} /\ \A d \in SmCpus \ {c} : smOwed'[d] = smOwed[d]
    BY <2>1 DEF SmType
  <2>6. \A d \in SmCpus : smOwed'[d] \subseteq smOwed[d]
    BY <2>2, <2>5
  <2>7. \A j \in SmCpus \ {k} : smPacket'[j] = smPacket[j]
    BY <2>2, <2>4
  <2>8. smPacket[k].ack \in BOOLEAN /\ smIrq[k].pending \in BOOLEAN
    BY FieldTypes DEF IrqRecords
  <2>9. IF smPacket[k].ack THEN PacketOver(k) ELSE PacketUnderway(k)
    BY DEF PkInv, IrqInv
  <2>10. AckFirst(type) \/ ~AckFirst(type)
    OBVIOUS
  <2>11. ASSUME NEW j \in SmCpus \ {k}
         PROVE  IF smPacket'[j].ack THEN PacketOver(j)' ELSE PacketUnderway(j)'
    <3>1. smPacket'[j] = smPacket[j] /\ smIrq'[j] = smIrq[j]
      BY <2>3, <2>7
    <3>2. CASE smPacket[j].ack
      BY <3>1, <3>2 DEF PkInv, IrqInv, PacketOver
    <3>3. CASE ~smPacket[j].ack
      <4>1. PacketUnderway(j)
        BY <3>3 DEF PkInv, IrqInv
      <4> QED BY <1>0, <2>6, <3>1, <3>3, <4>1, Zenon DEF PacketUnderway
    <3> QED BY <3>2, <3>3
  <2>12. IrqFrom'
    BY <2>1, <2>3, Zenon DEF PkInv, IrqFrom
  <2>13. /\ \A d \in SmCpus : smOwed'[d] \subseteq smCpus
         /\ \A d \in SmCpus : smSend[d].pc = "lock" => smSend[d].at = 0
         /\ DoneBeforeNext'
    BY <1>0, <2>6, Zenon DEF PkInv, OwedInv, DoneBeforeNext
  <2>14. ASSUME here \in {"in", "second"}, here = "second" => ~AckFirst(type)
         PROVE  /\ ~smPacket[k].ack /\ ~smIrq[k].pending /\ smPacket[k].from = c /\ smSend[c].pc = "ack"
                /\ smSend[c].at = k /\ smPacket[k].type = smSend[c].type /\ smPacket[k].type = type
                /\ (here = "second" => k \notin smOwed[c])
    BY <2>8, <2>9, <2>14, Zenon DEF PacketOver, PacketUnderway
  <2>15. \A d \in SmCpus : smSend[d].pc = "ack" /\ smSend[c].pc = "ack" => d = c
    BY <2>1 DEF PkInv, SenderHolds
  <2>16. CASE acks /\ here \in {"in", "second"} /\ (here = "in" <=> AckFirst(type)) /\ smIrq'[k].at \in {"second", "out"}
              /\ (smIrq'[k].at = "second" => AckFirst(type))
    <3>1. IF smPacket'[k].ack THEN PacketOver(k)' ELSE PacketUnderway(k)'
      BY <2>3, <2>4, <2>14, <2>16 DEF PacketOver
    <3>2. IrqInv'
      BY <2>11, <3>1 DEF IrqInv
    <3>3. \A d \in SmCpus : smSend[d].pc = "ack" =>
            /\ smSend[d].at \in SmCpus
            /\ (smSend[d].type = "inv" /\ smPacket'[smSend[d].at].ack => smSend[d].at \notin smOwed'[d])
      <4>1. \A d \in SmCpus : smSend[d].pc = "ack" => d = c
        BY <2>14, <2>15, <2>16
      <4>2. smSend[c].type = "inv" => k \notin smOwed[c]
        BY <2>14, <2>16 DEF AckFirst
      <4> QED BY <4>1, <4>2, <2>6, <2>14, <2>16
    <3> QED BY <1>0, <2>12, <2>13, <3>2, <3>3 DEF PkInv, SenderHolds, OwedInv
  <2>17. CASE does /\ here = "in" /\ ~AckFirst(type) /\ smIrq'[k].at = "second"
    <3>1. PacketUnderway(k)' /\ ~smPacket'[k].ack
      BY <1>0, <2>1, <2>3, <2>5, <2>14, <2>17, Zenon DEF PacketUnderway
    <3>2. IrqInv'
      BY <2>11, <3>1 DEF IrqInv
    <3>3. \A d \in SmCpus : smSend[d].pc = "ack" =>
            /\ smSend[d].at \in SmCpus
            /\ (smSend[d].type = "inv" /\ smPacket'[smSend[d].at].ack => smSend[d].at \notin smOwed'[d])
      BY <2>6, <2>17, Zenon DEF PkInv, OwedInv
    <3> QED BY <1>0, <2>12, <2>13, <3>2, <3>3 DEF PkInv, SenderHolds, OwedInv
  <2>18. CASE does /\ here = "second" /\ AckFirst(type) /\ smIrq'[k].at = "out"
    <3>1. IF smPacket'[k].ack THEN PacketOver(k)' ELSE PacketUnderway(k)'
      <4>1. CASE smPacket[k].ack
        BY <2>3, <2>9, <2>18, <4>1, Zenon DEF PacketOver
      <4>2. CASE ~smPacket[k].ack
        BY <1>0, <2>3, <2>6, <2>9, <2>18, <4>2, Zenon DEF PacketUnderway
      <4> QED BY <4>1, <4>2, <2>18, Zenon
    <3>2. IrqInv'
      BY <2>11, <3>1 DEF IrqInv
    <3>3. \A d \in SmCpus : smSend[d].pc = "ack" =>
            /\ smSend[d].at \in SmCpus
            /\ (smSend[d].type = "inv" /\ smPacket'[smSend[d].at].ack => smSend[d].at \notin smOwed'[d])
      BY <2>6, <2>18, Zenon DEF PkInv, OwedInv
    <3> QED BY <1>0, <2>12, <2>13, <3>2, <3>3 DEF PkInv, SenderHolds, OwedInv
  <2> HIDE DEF acks, does, here, type, c
  <2> QED BY <2>2, <2>10, <2>16, <2>17, <2>18, Zenon
<1> QED BY <1>1, <1>2

(* A CPU that is added receives no packet before it is there.             *)
LEMMA PkBoot ==
  ASSUME SmType, PkInv, smCpus \subseteq smCpus', UNCHANGED smIpiVars
  PROVE  PkInv'
<1>1. /\ smSend' = smSend /\ smPacket' = smPacket /\ smIrq' = smIrq /\ smIppLock' = smIppLock /\ smOwed' = smOwed
  BY DEF smIpiVars
<1>2. SenderHolds' /\ IrqFrom'
  BY <1>1 DEF PkInv, SenderHolds, IrqFrom
<1>3. IrqInv'
  BY <1>1, Zenon DEF PkInv, IrqInv, PacketOver, PacketUnderway
<1>4. OwedInv'
  BY <1>1 DEF PkInv, OwedInv, DoneBeforeNext
<1> QED BY <1>2, <1>3, <1>4 DEF PkInv

(* At first no packet is under way and no processor has been started.     *)
LEMMA SmInitInv == SmInit => SmType /\ PkInv /\ BtType /\ BtInv
<1> SUFFICES ASSUME SmInit PROVE SmType /\ PkInv /\ BtType /\ BtInv
  OBVIOUS
<1>0. 0 \in SmCpus
  BY SmFacts
<1>1. SmType
  <2>1. Quiet \in SendRecords
    BY SmAssumption DEF Quiet, SendRecords, SmPcs, SmTypes
  <2>2. [from |-> Nobody, type |-> "none", ack |-> TRUE] \in PacketRecords
    BY DEF PacketRecords, SmTypes
  <2>3. [pending |-> FALSE, at |-> "out", type |-> "none", from |-> 0] \in IrqRecords
    BY <1>0 DEF IrqRecords, SmTypes
  <2> QED BY <2>1, <2>2, <2>3 DEF SmInit, SmType
<1>2. PkInv
  BY SmFacts, Zenon DEF SmInit, PkInv, SenderHolds, IrqInv, PacketOver, OwedInv, DoneBeforeNext, IrqFrom, Quiet
<1>3. BtType
  BY <1>0, Zenon DEF SmInit, BtType
<1>4. BtInv
  BY <1>0 DEF SmInit, BtInv, ReportedIsThere
<1> QED BY <1>1, <1>2, <1>3, <1>4

(* Every step keeps the invariants of packets and start.                  *)
LEMMA SmStepInv == SmType /\ PkInv /\ BtType /\ BtInv /\ [SmNext \/ SmBootNext]_smVars
                     => SmType' /\ PkInv' /\ BtType' /\ BtInv'
<1> SUFFICES ASSUME SmType, PkInv, BtType, BtInv, [SmNext \/ SmBootNext]_smVars
             PROVE  SmType' /\ PkInv' /\ BtType' /\ BtInv'
  OBVIOUS
<1>1. CASE SmNext
  <2>1. smCpus' = smCpus /\ smBoot' = smBoot
    BY <1>1 DEF SmNext
  <2>2. SmType'
    BY <1>1, SmTypeStep
  <2>3. BtType' /\ BtInv'
    BY <2>1 DEF BtType, BtInv, ReportedIsThere
  <2>4. PkInv'
    <3> PICK c \in smCpus :
           \/ SmStep(c)
           \/ \E type \in {"inv", "resched"} : Broadcast(c, type) /\ UNCHANGED smInts
           \/ Kpanic(c)
      BY <1>1 DEF SmNext
    <3>1. c \in SmCpus
      BY DEF SmType
    <3> QED BY <2>1, <3>1, PkCall, PkLock, PkSend, PkAwait, PkHandle DEF SmStep, Kpanic
  <2> QED BY <2>2, <2>3, <2>4
<1>2. CASE SmBootNext
  <2>1. UNCHANGED smIpiVars
    BY <1>2 DEF SmBootNext, StartNext, TrampolineRuns, StartReturns
  <2>2. BtType' /\ BtInv' /\ smCpus \subseteq smCpus' /\ smCpus' \subseteq SmCpus
    BY <1>2, BootStep
  <2>3. PkInv'
    BY <2>1, <2>2, PkBoot
  <2>4. SmType'
    BY <2>1, <2>2 DEF SmType, smIpiVars
  <2> QED BY <2>2, <2>3, <2>4
<1>3. CASE UNCHANGED smVars
  <2>1. smCpus' = smCpus /\ smBoot' = smBoot /\ UNCHANGED smIpiVars
    BY <1>3 DEF smVars, smIpiVars
  <2>2. PkInv'
    BY <2>1, PkBoot
  <2>3. SmType'
    BY <2>1 DEF SmType, smIpiVars
  <2> QED BY <2>1, <2>2, <2>3 DEF BtType, BtInv, ReportedIsThere
<1> QED BY <1>1, <1>2, <1>3

(* start() reports a processor only when it is there, a sender goes on    *)
(* from a processor only when that one has done what the packet says, and *)
(* nobody overwrites a packet that is being looked at: for every number   *)
(* of CPUs and packets (arch/x86_64/sys/cpu/ipc.cpp, mcore.cpp).          *)
THEOREM SmpCorrect == SmSpec => []HandshakesHold
<1>1. SmType /\ PkInv /\ BtType /\ BtInv => HandshakesHold
  <2> SUFFICES ASSUME SmType, PkInv, BtType, BtInv PROVE HandshakesHold
    OBVIOUS
  <2>1. ReportedIsThere
    BY DEF BtInv, ReportedIsThere
  <2>2. PacketHeld
    BY Zenon DEF PkInv, IrqInv, PacketUnderway, SenderHolds, PacketHeld
  <2> QED BY <2>1, <2>2 DEF PkInv, OwedInv, HandshakesHold
<1> QED BY <1>1, SmInitInv, SmStepInv, PTL DEF SmSpec
=============================================================================
