--------------------------- MODULE CircularBuffer ---------------------------
(***************************************************************************)
(* Mem::CircularBuffer, under pipes, terminals, input handles, message     *)
(* queues and TCP sockets: read(), write() and writeAtomic() by any number *)
(* of threads, with the spinlock m_lock and the event on which a thread    *)
(* that can go no further waits.  The event appears as Event shows it to a *)
(* waiter: a raise() brings all of them back.                              *)
(*                                                                         *)
(* The k-th byte ever written is represented by the number k, so that      *)
(* bytes lost, repeated, reordered or overwritten are told apart.          *)
(***************************************************************************)
EXTENDS Integers, FiniteSets

CONSTANTS
    Thread,
    NoOne,
    Size,       \* m_size
    MaxLen,     \* bound on the len of a call
    MaxBytes    \* bound on the bytes written

ASSUME BufferAssumption ==
    /\ NoOne \notin Thread
    /\ Size \in Nat \ {0}
    /\ MaxLen \in Nat
    /\ MaxBytes \in Nat

VARIABLES
    m_lock,         \* the thread that holds it, or NoOne
    m_tiddies,      \* the threads on the queue of m_event
    m_buffer, m_readPos, m_writePos,
    wtotal, rtotal, \* how many bytes were written, and read or dropped
    op,             \* what a thread is doing: "none", "read", "write", "atomic"
    pc,             \* "out", "acquire", "loop", "wait" (switched out)
    len, offset, quota,
    interrupted     \* Thread::current()->interrupted()

bufVars == <<m_buffer, m_readPos, m_writePos, wtotal, rtotal>>
callVars == <<len, offset, quota>>
vars == <<m_lock, m_tiddies, bufVars, op, pc, callVars, interrupted>>

Init ==
    /\ m_lock = NoOne
    /\ m_tiddies = {}
    /\ m_buffer = [i \in 0..(Size - 1) |-> 0]
    /\ m_readPos = 0 /\ m_writePos = 0
    /\ wtotal = 0 /\ rtotal = 0
    /\ op = [t \in Thread |-> "none"]
    /\ pc = [t \in Thread |-> "out"]
    /\ len = [t \in Thread |-> 0]
    /\ offset = [t \in Thread |-> 0]
    /\ quota = [t \in Thread |-> -1]
    /\ interrupted = [t \in Thread |-> FALSE]

----------------------------------------------------------------------------
MinOf(a, b) == IF a < b THEN a ELSE b

Wrapped(a) == IF a < 0 THEN a + Size ELSE a
findDistance(a, b) == Wrapped(Wrapped(b) - Wrapped(a))

readAvailable == MinOf(Size, findDistance(m_readPos, m_writePos))
writeAnywhere == Size - 1
writeAvailable == MinOf(Size, findDistance(m_writePos, m_readPos - 1))

readAvailableCut == MinOf(Size - m_readPos, readAvailable)
writeAvailableCut == MinOf(Size - m_writePos, writeAvailable)

----------------------------------------------------------------------------
(* A call, up to its acquisition of m_lock                                 *)
Call(t, o, l, qt) ==
    /\ pc[t] = "out"
    /\ o = "read" \/ wtotal + l <= MaxBytes
    /\ op' = [op EXCEPT ![t] = o]
    /\ len' = [len EXCEPT ![t] = l]
    /\ quota' = [quota EXCEPT ![t] = qt]
    /\ pc' = [pc EXCEPT ![t] = "acquire"]
    /\ UNCHANGED <<m_lock, m_tiddies, bufVars, offset, interrupted>>

Acquire(t) ==
    /\ pc[t] = "acquire"
    /\ m_lock = NoOne
    /\ m_lock' = t
    /\ pc' = [pc EXCEPT ![t] = "loop"]
    /\ UNCHANGED <<m_tiddies, bufVars, op, callVars, interrupted>>

(* clen, and whether this iteration of the loop copies                     *)
clen(t) == MinOf(len[t], IF op[t] = "read" THEN readAvailableCut
                                           ELSE writeAvailableCut)
AtLoop(t) == pc[t] = "loop" /\ m_lock = t
Copies(t) ==
    /\ len[t] > 0
    /\ IF op[t] = "atomic" THEN clen(t) = len[t] ELSE clen(t) > 0

(* m_event.raise()                                                         *)
RaiseNone == UNCHANGED m_tiddies
raise == m_tiddies' = {}

(* m_readPos += clen, back to 0 at the end                                 *)
Advance(pos, n) == IF pos + n = Size THEN 0 ELSE pos + n

Count(t, n) ==
    /\ offset' = [offset EXCEPT ![t] = @ + n]
    /\ len' = [len EXCEPT ![t] = @ - n]

CopyOut(t) ==
    /\ AtLoop(t)
    /\ op[t] = "read"
    /\ Copies(t)
    /\ m_readPos' = Advance(m_readPos, clen(t))
    /\ rtotal' = rtotal + clen(t)
    /\ Count(t, clen(t))
    /\ raise
    /\ UNCHANGED <<m_lock, m_buffer, m_writePos, wtotal, op, pc, quota, interrupted>>

(* memcpy() of n bytes to m_writePos                                       *)
Filled(n) == [i \in 0..(Size - 1) |->
    IF i \in m_writePos..(m_writePos + n - 1) THEN wtotal + (i - m_writePos)
                                              ELSE m_buffer[i]]

CopyIn(t) ==
    /\ AtLoop(t)
    /\ op[t] \in {"write", "atomic"}
    /\ Copies(t)
    /\ m_buffer' = Filled(clen(t))
    /\ m_writePos' = Advance(m_writePos, clen(t))
    /\ wtotal' = wtotal + clen(t)
    /\ Count(t, clen(t))
    /\ raise
    /\ UNCHANGED <<m_lock, m_readPos, rtotal, op, pc, quota, interrupted>>

(* the conditions on which the loop gives up                               *)
InterruptMissed(t) == FALSE
Interrupted(t) == writeAvailable < len[t] /\ interrupted[t]
QuotaMet(t) == offset[t] >= quota[t]
GivesUp(t) ==
    \/ Interrupted(t)
    \/ op[t] = "read" /\ readAvailable <= len[t] /\ quota[t] # -1 /\ QuotaMet(t)

Return(t) ==
    /\ AtLoop(t)
    /\ len[t] = 0 \/ (~Copies(t) /\ GivesUp(t))
    /\ m_lock' = NoOne
    /\ op' = [op EXCEPT ![t] = "none"]
    /\ pc' = [pc EXCEPT ![t] = "out"]
    /\ len' = [len EXCEPT ![t] = 0]
    /\ offset' = [offset EXCEPT ![t] = 0]
    /\ quota' = [quota EXCEPT ![t] = -1]
    /\ UNCHANGED <<m_tiddies, bufVars, interrupted>>

(* m_event.wait(), m_lock.release() and the yield that follows             *)
Wait(t) ==
    /\ AtLoop(t)
    /\ len[t] > 0 /\ ~Copies(t) /\ ~GivesUp(t)
    /\ m_tiddies' = m_tiddies \union {t}
    /\ m_lock' = NoOne
    /\ pc' = [pc EXCEPT ![t] = "wait"]
    /\ UNCHANGED <<bufVars, op, callVars, interrupted>>

(* schedule() runs t again: it was woken, or is interrupted                *)
Resume(t) ==
    /\ pc[t] = "wait"
    /\ t \notin m_tiddies \/ interrupted[t]
    /\ pc' = [pc EXCEPT ![t] = "acquire"]
    /\ UNCHANGED <<m_lock, m_tiddies, bufVars, op, callVars, interrupted>>

(* t is aborted, or gets a signal it has yet to handle                     *)
Interrupt(t) ==
    /\ ~interrupted[t]
    /\ interrupted' = [interrupted EXCEPT ![t] = TRUE]
    /\ UNCHANGED <<m_lock, m_tiddies, bufVars, op, pc, callVars>>

HandleSignal(t) ==
    /\ pc[t] = "out"
    /\ interrupted[t]
    /\ interrupted' = [interrupted EXCEPT ![t] = FALSE]
    /\ UNCHANGED <<m_lock, m_tiddies, bufVars, op, pc, callVars>>

(* resize(): TCP empties the buffers of a socket under the socket's lock,  *)
(* which also covers all its reads and writes; m_size stays                *)
resize ==
    /\ m_lock = NoOne
    /\ \A t \in Thread : pc[t] = "out"
    /\ m_readPos' = 0
    /\ m_writePos' = 0
    /\ rtotal' = wtotal
    /\ UNCHANGED <<m_lock, m_tiddies, m_buffer, wtotal, op, pc, callVars, interrupted>>

Step(t) == Acquire(t) \/ CopyOut(t) \/ CopyIn(t) \/ Return(t) \/ Wait(t) \/ Resume(t)

Begin(t) ==
    \E l \in 1..MaxLen : \/ \E qt \in {-1, 1} : Call(t, "read", l, qt)
                         \/ \E o \in {"write", "atomic"} : Call(t, o, l, -1)

Next ==
    \/ \E t \in Thread : Step(t) \/ Begin(t) \/ Interrupt(t) \/ HandleSignal(t)
    \/ resize

Spec == Init /\ [][Next]_vars

----------------------------------------------------------------------------
(* Type correctness: the positions index the buffer whenever m_lock is     *)
(* free or its holder is between two copies.                               *)
TypeOK ==
    /\ m_lock \in Thread \union {NoOne}
    /\ m_tiddies \subseteq Thread
    /\ m_buffer \in [0..(Size - 1) -> Nat]
    /\ m_readPos \in 0..(Size - 1)
    /\ m_writePos \in 0..(Size - 1)
    /\ wtotal \in Nat /\ rtotal \in Nat
    /\ op \in [Thread -> {"none", "read", "write", "atomic"}]
    /\ pc \in [Thread -> {"out", "acquire", "loop", "wait"}]
    /\ len \in [Thread -> Nat]
    /\ offset \in [Thread -> Nat]
    /\ quota \in [Thread -> {-1, 1}]
    /\ interrupted \in [Thread -> BOOLEAN]

(* The two positions tell how many bytes are in the buffer: readAvailable()*)
(* is what was written and not yet read, and is below m_size.              *)
CountExact == rtotal + readAvailable = wtotal /\ readAvailable < Size

(* The cell of the k-th unread byte.                                       *)
Cell(k) == IF m_readPos + k < Size THEN m_readPos + k ELSE m_readPos + k - Size

(* Bytes come out in the order they went in: no copy overwrites an unread  *)
(* byte, skips one or delivers one twice.                                  *)
DataInOrder == \A k \in 0..(readAvailable - 1) : m_buffer[Cell(k)] = rtotal + k

(* A thread on the event's queue has nothing to do: a reader waits only    *)
(* while the buffer is empty, a writer only while it is full, writeAtomic()*)
(* only while the space up to the end is too short for the whole block.    *)
WaitersCannotGoOn ==
    \A t \in m_tiddies : pc[t] = "wait" =>
        IF op[t] = "read" THEN readAvailable = 0
        ELSE IF op[t] = "write" THEN writeAvailable = 0
        ELSE writeAvailableCut < len[t]

(* When a reader and a writer wait at once, the writer is in writeAtomic() *)
(* with space enough for its block, but not before the end of the buffer,  *)
(* or its block is as large as the whole buffer.                           *)
BothWaitOnlyAtWrap ==
    \A r, w \in m_tiddies :
        pc[r] = "wait" /\ op[r] = "read" /\ pc[w] = "wait" /\ op[w] # "read" =>
            /\ op[w] = "atomic"
            /\ Size - m_writePos < len[w] \/ Size <= len[w]

Fifo == INSTANCE ByteFifo WITH
            Cap <- Size - 1,
            q <- [k \in 1..readAvailable |-> m_buffer[Cell(k - 1)]]

(* The buffer is a bounded first-in first-out queue of bytes.              *)
ImplementsFifo == Fifo!Spec

(* A thread in the loop goes on to copy, wait or return, one that is       *)
(* woken or interrupted is scheduled, and one that spins on m_lock gets it *)
(* at last: the others leave it free between their calls.                  *)
FairSpec == Spec /\ \A t \in Thread : WF_vars(Step(t)) /\ SF_vars(Acquire(t))

(* A write() that is interrupted is not held up by a full buffer that      *)
(* nobody reads.                                                           *)
InterruptedWriteReturns ==
    \A t \in Thread : op[t] = "write" /\ interrupted[t] ~> op[t] = "none"
=============================================================================
