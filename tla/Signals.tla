------------------------------ MODULE Signals -------------------------------
(* Signals of a thread: Thread::signal(), handleSignal(), enterSignal()    *)
(* and exitSignal() (src/ipc/thread.cpp), Process::sigaction()             *)
(* (src/ipc/process.cpp), the delivery at the end of a system call         *)
(* (Thread::subBusy()) and the broker's part of it.  The CPU that runs a   *)
(* thread holds the thread's lock, so what another thread does under that  *)
(* lock happens between two steps of this one.                             *)
EXTENDS Integers, Sequences

CONSTANTS SgIds,     \* signals that are sent
          SgMax      \* how many are sent

VARIABLES sgT,        \* the thread: pc, m_busy, in_signal, m_pending_signals, stacks, contexts
          sgActions,  \* Process::m_signals[].action
          sgBroker,   \* requests in the broker's queue
          sgSent,     \* number of signals sent
          sgDone,     \* signals that had their effect
          sgHung      \* an actor waits for the lock it holds: the kernel panics

sgVars == <<sgT, sgActions, sgBroker, sgSent, sgDone, sgHung>>

\* Process::ipc_init().
InitialAction(id) ==
    IF id \in {3, 4, 5, 6, 7, 8, 11, 24, 25, 31} THEN "core"
    ELSE IF id \in {17, 23, 28} THEN "ign"
    ELSE IF id \in {19, 20, 21, 22} THEN "stop"
    ELSE IF id = 18 THEN "cont" ELSE "term"

\* The table of Process::sigaction() for SIG_DFL.  From 8 on its entries
\* do not line up with the numbers of the signals.
DefaultAction(id) ==
    IF id \in {3, 4, 5, 6, 7, 10, 22, 23, 29} THEN "core"
    ELSE IF id \in {15, 21, 26} THEN "ign"
    ELSE IF id \in {17, 18, 19, 20} THEN "stop"
    ELSE IF id = 16 THEN "cont" ELSE "term"

Context == [pc |-> "user", in |-> "main"]

SgInit ==
    /\ sgT = [at |-> Context, aux |-> Context, busy |-> 0, insignal |-> FALSE,
              swapped |-> FALSE, pending |-> <<>>, info |-> <<>>]
    /\ sgActions = [id \in SgIds |-> InitialAction(id)]
    /\ sgBroker = <<>> /\ sgSent = 0 /\ sgDone = {} /\ sgHung = FALSE

SgRuns == ~sgHung /\ sgT.at.pc # "dead"
SgGoto(t, pc) == [t EXCEPT !.at.pc = pc]
SgPush(t, info) == [t EXCEPT !.pending = Append(@, info)]
\* exit() of the process; stop and cont are not implemented and panic.
Fatal(action) == action \in {"term", "core", "stop", "cont"}

\* syscall_prepare().
SyscallPrepare ==
    /\ SgRuns /\ sgT.at.pc = "user"
    /\ sgT' = [SgGoto(sgT, "sys") EXCEPT !.busy = @ + 1]
    /\ UNCHANGED <<sgActions, sgBroker, sgSent, sgDone, sgHung>>

\* sigact(): SIG_DFL looks the action up in the table.
Sigaction(id, a) ==
    /\ SgRuns /\ sgT.at.pc = "sys"
    /\ id \notin {9, 18, 19}
    /\ sgActions' = [sgActions EXCEPT ![id] = IF a = "dfl" THEN DefaultAction(id) ELSE a]
    /\ UNCHANGED <<sgT, sgBroker, sgSent, sgDone, sgHung>>

\* signal() by the thread itself: its critical section makes it busy, so the
\* signal always waits.
SignalSelf(id) ==
    /\ SgRuns /\ sgT.at.pc = "sys" /\ sgSent < SgMax
    /\ sgSent' = sgSent + 1
    /\ sgT' = SgPush(sgT, <<id, sgSent + 1>>)
    /\ UNCHANGED <<sgActions, sgBroker, sgDone, sgHung>>

\* handleSignal() by another thread, which holds the lock.  For a handler of
\* the process it takes the lock again.
HandleForeign(t, info) ==
    /\ LET action == sgActions[info[1]]
       IN  /\ sgT' = IF Fatal(action) THEN SgGoto(t, "dead") ELSE t
           /\ sgHung' = (action = "user")
           /\ sgDone' = IF action = "user" THEN sgDone ELSE sgDone \cup {info[2]}
    /\ UNCHANGED sgActions

\* kill() by another thread: Thread::signal() with the lock held.
SignalOther(id) ==
    /\ SgRuns /\ sgSent < SgMax
    /\ sgSent' = sgSent + 1
    /\ \/ /\ sgT.busy > 0
          /\ sgT' = SgPush(sgT, <<id, sgSent + 1>>)
          /\ UNCHANGED <<sgActions, sgDone, sgHung>>
       \/ /\ sgT.busy = 0
          /\ HandleForeign(sgT, <<id, sgSent + 1>>)
    /\ UNCHANGED sgBroker

\* subBusy() with no busy section left takes the last of the waiting signals.
PopLast(t) ==
    [SgGoto(t, "handle") EXCEPT !.info = t.pending[Len(t.pending)],
                              !.pending = SubSeq(@, 1, Len(@) - 1)]

\* syscall_done(): subBusy() by the thread itself.
SyscallDone ==
    LET t == [sgT EXCEPT !.busy = @ - 1]
    IN  /\ SgRuns /\ sgT.at.pc = "sys"
        /\ sgT' = IF t.pending = <<>> THEN SgGoto(t, "user") ELSE PopLast(t)
        /\ UNCHANGED <<sgActions, sgBroker, sgSent, sgDone, sgHung>>

\* Mutant: a handler is entered from within a handler.
MayEnterNested(t) == t.busy = 0
MayEnter(t) == t.busy = 0 /\ ~t.insignal

\* handleSignal() by the thread itself; enterSignal() waits for the broker.
HandleSignal ==
    LET info   == sgT.info
        action == sgActions[info[1]]
    IN  /\ SgRuns /\ sgT.at.pc = "handle"
        /\ \/ /\ Fatal(action)
              /\ sgT' = SgGoto(sgT, "dead") /\ sgDone' = sgDone \cup {info[2]}
              /\ UNCHANGED sgBroker
           \/ /\ action = "ign"
              /\ sgT' = [SgGoto(sgT, "user") EXCEPT !.info = <<>>]
              /\ sgDone' = sgDone \cup {info[2]}
              /\ UNCHANGED sgBroker
           \/ /\ action = "user" /\ MayEnter(sgT)
              /\ sgT' = [SgGoto(sgT, "entering") EXCEPT !.insignal = TRUE]
              /\ sgBroker' = Append(sgBroker, "enter")
              /\ UNCHANGED sgDone
           \/ /\ action = "user" /\ ~MayEnter(sgT)
              /\ sgT' = [SgPush(SgGoto(sgT, "user"), info) EXCEPT !.info = <<>>]
              /\ UNCHANGED <<sgBroker, sgDone>>
        /\ UNCHANGED <<sgActions, sgSent, sgHung>>

\* signal_enter() by the broker: the context is kept, the stacks change
\* places, the thread goes on in the handler.
SignalEnter ==
    /\ SgRuns /\ sgBroker # <<>> /\ Head(sgBroker) = "enter"
    /\ sgT' = [sgT EXCEPT !.aux = sgT.at, !.at = [pc |-> "user", in |-> "handler"],
                          !.swapped = ~@, !.info = <<>>]
    /\ sgDone' = sgDone \cup {sgT.info[2]}
    /\ sgBroker' = Tail(sgBroker)
    /\ UNCHANGED <<sgActions, sgSent, sgHung>>

\* The sigret call: refused outside of a handler, else up to the broker.
Sigret ==
    /\ SgRuns /\ sgT.at.pc = "user"
    /\ sgT' = [SgGoto(sgT, IF sgT.insignal THEN "leaving" ELSE "sys") EXCEPT !.busy = @ + 1]
    /\ sgBroker' = IF sgT.insignal THEN Append(sgBroker, "exit") ELSE sgBroker
    /\ UNCHANGED <<sgActions, sgSent, sgDone, sgHung>>

\* signal_exit(): the context and the stacks come back, and the system call
\* that will not return is no longer counted.
Returned(t) == [t EXCEPT !.at = t.aux, !.swapped = ~@, !.insignal = FALSE, !.busy = @ - 1]

\* signal_exit() by the broker, with the thread's lock: subBusy() delivers a
\* waiting signal here.
SignalExit ==
    LET t == Returned(sgT)
    IN  /\ SgRuns /\ sgBroker # <<>> /\ Head(sgBroker) = "exit"
        /\ \/ /\ sgT.pending = <<>>
              /\ sgT' = t /\ UNCHANGED <<sgActions, sgDone, sgHung>>
           \/ /\ sgT.pending # <<>>
              /\ HandleForeign([PopLast(t) EXCEPT !.at = t.at, !.info = <<>>], PopLast(t).info)
        /\ sgBroker' = Tail(sgBroker)
        /\ UNCHANGED sgSent

\* enterSignal() returns once the handler is over.
SgResume ==
    /\ SgRuns /\ sgT.at.pc = "entering" /\ ~sgT.insignal
    /\ sgT' = SgGoto(sgT, "user")
    /\ UNCHANGED <<sgActions, sgBroker, sgSent, sgDone, sgHung>>

SgNext ==
    \/ SyscallPrepare \/ SyscallDone \/ HandleSignal \/ Sigret \/ SgResume
    \/ SignalEnter \/ SignalExit
    \/ \E id \in SgIds : SignalSelf(id) \/ SignalOther(id)
    \/ \E id \in SgIds, a \in {"user", "dfl", "ign"} : Sigaction(id, a)

SgSpec == SgInit /\ [][SgNext]_sgVars

----------------------------------------------------------------------------
(* Properties.                                                             *)

\* A handler runs on the other kernel stack and only there, and what it
\* returns to is the point in the program that was interrupted
\* (ipc/thread.cpp:105-156).
HandlerReturns ==
    sgT.at.pc # "dead" =>
        /\ sgT.swapped <=> sgT.at.in = "handler"
        /\ sgT.swapped => sgT.insignal /\ sgT.aux.in = "main"

\* A signal that was accepted waits, is on its way to its handler, or had its
\* effect, and is in one of these places only, until the process ends
\* (ipc/thread.cpp:45-97, proc/thread.cpp:336-348).
SignalsKept ==
    sgT.at.pc # "dead" /\ ~sgHung =>
        \A n \in 1 .. sgSent :
            LET waiting == {i \in DOMAIN sgT.pending : sgT.pending[i][2] = n}
                taken   == sgT.info # <<>> /\ sgT.info[2] = n
                done    == n \in sgDone
            IN  \/ (\E i \in waiting : waiting = {i}) /\ ~taken /\ ~done
                \/ waiting = {} /\ taken /\ ~done
                \/ waiting = {} /\ ~taken /\ done

\* A signal that was accepted is handled once, and its handler returns to
\* what it interrupted.
SignalsHandled == SignalsKept /\ HandlerReturns
=============================================================================
