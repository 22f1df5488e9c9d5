----------------------------- MODULE ProcessLife -----------------------------
(***************************************************************************)
(* How processes begin and end: fork, execve, wait, kill, exit and thexit  *)
(* of user threads, with the broker thread that deletes threads, the       *)
(* kernel thread that takes an exiting process apart (exit_threaded) and   *)
(* the one that loads a new image (exec).                                  *)
(*                                                                         *)
(* The lock of a thread is held by the CPU that runs it.  A thread can be  *)
(* switched out between any two of its steps unless it is critical, so to  *)
(* take its lock is to wait until it is not.                               *)
(***************************************************************************)
EXTENDS Integers, Sequences, FiniteSets

CONSTANTS
    Process, Thread,    \* room for this many at a time
    Root,               \* the kernel's process, which never exits; its thread
                        \* also stands for other processes that send signals
    NoOne,
    MaxPending          \* bound on the pending signals of a thread

ASSUME LifeAssumption ==
    /\ Root \in Process
    /\ NoOne \notin Process \union Thread
    /\ MaxPending \in Nat

VARIABLES
    processes_lock,     \* the thread that kill() left with it, or NoOne
    proc,               \* the processes, each with its two kernel threads:
                        \*   w, todo: exit_threaded and the threads it has yet to abort
                        \*   x, initiator, joined, detached: exec(), who called it, whether
                        \*   that thread joined it, and whether it is detached
    thread,             \* the threads of all processes
    broker_queue,
    broker              \* what the broker is doing, for which process

vars == <<processes_lock, proc, thread, broker_queue, broker>>

NoProcess ==
    [status |-> "none", parent |-> NoOne, exiting |-> FALSE, thread_counter |-> 0,
     threads |-> {}, threads_lock |-> NoOne, child_event |-> {}, w |-> "none", todo |-> {},
     x |-> "none", initiator |-> NoOne, joined |-> FALSE, detached |-> FALSE]

NoThread == [pc |-> "none", home |-> NoOne, aborting |-> FALSE, detached |-> FALSE, pending |-> 0]

(* A process with the only thread t, in user mode                          *)
Started(t, parent) ==
    [NoProcess EXCEPT !.status = "ready", !.parent = parent, !.thread_counter = 1,
                      !.threads = {t}]
UserThread(p) == [NoThread EXCEPT !.pc = "user", !.home = p]

(* The kernel's own thread has started init and may wait for it.           *)
Init ==
    /\ processes_lock = NoOne
    /\ \E t0, t1 \in Thread, p \in Process \ {Root} :
         /\ t0 # t1
         /\ proc = [q \in Process |-> IF q = Root THEN Started(t0, NoOne)
                                      ELSE IF q = p THEN Started(t1, Root) ELSE NoProcess]
         /\ thread = [t \in Thread |-> IF t = t0 THEN UserThread(Root)
                                       ELSE IF t = t1 THEN UserThread(p) ELSE NoThread]
    /\ broker_queue = <<>>
    /\ broker = [pc |-> "idle", p |-> NoOne, t |-> NoOne]

----------------------------------------------------------------------------
At(t, l) == thread[t].pc = l
Go(t, l) == thread' = [thread EXCEPT ![t].pc = l]
home(t) == thread[t].home

isBusy(t) == thread[t].pc \in {"exit", "return", "scan", "wait", "fork", "exec", "join", "joined",
                               "killing"}
(* t keeps its CPU, and with it its lock                                   *)
isCritical(t) == thread[t].pc \in {"unassoc", "finish", "leaving", "killing"}
LockFree(t) == ~isCritical(t)

interrupted(t) == thread[t].aborting \/ thread[t].pending > 0

(* Process::exit(), but for the loop at its end                            *)
ExitDropped(p) == broker_queue
ExitQueue(p) == IF proc[p].exiting THEN broker_queue ELSE Append(broker_queue, <<"exit", p>>)

Unassociated(p, t) == [proc EXCEPT ![p].threads = @ \ {t}]

(* Thread::finish() after unassoc(): the last thread ends the process      *)
LastOne(p) == proc[p].thread_counter = 1
FinishQueue(p, t) ==
    Append(IF LastOne(p) THEN ExitQueue(p) ELSE broker_queue, <<"cleanup", t>>)
FinishProc(ps, p) == [ps EXCEPT ![p].exiting = @ \/ LastOne(p)]

----------------------------------------------------------------------------
(* exit(): the thread then waits for its abort                             *)
SysExit(t) ==
    /\ At(t, "user") /\ home(t) # Root
    /\ broker_queue' = ExitQueue(home(t))
    /\ proc' = [proc EXCEPT ![home(t)].exiting = TRUE]
    /\ Go(t, IF proc[home(t)].exiting THEN "return" ELSE "exit")
    /\ UNCHANGED <<processes_lock, broker>>

ExitLoop(t) ==
    /\ At(t, "exit")
    /\ thread[t].aborting
    /\ Go(t, "return")
    /\ UNCHANGED <<processes_lock, proc, broker_queue, broker>>

(* thexit(): Thread::exit() of a busy thread                               *)
SysThexit(t) ==
    /\ At(t, "user") /\ home(t) # Root
    /\ thread' = [thread EXCEPT ![t].pc = "return", ![t].aborting = TRUE]
    /\ UNCHANGED <<processes_lock, proc, broker_queue, broker>>

(* syscall_done(): m_busy falls to 0                                       *)
SubBusy(t) ==
    /\ At(t, "return")
    /\ Go(t, "idle")
    /\ UNCHANGED <<processes_lock, proc, broker_queue, broker>>

(* The rest of subBusy(), and Thread::exit() up to its unassoc()           *)
Exit(t) ==
    /\ At(t, "idle")
    /\ thread[t].aborting
    /\ thread[t].pending = 0    \* asserted
    /\ Go(t, IF thread[t].detached \/ LastOne(home(t)) THEN "unassoc" ELSE "zombie")
    /\ UNCHANGED <<processes_lock, proc, broker_queue, broker>>

HandleSignal(t) ==
    /\ At(t, "idle")
    /\ ~thread[t].aborting
    /\ thread[t].pending > 0
    /\ broker_queue' = ExitQueue(home(t))
    /\ proc' = [proc EXCEPT ![home(t)].exiting = TRUE]
    /\ thread' = [thread EXCEPT ![t].pc = IF proc[home(t)].exiting THEN "user" ELSE "idle-exit",
                                ![t].pending = @ - 1]
    /\ UNCHANGED <<processes_lock, broker>>

ToUser(t) ==
    /\ At(t, "idle")
    /\ ~interrupted(t)
    /\ Go(t, "user")
    /\ UNCHANGED <<processes_lock, proc, broker_queue, broker>>

(* Thread::finish() of t by itself, and the yield() of a dead thread       *)
Unassoc(t) ==
    /\ At(t, "unassoc")
    /\ proc[home(t)].threads_lock = NoOne
    /\ proc' = Unassociated(home(t), t)
    /\ Go(t, "finish")
    /\ UNCHANGED <<processes_lock, broker_queue, broker>>

Finish(t) ==
    /\ At(t, "finish")
    /\ broker_queue' = FinishQueue(home(t), t)
    /\ proc' = FinishProc(proc, home(t))
    /\ Go(t, "leaving")
    /\ UNCHANGED <<processes_lock, broker>>

Leave(t) ==
    /\ At(t, "leaving")
    /\ Go(t, "off")
    /\ UNCHANGED <<processes_lock, proc, broker_queue, broker>>

----------------------------------------------------------------------------
(* fork(): the process is listed first, and ready once it has its thread   *)
SysFork(t, p) ==
    /\ At(t, "user") /\ home(t) # Root
    /\ processes_lock = NoOne
    /\ proc[p].status = "none"
    /\ proc' = [proc EXCEPT ![p] = [NoProcess EXCEPT !.status = "fresh", !.parent = home(t),
                                                     !.initiator = t]]
    /\ Go(t, "fork")
    /\ UNCHANGED <<processes_lock, broker_queue, broker>>

Forked(t, p, n) ==
    /\ At(t, "fork")
    /\ proc[p].status = "fresh" /\ proc[p].initiator = t
    /\ At(n, "none")
    /\ proc' = [proc EXCEPT ![p] = Started(n, @.parent)]
    /\ thread' = [thread EXCEPT ![n] = UserThread(p), ![t].pc = "return"]
    /\ UNCHANGED <<processes_lock, broker_queue, broker>>

(* wait(): try_get() under processes_lock, and the sleep on child_event    *)
SysWait(t) ==
    /\ At(t, "user")
    /\ Go(t, "scan")
    /\ UNCHANGED <<processes_lock, proc, broker_queue, broker>>

Children(p) == {q \in Process : proc[q].parent = p}
DeadChildren(p) == {q \in Children(p) : proc[q].status = "dead"}

Reap(t) ==
    /\ At(t, "scan")
    /\ processes_lock = NoOne
    /\ \E q \in DeadChildren(home(t)) : proc' = [proc EXCEPT ![q] = NoProcess]
    /\ Go(t, "return")
    /\ UNCHANGED <<processes_lock, broker_queue, broker>>

NoChild(t) ==
    /\ At(t, "scan")
    /\ processes_lock = NoOne
    /\ Children(home(t)) = {}
    /\ Go(t, "return")
    /\ UNCHANGED <<processes_lock, proc, broker_queue, broker>>

AwaitChild(t) ==
    /\ At(t, "scan")
    /\ processes_lock = NoOne
    /\ Children(home(t)) # {} /\ DeadChildren(home(t)) = {}
    /\ proc' = [proc EXCEPT ![home(t)].child_event = @ \union {t}]
    /\ Go(t, "wait")
    /\ UNCHANGED <<processes_lock, broker_queue, broker>>

WaitResume(t) ==
    /\ At(t, "wait")
    /\ t \notin proc[home(t)].child_event \/ interrupted(t)
    /\ Go(t, IF interrupted(t) THEN "return" ELSE "scan")
    /\ UNCHANGED <<processes_lock, proc, broker_queue, broker>>

(* kill(): processes_lock and threads_lock first, then the thread's lock   *)
SysKill(t, p) ==
    /\ At(t, "user") /\ p # Root
    /\ processes_lock = NoOne
    /\ proc[p].status \in {"ready", "dead"}
    /\ proc[p].threads_lock = NoOne
    /\ proc[p].threads # {}
    /\ \A u \in proc[p].threads : thread[u].pending < MaxPending
    /\ processes_lock' = t
    /\ proc' = [proc EXCEPT ![p].threads_lock = t]
    /\ Go(t, "killing")
    /\ UNCHANGED <<broker_queue, broker>>

Signal(t, p) ==
    /\ At(t, "killing")
    /\ proc[p].threads_lock = t
    /\ \E u \in proc[p].threads :
         /\ u = t \/ LockFree(u)
         /\ isBusy(u) \/ home(t) # p     \* exit() would yield(), critical: asserted
         /\ thread' = [thread EXCEPT ![t].pc = "return",
                                     ![u].pending = IF isBusy(u) THEN @ + 1 ELSE @]
         /\ proc' = [proc EXCEPT ![p].threads_lock = NoOne, ![p].exiting = @ \/ ~isBusy(u)]
         /\ broker_queue' = IF isBusy(u) THEN broker_queue ELSE ExitQueue(p)
    /\ processes_lock' = NoOne
    /\ UNCHANGED broker

----------------------------------------------------------------------------
(* The broker: exit_threaded_broker() starts exit_threaded, and            *)
(* broker_cleanup() deletes a thread under the threads_lock of its process *)
Request(kind) == broker.pc = "idle" /\ broker_queue # <<>> /\ Head(broker_queue)[1] = kind
Argument == Head(broker_queue)[2]

BrokerExit ==
    /\ Request("exit")
    /\ processes_lock = NoOne
    /\ proc' = [proc EXCEPT ![Argument].w = "start"]
    /\ broker_queue' = Tail(broker_queue)
    /\ UNCHANGED <<processes_lock, thread, broker>>

BrokerCleanup ==
    /\ Request("cleanup")
    /\ proc[home(Argument)].threads_lock = NoOne
    /\ proc' = [proc EXCEPT ![home(Argument)].threads_lock = "broker"]
    /\ broker' = [pc |-> "delete", p |-> home(Argument), t |-> Argument]
    /\ broker_queue' = Tail(broker_queue)
    /\ UNCHANGED <<processes_lock, thread>>

(* ~Thread() waits for the thread's lock                                   *)
Delete ==
    /\ broker.pc = "delete"
    /\ LockFree(broker.t)
    /\ thread' = [thread EXCEPT ![broker.t] = NoThread]
    /\ proc' = [proc EXCEPT ![broker.p].thread_counter = @ - 1]
    /\ broker' = [broker EXCEPT !.pc = "release"]
    /\ UNCHANGED <<processes_lock, broker_queue>>

BrokerRelease ==
    /\ broker.pc = "release"
    /\ proc' = [proc EXCEPT ![broker.p].threads_lock = NoOne]
    /\ broker' = [pc |-> "idle", p |-> NoOne, t |-> NoOne]
    /\ UNCHANGED <<processes_lock, thread, broker_queue>>

Broker == BrokerExit \/ BrokerCleanup \/ Delete \/ BrokerRelease

----------------------------------------------------------------------------
(* exit_threaded(): every thread is aborted under threads_lock             *)
ExitStart(p) ==
    /\ proc[p].w = "start"
    /\ proc[p].threads_lock = NoOne
    /\ proc' = [proc EXCEPT ![p].w = "abort", ![p].threads_lock = "exit",
                            ![p].todo = proc[p].threads]
    /\ UNCHANGED <<processes_lock, thread, broker_queue, broker>>

Aborted(t) == [thread EXCEPT ![t].aborting = TRUE, ![t].detached = TRUE]

(* abort(true) of a thread that is not busy finishes it, and finish() needs *)
(* the threads_lock that is held: exit_threaded spins from here on         *)
ExitAbort(p, t) ==
    /\ proc[p].w = "abort"
    /\ t \in proc[p].todo
    /\ LockFree(t)
    /\ proc' = [proc EXCEPT ![p].todo = @ \ {t}, ![p].w = IF isBusy(t) THEN @ ELSE "finish"]
    /\ thread' = IF isBusy(t) THEN Aborted(t) ELSE [Aborted(t) EXCEPT ![t].pc = "off"]
    /\ UNCHANGED <<processes_lock, broker_queue, broker>>

ExitAborted(p) ==
    /\ proc[p].w = "abort"
    /\ proc[p].todo = {}
    /\ proc' = [proc EXCEPT ![p].w = "poll", ![p].threads_lock = NoOne]
    /\ UNCHANGED <<processes_lock, thread, broker_queue, broker>>

(* with the last thread gone the process dies: its children go to its      *)
(* parent, which is told                                                   *)
Polled(p) == proc[p].thread_counter = 0

NotRaised(ps, p) == ps
Raised(ps, p) == [ps EXCEPT ![p].child_event = {}]

Orphaned(p) == [q \in Process |->
    IF proc[q].parent = p THEN [proc[q] EXCEPT !.parent = proc[p].parent] ELSE proc[q]]

ExitDone(p) ==
    /\ proc[p].w = "poll"
    /\ Polled(p)
    /\ processes_lock = NoOne
    /\ proc' = Raised([Orphaned(p) EXCEPT ![p].status = "dead", ![p].w = "none"],
                      proc[p].parent)
    /\ UNCHANGED <<processes_lock, thread, broker_queue, broker>>

ExitThreaded(p) ==
    \/ ExitStart(p) \/ ExitAborted(p) \/ ExitDone(p)
    \/ \E t \in Thread : ExitAbort(p, t)
----------------------------------------------------------------------------
(* execve(): the caller leaves the thread list and joins a kernel thread   *)
(* that runs exec().  A process has one such thread at a time.             *)
SysExec(t) ==
    /\ At(t, "user") /\ home(t) # Root
    /\ Go(t, "exec")
    /\ UNCHANGED <<processes_lock, proc, broker_queue, broker>>

CallExec(t) ==
    /\ At(t, "exec")
    /\ proc[home(t)].threads_lock = NoOne
    /\ processes_lock = NoOne
    /\ proc[home(t)].x \in {"none", "dead"}
    /\ proc' = [Unassociated(home(t), t) EXCEPT ![home(t)].x = "start",
                   ![home(t)].initiator = t, ![home(t)].joined = FALSE,
                   ![home(t)].detached = FALSE]
    /\ Go(t, "join")
    /\ UNCHANGED <<processes_lock, broker_queue, broker>>

(* join() of a thread that is dead already, or has yet to end              *)
Join(t) ==
    /\ At(t, "join")
    /\ LET dead == proc[home(t)].x = "dead" IN
         /\ proc' = IF dead THEN [proc EXCEPT ![home(t)].x = "none"]
                            ELSE [proc EXCEPT ![home(t)].joined = TRUE]
         /\ Go(t, IF dead THEN "return" ELSE "joined")
    /\ UNCHANGED <<processes_lock, broker_queue, broker>>

Joined(t) ==
    /\ At(t, "joined")
    /\ LET dead == proc[home(t)].x = "dead" IN
         /\ dead \/ interrupted(t)
         /\ proc' = IF dead THEN [proc EXCEPT ![home(t)].x = "none"]
                    ELSE [proc EXCEPT ![home(t)].joined = FALSE,
                                      ![home(t)].detached = thread[t].aborting]
    /\ Go(t, "return")
    /\ UNCHANGED <<processes_lock, broker_queue, broker>>

(* exec() under executor_mutex: the executor finds an image, or does not   *)
ExecutorFree == \A q \in Process : proc[q].x \notin {"loading", "ready"}

LoadFails(p) ==
    /\ proc[p].x = "start"
    /\ ExecutorFree
    /\ proc' = [proc EXCEPT ![p].x = "exit"]
    /\ UNCHANGED <<processes_lock, thread, broker_queue, broker>>

LoadAborts(p) ==
    /\ proc[p].x = "start"
    /\ ExecutorFree
    /\ proc' = [proc EXCEPT ![p].x = "loading", ![p].thread_counter = @ + 1]
    /\ thread' = Aborted(proc[p].initiator)
    /\ UNCHANGED <<processes_lock, broker_queue, broker>>

Load(p) ==
    /\ proc[p].x = "start"
    /\ ExecutorFree
    /\ proc' = [proc EXCEPT ![p].x = "loading", ![p].thread_counter = @ + 1]
    /\ UNCHANGED <<processes_lock, thread, broker_queue, broker>>

(* abortall() waits until no other thread is listed: a process has one     *)
(* listed thread, its others are initiators of earlier execs and unlisted. *)
(* The new thread takes the place of the executor in thread_counter.       *)
Loaded(p, n) ==
    /\ proc[p].x = "loading"
    /\ proc[p].threads = {}
    /\ processes_lock = NoOne
    /\ proc[p].threads_lock = NoOne
    /\ At(n, "none")
    /\ proc' = [proc EXCEPT ![p].x = "ready", ![p].threads = {n}]
    /\ thread' = [thread EXCEPT ![n] = [UserThread(p) EXCEPT !.pc = "fresh"]]
    /\ UNCHANGED <<processes_lock, broker_queue, broker>>

(* The initiator is aborted, and finished if it is not busy; the new       *)
(* thread starts.                                                          *)
Commit(p) ==
    /\ proc[p].x = "ready"
    /\ LET i == proc[p].initiator
           done == [proc EXCEPT ![p].x = "exit", ![p].initiator = NoOne]
           started == [t \in Thread |->
               IF t \in proc[p].threads /\ At(t, "fresh")
                 THEN [Aborted(i)[t] EXCEPT !.pc = "user"] ELSE Aborted(i)[t]]
       IN  /\ LockFree(i)
           /\ \/ /\ isBusy(i)
                 /\ proc' = done
                 /\ thread' = started
                 /\ UNCHANGED broker_queue
              \/ /\ ~isBusy(i)
                 /\ proc[p].threads_lock = NoOne
                 /\ proc' = FinishProc(done, p)
                 /\ thread' = [started EXCEPT ![i].pc = "off"]
                 /\ broker_queue' = FinishQueue(p, i)
    /\ UNCHANGED <<processes_lock, broker>>

Quit(p) ==
    /\ proc[p].x = "exit"
    /\ proc' = [proc EXCEPT ![p].x = IF proc[p].detached THEN "none" ELSE "dead"]
    /\ UNCHANGED <<processes_lock, thread, broker_queue, broker>>

Exec(p) == Load(p) \/ (\E n \in Thread : Loaded(p, n)) \/ Commit(p) \/ Quit(p)

----------------------------------------------------------------------------
(* what a thread does once it is in the kernel, fork() apart               *)
InCall(t) ==
    \/ ExitLoop(t) \/ SubBusy(t) \/ Exit(t) \/ HandleSignal(t) \/ ToUser(t)
    \/ Unassoc(t) \/ Finish(t) \/ Leave(t)
    \/ Reap(t) \/ NoChild(t) \/ AwaitChild(t) \/ WaitResume(t)
    \/ CallExec(t) \/ Join(t) \/ Joined(t)
    \/ \E p \in Process : Signal(t, p)

Kernel(t) == InCall(t) \/ \E p \in Process, n \in Thread : Forked(t, p, n)

Worker(p) == ExitThreaded(p) \/ Exec(p)

Next ==
    \/ \E t \in Thread : Kernel(t) \/ SysExit(t) \/ SysThexit(t) \/ SysWait(t) \/ SysExec(t)
    \/ \E t \in Thread, p \in Process : SysFork(t, p) \/ SysKill(t, p)
    \/ \E p \in Process : Worker(p) \/ LoadFails(p)
    \/ Broker

Spec == Init /\ [][Next]_vars

----------------------------------------------------------------------------
(* Type correctness, and every request of the broker names a process or a  *)
(* thread that exists.                                                     *)
TypeOK ==
    /\ processes_lock \in Thread \union {NoOne}
    /\ \A p \in Process :
         /\ proc[p].status \in {"none", "fresh", "ready", "dead"}
         /\ proc[p].thread_counter \in Nat
         /\ proc[p].threads \subseteq Thread /\ proc[p].todo \subseteq Thread
         /\ proc[p].child_event \subseteq Thread
         /\ proc[p].threads_lock \in Thread \union {NoOne, "exit", "broker"}
         /\ proc[p].w \in {"none", "start", "abort", "finish", "poll"}
         /\ proc[p].x \in {"none", "start", "loading", "ready", "exit", "dead"}
    /\ \A t \in Thread : thread[t].pending \in 0..MaxPending
    /\ \A i \in 1..Len(broker_queue) :
         \/ broker_queue[i] \in {"exit"} \X {p \in Process : proc[p].status # "none"}
         \/ broker_queue[i] \in {"cleanup"} \X {t \in Thread : ~At(t, "none")}
    /\ broker.pc \in {"idle", "delete", "release"}

ThreadsOf(p) == {t \in Thread : home(t) = p}

(* thread_counter counts the threads that are not deleted yet, and the     *)
(* executor while it loads an image.                                       *)
CounterExact ==
    \A p \in Process : proc[p].status # "none" =>
        proc[p].thread_counter =
            Cardinality(ThreadsOf(p)) + (IF proc[p].x = "loading" THEN 1 ELSE 0)

(* What exit_threaded calls dead is dead: no thread of the process is left, *)
(* nothing is left to do for it, and no executor works on it.              *)
DeadIsOver ==
    \A p \in Process : proc[p].status = "dead" =>
        /\ ThreadsOf(p) = {}
        /\ proc[p].w = "none"
        /\ proc[p].x \notin {"start", "loading", "ready"}
        /\ \A i \in 1..Len(broker_queue) : broker_queue[i] # <<"exit", p>>

(* The parent that exit_threaded() looks up and wakes is there and can     *)
(* still wait: no process is ever without a parent that is not dead.       *)
ParentAlive ==
    \A p \in Process \ {Root} : proc[p].status # "none" =>
        proc[proc[p].parent].status \in {"ready", "fresh"}

(* A thread asleep in wait() has no child to collect.                      *)
NoLostChild ==
    \A t \in Thread : At(t, "wait") /\ t \in proc[home(t)].child_event =>
        DeadChildren(home(t)) = {}

\* A child that died is over, has a parent that is alive to collect it, and
\* is not slept on (process.cpp:122-180 and 242-302).
ChildrenCollected == DeadIsOver /\ ParentAlive /\ NoLostChild

(* exec() holds on to a thread that exists.                                *)
InitiatorExists ==
    \A p \in Process : proc[p].x \in {"start", "loading", "ready"} =>
        proc[p].initiator \in ThreadsOf(p)

\* What execve() works on stays: the counter counts the executor, so that
\* the process is not dead, and its initiator not deleted, before exec() is
\* through (exec.cpp:18-107, process.cpp:122-180).
ExecCounted == TypeOK /\ CounterExact /\ DeadIsOver /\ InitiatorExists

(* Threads in the kernel, the broker and the kernel's threads are          *)
(* scheduled; what a user thread does is up to it.                         *)
Fairness ==
    /\ \A t \in Thread : WF_vars(Kernel(t))
    /\ \A p \in Process : WF_vars(Worker(p))
    /\ WF_vars(Broker)

Quiet ==
    /\ processes_lock = NoOne
    /\ \A p \in Process : proc[p].x = "exit" => proc[p].initiator = NoOne

(* A process on which exit() was called is dead at last, as long as no     *)
(* signal is sent and no execve() fails: exit_threaded() reaches the end   *)
(* of its poll of thread_counter.                                          *)
ExitCompletes ==
    []Quiet => \A p \in Process : proc[p].exiting ~> proc[p].status \in {"dead", "none"}
=============================================================================
