--------------------------- MODULE MCProcessLife ---------------------------
(* Instances of ProcessLife for TLC.                                       *)
EXTENDS ProcessLife

(* What every instance has: threads that exit and wait                     *)
BaseNext ==
    \/ \E t \in Thread : InCall(t) \/ SysExit(t) \/ SysThexit(t) \/ SysWait(t)
    \/ \E p \in Process : Worker(p)
    \/ Broker

(* Processes that fork and send signals and do not call execve()           *)
KillNext ==
    \/ BaseNext
    \/ \E t \in Thread, p \in Process :
         SysKill(t, p) \/ SysFork(t, p) \/ \E n \in Thread : Forked(t, p, n)

(* Processes that call execve() and get signals as they do.  None calls it *)
(* once it is exiting: exec() would go on with a process that is deleted.  *)
ExecNext ==
    \/ BaseNext
    \/ \E t \in Thread : home(t) # NoOne /\ ~proc[home(t)].exiting /\ SysExec(t)
    \/ \E p \in Process : LoadFails(p)
    \/ \E t \in Thread, p \in Process :
         (\A u \in proc[p].threads : At(u, "exec")) /\ SysKill(t, p)
ExecSpec == Init /\ [][ExecNext]_vars /\ Fairness
=============================================================================
