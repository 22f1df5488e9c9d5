---------------------------- MODULE MCScheduler ----------------------------
(***************************************************************************)
(* Model-checking instances of Scheduler.  Spec itself is checked with two *)
(* CPUs and two threads; the narrower next-state relation below lets three *)
(* threads compete for the two CPUs.                                       *)
(***************************************************************************)
EXTENDS Scheduler

CONSTANTS c1, c2, t1, t2, t3

AllNormal == [t \in Thread |-> 0]
T2Favoured == [t \in Thread |-> IF t = t2 THEN -10 ELSE 0]
NoMask == [c \in CPU |-> {}]

(* Threads that only compute and enter critical sections: every one of     *)
(* them is runnable all the time and wants a CPU.                          *)
ComputeNext ==
    \E c \in CPU :
        \/ Tick(c) \/ Schedule(c) \/ AddCritical(c) \/ SubCritical(c)
        \/ \E t \in Thread : Create(c, t) \/ Start(c, t)

ComputeSpec == Init /\ [][ComputeNext]_vars /\ Fairness
=============================================================================
