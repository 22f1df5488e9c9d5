------------------------------ MODULE MCLocks ------------------------------
(* Model-checking instances of the kernel's own synchronisation: the       *)
(* spinlocks and the mutex (three threads, on one CPU and on two), the     *)
(* broker's message queue, signals, and the array of counted objects.  A   *)
(* behaviour is one of one component, chosen in the initial state.         *)
EXTENDS Locks, MessageQueue, Signals, SmartArray

VARIABLE unit

kernelVars == <<lkVars, mqVars, sgVars, arVars, unit>>

MCLkPlans ==
    {<<"both", "mutex", "spin">>, <<"try", "both", "both">>, <<"read", "write", "write">>,
     <<"upgrade", "downgrade", "downgrade">>, <<"write", "upgrade", "upgrade">>}

KernelInit ==
    /\ LkInit /\ MqInit /\ SgInit /\ ArInit
    /\ unit \in {"locks", "queue", "signals", "array"}
    /\ unit # "locks" =>
          /\ lkCpus = {1}
          /\ \A t \in LkThreads : lkCode[t] = Section[(CHOOSE p \in MCLkPlans : TRUE)[t]]

(* The objects are alike: of two new ones the lower is added first.        *)
InOrder == \A o, p \in ArObjects : o < p /\ arState'[o] = "new" => arState'[p] = "new"

KernelNext ==
    /\ UNCHANGED unit
    /\ \/ unit = "locks" /\ LkNext /\ UNCHANGED <<mqVars, sgVars, arVars>>
       \/ unit = "queue" /\ MqNext /\ UNCHANGED <<lkVars, sgVars, arVars>>
       \/ unit = "signals" /\ SgNext /\ UNCHANGED <<lkVars, mqVars, arVars>>
       \/ unit = "array" /\ ArNext /\ InOrder /\ UNCHANGED <<lkVars, mqVars, sgVars>>

(* LkFairness, for the behaviours of the locks.                            *)
KernelFairness ==
    \A t \in LkThreads :
        /\ SF_lkVars(unit = "locks" /\ \E c \in lkCpus : lkOn[c] = t /\ ThreadStep(c, t))
        /\ SF_lkVars(unit = "locks" /\ \E c \in lkCpus : lkOn[c] # t /\ Tick(c) /\ lkOn'[c] = t)

KernelSpec == KernelInit /\ [][KernelNext]_kernelVars /\ KernelFairness
=============================================================================
