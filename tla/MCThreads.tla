----------------------------- MODULE MCThreads ------------------------------
(* Model-checking instances of what happens to threads: processes that fork *)
(* and end (ProcessLife, without execve()), the event they wait on, the     *)
(* reader/writer mutex they take, the exceptions they raise and the clocks  *)
(* they read.  A behaviour is one of one component, chosen in the initial   *)
(* state.                                                                   *)
EXTENDS MCProcessLife, Event, RWMutex, Fault, Clock, TLC

VARIABLE unit

threadsVars == <<vars, eventVars, rwVars, flVars, ckVars, unit>>

(* The threads of the mutex are named as those of the processes, the other  *)
(* threads of Event and those of Fault as the processes but Root, so that   *)
(* one group serves all.                                                    *)
Sym == Permutations(Thread) \union Permutations(Process \ {Root})

(* No process yet, where the processes do not run.                          *)
NoneYet ==
    /\ processes_lock = NoOne
    /\ proc = [p \in Process |-> NoProcess] /\ thread = [t \in Thread |-> NoThread]
    /\ broker_queue = <<>> /\ broker = [pc |-> "idle", p |-> NoOne, t |-> NoOne]

ThreadsInit ==
    /\ unit \in {"processes", "event", "rwmutex", "fault", "uptime"}
    /\ IF unit = "processes" THEN Init ELSE NoneYet
    /\ EvInit /\ RwInit /\ FlInit /\ CkInit
    /\ ckFormat = [bcd |-> TRUE, day24 |-> TRUE]

(* Everything but the mutex may come to an end.                             *)
ThreadsNext ==
    /\ UNCHANGED unit
    /\ \/ unit = "processes" /\ KillNext /\ UNCHANGED <<eventVars, rwVars, flVars, ckVars>>
       \/ unit = "event" /\ EvNext /\ UNCHANGED <<vars, rwVars, flVars, ckVars>>
       \/ unit = "rwmutex" /\ RwNext /\ UNCHANGED <<vars, eventVars, flVars, ckVars>>
       \/ unit = "fault" /\ FlNext /\ UNCHANGED <<vars, eventVars, rwVars, ckVars>>
       \/ unit = "uptime" /\ UptimeNext /\ UNCHANGED <<vars, eventVars, rwVars, flVars>>
       \/ unit # "rwmutex" /\ UNCHANGED <<vars, eventVars, rwVars, flVars, ckVars>>

ThreadsSpec == ThreadsInit /\ [][ThreadsNext]_threadsVars
=============================================================================
