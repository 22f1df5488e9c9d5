------------------------------- MODULE Fault --------------------------------
(* Processor exceptions (src/arch/x86_64/sys/cpu/fault.cpp).  The handler   *)
(* of a page fault or an invalid opcode puts the thread's counters aside,   *)
(* turns interrupts on and works as an ordinary thread, which may be        *)
(* switched out and go on on another CPU, before it puts them back.         *)
EXTENDS Integers, Sequences, FiniteSets

CONSTANTS FlCpus, FlThreads,
          FlIdle,      \* what runs on a CPU that no thread has
          FlDepth      \* bound on the sections a thread is in

ASSUME FlAssumption == FlCpus # {} /\ FlIdle \notin FlThreads

VARIABLES flRun,       \* CPU |-> current_thread
          flIn,        \* CPU |-> in_interrupt
          flEnabled,   \* CPU |-> it takes interrupts
          flPc,        \* thread |-> where it is
          flOwn,       \* thread |-> the sections, busy or critical, its code is in
          flBusy, flCritical, flAborting, flFaulting,  \* thread |-> its members
          flPending,   \* thread |-> a signal of its own fault is pending
          flKind,      \* thread |-> what its exception comes to
          flSaved,     \* thread |-> Thread::state, and the length of flOwn then
          flCpu,       \* thread |-> cpu of common_fault_handler()
          flHalted     \* kpanic(), or IPP_HALT to all

flCpuVars == <<flRun, flIn, flEnabled>>
flFrameVars == <<flFaulting, flKind, flSaved, flCpu>>
flVars == <<flCpuVars, flPc, flOwn, flBusy, flCritical, flAborting, flPending, flFrameVars, flHalted>>

\* t, on CPU c, is at the place p.
FlAt(t, c, p) == ~flHalted /\ flRun[c] = t /\ flPc[t] = p
GoesTo(t, p) == flPc' = [flPc EXCEPT ![t] = p]
\* t runs code: its own, or what the handler of its fault does.
InCode(t, c) == FlAt(t, c, "code") \/ FlAt(t, c, "out")

----------------------------------------------------------------------------
(* Sections.                                                                *)

\* addBusy(), addCritical().
EnterSection(t, c, s) ==
    /\ InCode(t, c) /\ Len(flOwn[t]) < FlDepth
    /\ flOwn' = [flOwn EXCEPT ![t] = Append(@, s)]
    /\ flBusy' = [flBusy EXCEPT ![t] = @ + 1]
    /\ flCritical' = [flCritical EXCEPT ![t] = IF s = "critical" THEN @ + 1 ELSE @]
    /\ UNCHANGED <<flCpuVars, flPc, flAborting, flPending, flFrameVars, flHalted>>

\* What subBusy() does of a thread that is no longer busy: exit(), or the
\* pending signal.
NoLongerBusy(t) == flBusy[t] = 1
AfterBusy(t) ==
    /\ GoesTo(t, IF NoLongerBusy(t) /\ flAborting[t] THEN "exit" ELSE IF flPc[t] = "sub" THEN "return" ELSE flPc[t])
    /\ flPending' = [flPending EXCEPT ![t] = @ /\ ~(NoLongerBusy(t) /\ ~flAborting[t])]

\* subBusy(), subCritical(): the second does not look at aborting().
LeaveSection(t, c) ==
    /\ InCode(t, c)
    /\ Len(flOwn[t]) > IF flFaulting[t] THEN flSaved[t].depth ELSE 0
    /\ flOwn' = [flOwn EXCEPT ![t] = SubSeq(@, 1, Len(@) - 1)]
    /\ flBusy' = [flBusy EXCEPT ![t] = @ - 1]
    /\ LET s == flOwn[t][Len(flOwn[t])]
       IN  /\ flCritical' = [flCritical EXCEPT ![t] = IF s = "critical" THEN @ - 1 ELSE @]
           /\ IF s = "critical" THEN UNCHANGED <<flPc, flPending>> ELSE AfterBusy(t)
    /\ UNCHANGED <<flCpuVars, flAborting, flFrameVars, flHalted>>

\* Thread::exit() asserts that interrupts are on; then the thread is dead.
ExitThread(t, c) ==
    /\ FlAt(t, c, "exit")
    /\ IF flEnabled[c]
       THEN GoesTo(t, "dead") /\ flRun' = [flRun EXCEPT ![c] = FlIdle] /\ UNCHANGED flHalted
       ELSE flHalted' = TRUE /\ UNCHANGED <<flPc, flRun>>
    /\ UNCHANGED <<flIn, flEnabled, flOwn, flBusy, flCritical, flAborting, flPending, flFrameVars>>

----------------------------------------------------------------------------
(* The exception.  It ends in a page of a mapped region, in a signal to a   *)
(* user's thread, in a panic after the handler found nothing, in a message  *)
(* (debug, NMI), or in a panic at once.                                     *)

RaiseFault(t, c, kind) ==
    /\ InCode(t, c)
    /\ kind = "signal" => flOwn[t] = <<>>
    /\ flIn' = [flIn EXCEPT ![c] = @ + 1]
    /\ flEnabled' = [flEnabled EXCEPT ![c] = FALSE]
    /\ flBusy' = [flBusy EXCEPT ![t] = @ + 1]
    /\ IF flFaulting[t]
       THEN flHalted' = TRUE /\ UNCHANGED <<flPc, flFaulting, flKind, flCpu>>
       ELSE /\ GoesTo(t, "entered")
            /\ flFaulting' = [flFaulting EXCEPT ![t] = TRUE]
            /\ flKind' = [flKind EXCEPT ![t] = kind]
            /\ flCpu' = [flCpu EXCEPT ![t] = c]
            /\ UNCHANGED flHalted
    /\ UNCHANGED <<flRun, flOwn, flCritical, flAborting, flPending, flSaved>>

Handled == {"region", "signal", "nothing"}

OutBusy == 1

\* out()
Out(t, c) ==
    /\ FlAt(t, c, "entered") /\ flKind[t] \in Handled
    /\ flSaved' = [flSaved EXCEPT ![t] = [busy |-> flBusy[t], critical |-> flCritical[t], depth |-> Len(flOwn[t])]]
    /\ flBusy' = [flBusy EXCEPT ![t] = OutBusy]
    /\ flCritical' = [flCritical EXCEPT ![t] = 0]
    /\ flIn' = [flIn EXCEPT ![flCpu[t]] = @ - 1]
    /\ flEnabled' = [flEnabled EXCEPT ![c] = TRUE]
    /\ GoesTo(t, "out")
    /\ UNCHANGED <<flRun, flOwn, flAborting, flPending, flFaulting, flKind, flCpu, flHalted>>

Current(t, c) == c

\* Mutant: the counters stay as out() set them.
LoadStateNot(t) == UNCHANGED <<flBusy, flCritical>>
LoadState(t) ==
    /\ flBusy' = [flBusy EXCEPT ![t] = flSaved[t].busy]
    /\ flCritical' = [flCritical EXCEPT ![t] = flSaved[t].critical]

\* The region has been read or the signal sent; in().
In(t, c) ==
    /\ FlAt(t, c, "out") /\ Len(flOwn[t]) = flSaved[t].depth
    /\ flPending' = [flPending EXCEPT ![t] = @ \/ flKind[t] = "signal"]
    /\ flEnabled' = [flEnabled EXCEPT ![c] = FALSE]
    /\ flCpu' = [flCpu EXCEPT ![t] = Current(t, c)]
    /\ flIn' = [flIn EXCEPT ![Current(t, c)] = @ + 1]
    /\ LoadState(t)
    /\ GoesTo(t, "back")
    /\ UNCHANGED <<flRun, flOwn, flAborting, flFaulting, flKind, flSaved, flHalted>>

Panic(t, c) ==
    /\ \/ FlAt(t, c, "back") /\ flKind[t] = "nothing"
       \/ FlAt(t, c, "entered") /\ flKind[t] = "fatal"
    /\ flHalted' = TRUE
    /\ UNCHANGED <<flCpuVars, flPc, flOwn, flBusy, flCritical, flAborting, flPending, flFrameVars>>

\* in_interrupt--, faulting = false ...; the handler's locals are gone.
NoState == [busy |-> 0, critical |-> 0, depth |-> 0]
FirstCpu == CHOOSE c \in FlCpus : TRUE
LeaveFault(t, c) ==
    /\ \/ FlAt(t, c, "back") /\ flKind[t] # "nothing"
       \/ FlAt(t, c, "entered") /\ flKind[t] = "message"
    /\ flIn' = [flIn EXCEPT ![c] = @ - 1]
    /\ flFaulting' = [flFaulting EXCEPT ![t] = FALSE]
    /\ flKind' = [flKind EXCEPT ![t] = "message"]
    /\ flSaved' = [flSaved EXCEPT ![t] = NoState] /\ flCpu' = [flCpu EXCEPT ![t] = FirstCpu]
    /\ GoesTo(t, "sub")
    /\ UNCHANGED <<flRun, flEnabled, flOwn, flBusy, flCritical, flAborting, flPending, flHalted>>

\* ... subBusy() ...
SubBusyLast(t, c) ==
    /\ FlAt(t, c, "sub")
    /\ flBusy' = [flBusy EXCEPT ![t] = @ - 1]
    /\ AfterBusy(t)
    /\ UNCHANGED <<flCpuVars, flOwn, flCritical, flAborting, flFrameVars, flHalted>>

\* ... and iretq.
ReturnFault(t, c) ==
    /\ FlAt(t, c, "return")
    /\ flEnabled' = [flEnabled EXCEPT ![c] = TRUE]
    /\ GoesTo(t, "code")
    /\ UNCHANGED <<flRun, flIn, flOwn, flBusy, flCritical, flAborting, flPending, flFrameVars, flHalted>>

----------------------------------------------------------------------------
(* The others.                                                              *)

\* schedule(): another thread, or none, for one that is not critical.
Switch(c, t) ==
    /\ ~flHalted /\ flEnabled[c]
    /\ flRun[c] # FlIdle => flCritical[flRun[c]] = 0
    /\ t # flRun[c] /\ (t # FlIdle => flPc[t] # "dead" /\ \A d \in FlCpus : flRun[d] # t)
    /\ flRun' = [flRun EXCEPT ![c] = t]
    /\ UNCHANGED <<flIn, flEnabled, flPc, flOwn, flBusy, flCritical, flAborting, flPending, flFrameVars, flHalted>>

\* abort(true) of a thread that no CPU runs and so holds the lock of.
AbortThread(t) ==
    /\ ~flHalted /\ ~flAborting[t] /\ \A c \in FlCpus : flRun[c] # t
    /\ flAborting' = [flAborting EXCEPT ![t] = TRUE]
    /\ flPc' = IF flBusy[t] > 0 THEN flPc ELSE [flPc EXCEPT ![t] = "dead"]
    /\ UNCHANGED <<flCpuVars, flOwn, flBusy, flCritical, flPending, flFrameVars, flHalted>>

----------------------------------------------------------------------------
FlInit ==
    /\ flRun = [c \in FlCpus |-> FlIdle]
    /\ flIn = [c \in FlCpus |-> 0]
    /\ flEnabled = [c \in FlCpus |-> TRUE]
    /\ flPc = [t \in FlThreads |-> "code"] /\ flOwn = [t \in FlThreads |-> <<>>]
    /\ flBusy = [t \in FlThreads |-> 0] /\ flCritical = [t \in FlThreads |-> 0]
    /\ flAborting = [t \in FlThreads |-> FALSE] /\ flFaulting = [t \in FlThreads |-> FALSE]
    /\ flPending = [t \in FlThreads |-> FALSE]
    /\ flKind = [t \in FlThreads |-> "message"]
    /\ flSaved = [t \in FlThreads |-> NoState]
    /\ flCpu = [t \in FlThreads |-> FirstCpu]
    /\ flHalted = FALSE

FlStep(t, c) ==
    \/ \E s \in {"busy", "critical"} : EnterSection(t, c, s)
    \/ LeaveSection(t, c) \/ ExitThread(t, c)
    \/ \E kind \in Handled \cup {"message", "fatal"} : RaiseFault(t, c, kind)
    \/ Out(t, c) \/ In(t, c) \/ Panic(t, c) \/ LeaveFault(t, c) \/ SubBusyLast(t, c) \/ ReturnFault(t, c)

FlNext ==
    \/ \E t \in FlThreads, c \in FlCpus : FlStep(t, c)
    \/ \E c \in FlCpus, t \in FlThreads \cup {FlIdle} : Switch(c, t)
    \/ \E t \in FlThreads : AbortThread(t)

FlSpec == FlInit /\ [][FlNext]_flVars

----------------------------------------------------------------------------
(* Properties.                                                              *)

\* in_interrupt of a CPU counts the handlers that hold it and no other, on
\* whichever CPU a fault was taken and ended (fault.cpp:66, 270-289).
InInterruptExact ==
    ~flHalted => \A c \in FlCpus :
        flIn[c] = IF flRun[c] # FlIdle /\ flPc[flRun[c]] \in {"entered", "back"} THEN 1 ELSE 0

\* A fault leaves the counters of the code it interrupted as they were, however
\* often the thread was switched out meanwhile (fault.cpp:270-289).
CountersRestored ==
    \A t \in FlThreads : flPc[t] = "code" =>
        /\ flBusy[t] = Len(flOwn[t])
        /\ flCritical[t] = Cardinality({i \in DOMAIN flOwn[t] : flOwn[t][i] = "critical"})

\* Every count that a fault changes, of the CPU and of the thread, is put
\* back where it belongs (fault.cpp:66 and 270-289).
FaultCountersExact == InInterruptExact /\ CountersRestored

\* Thread::exit() is called with interrupts on, as its assertion says
\* (thread.cpp:146).
ExitInterruptible == \A c \in FlCpus : flRun[c] # FlIdle /\ flPc[flRun[c]] = "exit" => flEnabled[c]
=============================================================================
