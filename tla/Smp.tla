-------------------------------- MODULE Smp ---------------------------------
(* Processors that send each other packets by interrupt: CPU::broadcast(), *)
(* send() and handleIPP() (src/arch/x86_64/sys/cpu/ipc.cpp), the halt of a *)
(* panic (src/kernel/kpanic.cpp) and how the boot processor starts the     *)
(* others (src/arch/x86_64/sys/mcore.cpp, boot/mcore.asmr).                *)
EXTENDS Integers

CONSTANTS SmCpus,     \* 0 .. n, 0 the boot processor
          SmOps       \* packets a processor sends

ASSUME SmAssumption == (\E n \in SmCpus : n \in Nat /\ SmCpus = 0 .. n) /\ SmOps \in Nat

VARIABLES smCpus,     \* MCore::CPUs, those that are there
          smSend,     \* what each one sends: type, next target, pc, packets left to send
          smPacket,   \* m_ipi_packet of each one
          smIrq,      \* the interrupt: pending or not, and how far its handler is
          smInts,     \* interrupts enabled
          smHalted,
          smIppLock,  \* holder of ipp_lock, or none
          smOwed,     \* for a sender: processors that have not done what its packet says
          smBoot      \* the start of the other processors

smVars == <<smCpus, smSend, smPacket, smIrq, smInts, smHalted, smIppLock, smOwed, smBoot>>
smIpiVars == <<smSend, smPacket, smIrq, smInts, smHalted, smIppLock, smOwed>>

Nobody == -1
LastCpu == CHOOSE n \in SmCpus : SmCpus = 0 .. n
Quiet == [pc |-> "idle", type |-> "none", at |-> 0, left |-> SmOps]

SmInit ==
    /\ smSend = [c \in SmCpus |-> Quiet]
    /\ smPacket = [c \in SmCpus |-> [from |-> Nobody, type |-> "none", ack |-> TRUE]]
    /\ smIrq = [c \in SmCpus |-> [pending |-> FALSE, at |-> "out", type |-> "none", from |-> 0]]
    /\ smInts = [c \in SmCpus |-> TRUE]
    /\ smHalted = [c \in SmCpus |-> FALSE]
    /\ smIppLock = Nobody
    /\ smOwed = [c \in SmCpus |-> {}]
    /\ smCpus \in {up \in SUBSET SmCpus : 0 \in up}
    /\ smBoot = [id |-> 0, pc |-> "next", params |-> 0, flag |-> FALSE, told |-> {}, late |-> FALSE,
                 ap |-> [c \in SmCpus |-> "off"], got |-> [c \in SmCpus |-> 0]]

----------------------------------------------------------------------------
(* MCore::init(): one processor after the other.                           *)

Ap(c, s) == [smBoot EXCEPT !.ap[c] = s]

\* setup_trampoline() puts the parameters into low memory and the code, with
\* it the flag, to TRAMPOLINE_ADDR.
SetupTrampoline(boot, id) == [boot EXCEPT !.params = id, !.flag = FALSE]

\* The next processor that can start: INIT and SIPI.
StartNext ==
    /\ smBoot.pc = "next" /\ smBoot.id < LastCpu
    /\ smBoot' = [SetupTrampoline(Ap(smBoot.id + 1, "started"), smBoot.id + 1) EXCEPT !.id = @ + 1, !.pc = "wait"]
    /\ UNCHANGED <<smCpus, smIpiVars>>

\* The trampoline takes the parameters there are.
TrampolineRuns(c) ==
    /\ smBoot.ap[c] = "started"
    /\ smBoot' = [Ap(c, "params") EXCEPT !.got[c] = smBoot.params]
    /\ UNCHANGED <<smCpus, smIpiVars>>

\* finalize(): the CPU object goes into its slot.
Finalize(c) ==
    /\ smBoot.ap[c] = "params"
    /\ smCpus' = smCpus \cup {smBoot.got[c]}
    /\ smBoot' = Ap(c, "final")

\* Then the flag, and ap_wait().
SignalReady(c) ==
    /\ smBoot.ap[c] = "final"
    /\ smBoot' = [Ap(c, "ready") EXCEPT !.flag = TRUE]
    /\ UNCHANGED smCpus

\* start(): the flag, or the time is over.
StartReturns(timeout) ==
    /\ smBoot.pc = "wait" /\ (timeout \/ smBoot.flag)
    /\ smBoot' = [smBoot EXCEPT
                    !.pc = "next", !.late = @ \/ ~smBoot.flag,
                    !.told = IF smBoot.flag THEN @ \cup {smBoot.id} ELSE @]
    /\ UNCHANGED <<smCpus, smIpiVars>>

SmBootNext ==
    \/ StartNext
    \/ \E c \in SmCpus : TrampolineRuns(c) \/ (UNCHANGED smIpiVars /\ (Finalize(c) \/ SignalReady(c)))
    \/ \E timeout \in BOOLEAN : StartReturns(timeout)

----------------------------------------------------------------------------
(* Packets among the processors that are up.                               *)

Awake(c) == ~smHalted[c] /\ smIrq[c].at = "out"

\* broadcast() by a thread.
Broadcast(c, type) ==
    /\ Awake(c) /\ smSend[c].pc = "idle" /\ smSend[c].left > 0
    /\ smSend' = [smSend EXCEPT ![c] =
                    [pc |-> "lock", type |-> type, at |-> 0, left |-> @.left - 1]]
    /\ smOwed' = [smOwed EXCEPT ![c] = smCpus \ {c}]
    /\ UNCHANGED <<smPacket, smIrq, smHalted, smIppLock>>

\* kpanic(): interrupts off, the message, and the others are to halt.
Kpanic(c) == smInts' = [smInts EXCEPT ![c] = FALSE] /\ Broadcast(c, "halt")

TakeIppLock(c) ==
    /\ Awake(c) /\ smSend[c].pc = "lock" /\ smIppLock = Nobody
    /\ smIppLock' = c
    /\ smSend' = [smSend EXCEPT ![c].pc = "send"]
    /\ UNCHANGED <<smPacket, smIrq, smInts, smHalted, smOwed>>

\* _send() to the next one: the packet, then the interrupt.  Processors that
\* failed to start are left out.
SendPacket(c) ==
    LET k == smSend[c].at
    IN  /\ Awake(c) /\ smSend[c].pc = "send" /\ k <= LastCpu
        /\ \/ /\ k = c \/ k \notin smCpus
              /\ smSend' = [smSend EXCEPT ![c].at = @ + 1]
              /\ UNCHANGED <<smPacket, smIrq>>
           \/ /\ k # c /\ k \in smCpus
              /\ smPacket' = [smPacket EXCEPT ![k] = [from |-> c, type |-> smSend[c].type, ack |-> FALSE]]
              /\ smIrq' = [smIrq EXCEPT ![k].pending = TRUE]
              /\ smSend' = [smSend EXCEPT ![c].pc = "ack"]
        /\ UNCHANGED <<smInts, smHalted, smIppLock, smOwed>>

Acked(k) == smPacket[k].ack

\* _send() waits; it halts its own processor when the other one is halted.
AwaitAck(c) ==
    LET k == smSend[c].at
    IN  /\ Awake(c) /\ smSend[c].pc = "ack" /\ Acked(k)
        /\ smHalted' = [smHalted EXCEPT ![c] = smHalted[k]]
        /\ smSend' = [smSend EXCEPT ![c].pc = "send", ![c].at = @ + 1]
        /\ UNCHANGED <<smPacket, smIrq, smInts, smIppLock, smOwed>>

\* broadcast() returns; after the panic's comes halt().
BroadcastDone(c) ==
    /\ Awake(c) /\ smSend[c].pc = "send" /\ smSend[c].at > LastCpu
    /\ smIppLock' = Nobody
    /\ smSend' = [smSend EXCEPT ![c].pc = "idle"]
    /\ smHalted' = [smHalted EXCEPT ![c] = smSend[c].type = "halt"]
    /\ UNCHANGED <<smPacket, smIrq, smInts, smOwed>>

\* Mutant: no interrupts while the processor sends.
IpiHandleIdle(c) ==
    /\ Awake(c) /\ smIrq[c].pending /\ smInts[c] /\ smSend[c].pc = "idle"
    /\ smIrq' = [smIrq EXCEPT ![c] =
                   [pending |-> FALSE, at |-> "in", type |-> smPacket[c].type, from |-> smPacket[c].from]]
    /\ UNCHANGED <<smSend, smPacket, smInts, smHalted, smIppLock, smOwed>>
\* The interrupt: ipi_handle() with interrupts off.
IpiHandle(c) ==
    /\ Awake(c) /\ smIrq[c].pending /\ smInts[c]
    /\ smIrq' = [smIrq EXCEPT ![c] =
                   [pending |-> FALSE, at |-> "in", type |-> smPacket[c].type, from |-> smPacket[c].from]]
    /\ UNCHANGED <<smSend, smPacket, smInts, smHalted, smIppLock, smOwed>>

Ack(c) == smPacket' = [smPacket EXCEPT ![c].ack = TRUE]
Did(c) == smOwed' = [smOwed EXCEPT ![smIrq[c].from] = @ \ {c}]

\* Mutant: every type is acknowledged first.
AckFirstAll(type) == TRUE
\* resched and halt are acknowledged before they are done.
AckFirst(type) == type \in {"resched", "halt"}

\* handleIPP().
HandleIPP(c) ==
    LET type == smIrq[c].type
    IN  /\ ~smHalted[c] /\ smIrq[c].at \in {"in", "second"}
        /\ \/ /\ smIrq[c].at = "in"
              /\ IF AckFirst(type) THEN Ack(c) /\ UNCHANGED smOwed ELSE Did(c) /\ UNCHANGED smPacket
              /\ smIrq' = [smIrq EXCEPT ![c].at = "second"]
              /\ UNCHANGED smHalted
           \/ /\ smIrq[c].at = "second"
              /\ IF AckFirst(type) THEN Did(c) /\ UNCHANGED smPacket ELSE Ack(c) /\ UNCHANGED smOwed
              /\ smIrq' = [smIrq EXCEPT ![c].at = "out"]
              /\ smHalted' = [smHalted EXCEPT ![c] = type = "halt"]
        /\ UNCHANGED <<smSend, smInts, smIppLock>>

SmStep(c) ==
    \/ TakeIppLock(c) \/ SendPacket(c) \/ AwaitAck(c) \/ BroadcastDone(c)
    \/ IpiHandle(c) \/ HandleIPP(c)

SmNext ==
    /\ UNCHANGED <<smCpus, smBoot>>
    /\ \E c \in smCpus :
         \/ SmStep(c)
         \/ \E type \in {"inv", "resched"} : Broadcast(c, type) /\ UNCHANGED smInts
         \/ Kpanic(c)

SmSpec == SmInit /\ [][SmNext \/ SmBootNext]_smVars

\* The processors keep executing.
SmFairness == WF_smVars(SmNext /\ \E c \in SmCpus : SmStep(c))

----------------------------------------------------------------------------
(* Properties.                                                             *)

\* start() reports a processor only when its slot in CPUs holds an object, so
\* init() gives it its task state segment, and no two take the same slot, as
\* long as none comes up after start() has given it up (mcore.cpp:107-149,
\* mcore.asmr).
ReportedIsThere ==
    ~smBoot.late =>
        /\ smBoot.told \subseteq smCpus
        /\ \A c \in SmCpus : smBoot.ap[c] \in {"params", "final", "ready"} => smBoot.got[c] = c

\* When a sender goes on from a processor, that one has done what the packet
\* says: no entry of a page that was unmapped is left in its buffer
\* (ipc.cpp:64-80, 125-154).
DoneBeforeNext ==
    \A c, k \in SmCpus :
        (smSend[c].pc \in {"send", "ack"} /\ k < smSend[c].at /\ k # c /\ smSend[c].type = "inv")
        => k \notin smOwed[c]

\* While a handler looks at its packet, the packet is the one of a sender that
\* waits for it: nobody writes a new one (ipc.cpp:42-80).
PacketHeld ==
    \A k \in SmCpus :
        ~smPacket[k].ack =>
            LET c == smPacket[k].from
            IN  smSend[c].pc = "ack" /\ smSend[c].at = k /\ smIppLock = c

\* What one processor takes another to have done, it has done: to have
\* started, or to have carried out a packet that nobody overwrote.
HandshakesHold == ReportedIsThere /\ DoneBeforeNext /\ PacketHeld

\* Unless there is a panic, every packet that is sent reaches everybody and the
\* sender goes on, although all of them may be sending (ipc.cpp:21-84).
PacketsDelivered ==
    \A c \in SmCpus :
        smSend[c].pc # "idle" ~> smSend[c].pc = "idle" \/ \E k \in SmCpus : ~smInts[k]
=============================================================================
