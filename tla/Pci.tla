-------------------------------- MODULE Pci ---------------------------------
(* PCI configuration space: reads and writes through the address and data   *)
(* ports (src/arch/x86_64/sys/pci.cpp), the sizing of base address         *)
(* registers into resources, and the resource a driver then takes          *)
(* (src/mod/init/sata/sata.cpp, src/mod/core/rtl8139/rtl8139.cpp).         *)
(* Register r is the one at offset 4 * r; 4 .. 9 are the BARs.             *)
EXTENDS Integers, Sequences, FiniteSets

CONSTANTS PcThreads,
          PcBars,      \* BARs a device may have: [kind, addr, size]
          PcSystem     \* what the registers behind the BARs may hold

VARIABLES pcRegs,      \* the registers of the function that is scanned
          pcOnes,      \* registers that hold all ones in place of their value
          pcAt,        \* fill_bars(): i and the register
          pcRes,       \* the resources of the device
          pcPin,       \* int_pin of scan_device() and the functions' lines
          pcLock, pcLatch, pcThread   \* the ports and who uses them

pcScan == <<pcRegs, pcOnes, pcAt, pcRes, pcPin>>
pcPort == <<pcLock, pcLatch, pcThread>>
pcVars == <<pcScan, pcPort>>

----------------------------------------------------------------------------
(* fill_bars()                                                             *)

ZeroReg(r) == pcRegs[r].kind \in {"zero"}

\* ~(value & mask) + 1 in 32 bits: the size of the BAR; an I/O BAR may have
\* only sixteen bits, and then the upper half is ones.
Sized(bar) == IF bar.kind = "io16" THEN 65536 * 32767 + bar.size ELSE bar.size
\* Sizes of 64 KiB and more lose what is above sixteen bits.
LengthOf(bar) == IF Sized(bar) >= 65536 THEN Sized(bar) % 65536 ELSE Sized(bar)

IsIo(bar) == bar.kind \in {"io", "io16"}
IsWide(bar) == bar.kind = "mem64"

ResourceOf(r) ==
    [type |-> IF IsIo(pcRegs[r]) THEN "IO" ELSE "MEMORY", start |-> pcRegs[r].addr,
     end |-> pcRegs[r].addr + LengthOf(pcRegs[r]), of |-> r]

\* A 64-bit BAR has two registers.
NextBar(r) == IF IsWide(pcRegs[r]) THEN r + 2 ELSE r + 1

\* One turn of the loop, i from 0 to 5: all ones are written and the size read.
FillBar ==
    /\ pcAt.i < 6 /\ pcOnes = {}
    /\ IF ZeroReg(pcAt.r)
       THEN /\ pcAt' = [i |-> pcAt.i + 1, r |-> pcAt.r + 1]
            /\ UNCHANGED <<pcOnes, pcRes>>
       ELSE /\ pcOnes' = {pcAt.r}
            /\ pcRes' = Append(pcRes, ResourceOf(pcAt.r))
            /\ UNCHANGED pcAt
    /\ UNCHANGED <<pcRegs, pcPin, pcPort>>

\* write_dword(bar0), and on to the next.
Restore ==
    /\ pcOnes # {}
    /\ pcOnes' = pcOnes \ {pcAt.r}
    /\ pcAt' = [i |-> pcAt.i + 1, r |-> NextBar(pcAt.r)]
    /\ UNCHANGED <<pcRegs, pcRes, pcPin, pcPort>>

AfterPin(p) == IF p + 1 > 4 THEN 1 ELSE p + 1

\* scan_device() for the next function: one whose line register is not zero
\* gets the next pin.
ScanFunction ==
    /\ Len(pcPin.lines) < 8
    /\ \E line \in BOOLEAN :
         pcPin' = [next  |-> IF line THEN AfterPin(pcPin.next) ELSE pcPin.next,
                   lines |-> Append(pcPin.lines, IF line THEN pcPin.next ELSE 0)]
    /\ UNCHANGED <<pcRegs, pcOnes, pcAt, pcRes, pcPort>>

\* SATA::bind(): the last memory resource.  RTL8139: the first I/O resource.
LastMemory ==
    LET hits == {i \in 1 .. 6 : i <= Len(pcRes) /\ pcRes[i].type = "MEMORY"}
    IN  IF hits = {} THEN 0 ELSE pcRes[CHOOSE i \in hits : \A j \in hits : j <= i].start
FirstIo ==
    LET hits == {i \in 1 .. 6 : i <= Len(pcRes) /\ pcRes[i].type = "IO"}
    IN  IF hits = {} THEN 0 ELSE pcRes[CHOOSE i \in hits : \A j \in hits : i <= j].start

----------------------------------------------------------------------------
(* read_dword() and its kin: two ports under a lock.                       *)

\* Mutant: no lock.
TakePortsAnyway(t) == pcThread[t].pc = "idle" /\ UNCHANGED pcLock
TakePorts(t) == pcThread[t].pc = "idle" /\ pcLock = "free" /\ pcLock' = t

Acquire(t) ==
    /\ TakePorts(t)
    /\ \E reg \in 1 .. 2, f \in {"read", "write"} :
         pcThread' = [pcThread EXCEPT ![t] = [pc |-> "address", reg |-> reg, f |-> f, got |-> 0]]
    /\ UNCHANGED <<pcLatch, pcScan>>

\* outd(CONFIG_ADDRESS)
OutAddress(t) ==
    /\ pcThread[t].pc = "address"
    /\ pcLatch' = pcThread[t].reg
    /\ pcThread' = [pcThread EXCEPT ![t].pc = "data"]
    /\ UNCHANGED <<pcLock, pcScan>>

\* ind(CONFIG_DATA): the register the latch names.
InData(t) ==
    /\ pcThread[t].pc = "data"
    /\ pcThread' = [pcThread EXCEPT ![t].pc = IF pcThread[t].f = "write" THEN "back" ELSE "out",
                                    ![t].got = pcLatch]
    /\ UNCHANGED <<pcLock, pcLatch, pcScan>>

\* write_byte() and write_word() put the changed value back.
OutData(t) ==
    /\ pcThread[t].pc = "back"
    /\ pcThread' = [pcThread EXCEPT ![t].pc = "out", ![t].got = IF @ = pcLatch THEN @ ELSE 0]
    /\ UNCHANGED <<pcLock, pcLatch, pcScan>>

Release(t) ==
    /\ pcThread[t].pc = "out"
    /\ pcLock' = "free"
    /\ pcThread' = [pcThread EXCEPT ![t].pc = "idle"]
    /\ UNCHANGED <<pcLatch, pcScan>>

Bars == {[r \in 0 .. 15 |-> CASE r \in 4 .. 9 -> b[r] [] r = 11 -> sys [] OTHER -> [kind |-> "zero", addr |-> 0, size |-> 0]] :
            b \in [4 .. 9 -> PcBars], sys \in PcSystem}

\* The register after a 64-bit BAR is its upper half.
WellFormed(regs) == \A r \in 4 .. 9 : IsWide(regs[r]) => r < 9 /\ regs[r + 1].kind = "zero"

Layouts == {regs \in Bars : WellFormed(regs)}

PcInit ==
    /\ pcRegs \in Layouts
    /\ pcOnes = {} /\ pcAt = [i |-> 0, r |-> 4] /\ pcRes = <<>> /\ pcPin = [next |-> 1, lines |-> <<>>]
    /\ pcLock = "free" /\ pcLatch = 0
    /\ pcThread = [t \in PcThreads |-> [pc |-> "idle", reg |-> 0, f |-> "read", got |-> 0]]

PcScanNext == FillBar \/ Restore
PcPortNext == \E t \in PcThreads : Acquire(t) \/ OutAddress(t) \/ InData(t) \/ OutData(t) \/ Release(t)

----------------------------------------------------------------------------
(* Properties.                                                             *)

Scanned == pcAt.i = 6

\* A register that is being sized is the one the loop is at: once it goes on,
\* the device answers at its old address again (pci.cpp:205-233).
BarsRestored == pcOnes \subseteq {pcAt.r} /\ (pcAt.i = 6 => pcOnes = {})

\* With at most one 64-bit BAR, the resources are the BARs that are not zero,
\* in their order, each with its address and, below 64 KiB, its length; with two
\* the loop goes on behind the BARs (pci.cpp:188-239).
ResourcesAreBars ==
    Scanned /\ Cardinality({r \in 4 .. 9 : IsWide(pcRegs[r])}) <= 1 =>
        LET bars == {r \in 4 .. 9 : pcRegs[r].kind # "zero"}
        IN  /\ Len(pcRes) = Cardinality(bars)
            /\ \A i \in DOMAIN pcRes :
                 LET r == pcRes[i].of
                 IN  /\ r \in bars /\ pcRes[i].start = pcRegs[r].addr
                     /\ Cardinality({q \in bars : q <= r}) = i
                     /\ pcRegs[r].size < 65536 => pcRes[i].end = pcRegs[r].addr + pcRegs[r].size

\* AHCI's registers are in its last BAR, and that is what SATA::bind() maps; the
\* RTL8139 driver takes the first I/O BAR (sata.cpp:41-48, rtl8139.cpp:88-95).
DriversFindTheirs ==
    Scanned /\ Cardinality({r \in 4 .. 9 : IsWide(pcRegs[r])}) <= 1 =>
        /\ pcRegs[9].kind = "mem" => LastMemory = pcRegs[9].addr
        /\ IsIo(pcRegs[4]) => FirstIo = pcRegs[4].addr

\* Functions share the four pins evenly: two functions with neighbouring turns
\* never share one (pci.cpp:246, 279-287).
PinsInTurn ==
    LET used == SelectSeq(pcPin.lines, LAMBDA p : p # 0)
    IN  \A i \in 1 .. Len(used) : used[i] = ((i - 1) % 4) + 1

\* A thread gets the register it asked for (pci.cpp:101-169).
ReadsOwnRegister == \A t \in PcThreads : pcThread[t].pc \in {"back", "out"} => pcThread[t].got = pcThread[t].reg

\* A driver learns of its function what the registers say, and sizing leaves
\* them as they were (pci.cpp:101-290).
FunctionsReported ==
    BarsRestored /\ ResourcesAreBars /\ DriversFindTheirs /\ PinsInTurn /\ ReadsOwnRegister
=============================================================================
