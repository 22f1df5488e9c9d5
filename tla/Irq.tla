-------------------------------- MODULE Irq ---------------------------------
(* Routing of interrupts: the redirection entries of the I/O APICs as      *)
(* IRQ::init(), find_apic_tps() and MCore::init() leave them               *)
(* (src/arch/x86_64/sys/irq.cpp, irq/ioapic.cpp, mcore.cpp).               *)
EXTENDS Integers, Sequences, FiniteSets

CONSTANTS IrPins,        \* pins of each I/O APIC, in the order of the MADT
          IrLegacy,      \* interrupts 0 .. IrLegacy - 1 are set up
          IrOverrides,   \* possible source overrides: sequences of <<source, global>>
          IrCpuCounts

VARIABLES irOver,     \* the overrides of this machine
          irEntries,  \* <<ioapic, pin>> |-> vector (less 0x20), mask, destination
          irTodo,     \* calls that are still to come
          irCpuCount

irVars == <<irOver, irEntries, irTodo, irCpuCount>>

RouteCall(f, irq, val) == [f |-> f, irq |-> irq, val |-> val]

RECURSIVE BaseOf(_)
BaseOf(i) == IF i = 1 THEN 0 ELSE BaseOf(i - 1) + IrPins[i - 1]

\* IOAPIC::amount(): the register has the number of the last entry.
Amount(i) == IrPins[i] - 1

FindIoapic(irq) ==
    CHOOSE i \in DOMAIN IrPins : irq >= BaseOf(i) /\ irq <= BaseOf(i) + Amount(i)

\* The first override of the source, or the interrupt itself.
FindRedirection(irq) ==
    LET hits == {i \in DOMAIN irOver : irOver[i][1] = irq}
    IN  IF hits = {} THEN irq ELSE irOver[CHOOSE i \in hits : \A j \in hits : i <= j][2]

PinOf(irq) ==
    LET global == FindRedirection(irq)
        io     == FindIoapic(global)
    IN  <<io, global - BaseOf(io)>>

\* IOAPIC::vector(), mask() and destination(): one field of the entry.
SetEntry(pin, f, val) ==
    irEntries' = [irEntries EXCEPT ![pin] = [@ EXCEPT ![f] = val]]

\* init() for the timer of the PIT.
PitRoute == <<RouteCall("vector", 0, 2), RouteCall("mask", 0, TRUE), RouteCall("destination", 0, 0)>>

RECURSIVE RouteFrom(_)
RouteFrom(j) ==
    IF j = IrLegacy THEN <<>>
    ELSE <<RouteCall("vector", j, j), RouteCall("mask", j, FALSE), RouteCall("destination", j, 0)>> \o RouteFrom(j + 1)

\* Mutant: the pin stays open.
CalibrationOpen ==
    <<RouteCall("vector", 0, 31), RouteCall("mask", 0, FALSE), RouteCall("destination", 0, 0)>>
\* find_apic_tps() opens the PIT's pin for the calibration and closes it.
Calibration ==
    <<RouteCall("vector", 0, 31), RouteCall("mask", 0, FALSE), RouteCall("destination", 0, 0),
      RouteCall("vector", 0, 30), RouteCall("mask", 0, TRUE), RouteCall("destination", 0, 1)>>

\* MCore::init() spreads the interrupts.
Spread(n) == [i \in 1 .. IrLegacy |-> RouteCall("destination", i - 1, (i - 1) % n)]

\* init() masks the entries below amount(), so the last one of every I/O APIC
\* stays as the firmware left it.
IrInit ==
    /\ irOver \in IrOverrides
    /\ irCpuCount \in IrCpuCounts
    /\ \E closed \in BOOLEAN :
         irEntries = [p \in UNION {{i} \X (0 .. IrPins[i] - 1) : i \in DOMAIN IrPins} |->
                        [vector |-> 0, mask |-> p[2] < Amount(p[1]) \/ closed, destination |-> 0]]
    /\ irTodo = RouteFrom(1) \o PitRoute \o Calibration \o Spread(irCpuCount)

SetUp ==
    /\ irTodo # <<>>
    /\ SetEntry(PinOf(Head(irTodo).irq), Head(irTodo).f, Head(irTodo).val)
    /\ irTodo' = Tail(irTodo)
    /\ UNCHANGED <<irOver, irCpuCount>>

IrNext == SetUp

----------------------------------------------------------------------------
(* Properties, once everything is set up.                                  *)

\* The pin of the PIT is closed in the end, whatever it is redirected to, and
\* every other interrupt arrives as its own number: the pin it is wired to is
\* open and has its vector, unless an override gave the pin to another source
\* (irq.cpp:88-96, 181-215, 223-244).
RoutedToOwnVector ==
    irTodo = <<>> =>
        /\ irEntries[PinOf(0)].mask
        /\ \A j \in 1 .. IrLegacy - 1 :
             (\A k \in 0 .. IrLegacy - 1 : k # j => PinOf(k) # PinOf(j))
             => ~irEntries[PinOf(j)].mask /\ irEntries[PinOf(j)].vector = j

\* Every open pin goes to one of the processors (mcore.cpp:104-105).
DestinationExists ==
    irTodo = <<>> => \A p \in DOMAIN irEntries :
        ~irEntries[p].mask => irEntries[p].destination \in 0 .. irCpuCount - 1

\* Every interrupt line reaches its handler's vector on a processor that
\* exists.
IrqsRouted == RoutedToOwnVector /\ DestinationExists
=============================================================================
