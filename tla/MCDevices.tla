----------------------------- MODULE MCDevices ------------------------------
(* Model-checking instances of the machine's side of the kernel: its       *)
(* processors (Smp), interrupts (Irq), configuration space (Pci), device   *)
(* tree (DevTree), drives (Sata), keyboard (Input), screen (Terminal) and  *)
(* the modules that bring the drivers (Loader).  A behaviour is one of one *)
(* component, chosen in the initial state.                                 *)
EXTENDS Smp, Irq, Loader, Pci, DevTree, Sata, Input, Terminal

VARIABLE unit

cpuVars == <<smVars, irVars>>
busVars == <<pcVars, dvVars, saVars>>
ttyVars == <<inVars, tmVars>>
deviceVars == <<cpuVars, busVars, ttyVars, ldVars, unit>>

\* Two I/O APICs, and sources routed to pins of the first, of the second,
\* crosswise and twice.
MCIrPins == <<4, 3>>
MCIrOverrides ==
    {<<>>, <<<<0, 2>>>>, <<<<0, 2>>, <<3, 5>>>>, <<<<1, 4>>, <<4, 1>>>>, <<<<0, 4>>, <<0, 1>>>>}

\* Module files: one that defines what others need, two that define the same
\* name, one that waits for a symbol, a second copy, one with a symbol nobody
\* has, one without module_exit.
MCSections ==
    [i \in 0 .. 2 |-> CASE i = 0 -> [n |-> "", alloc |-> FALSE] [] i = 1 -> [n |-> ".text", alloc |-> TRUE]
                        [] OTHER -> [n |-> ".note", alloc |-> FALSE]]
MCSymbol(n, sec, off, bind) == [n |-> n, sec |-> sec, off |-> off, bind |-> bind]
MCStandard ==
    <<MCSymbol("", 1, 0, "local"), MCSymbol("module_enter", 1, 1, "global"),
      MCSymbol("module_exit", 1, 2, "global"), MCSymbol("MODULE_NAME", 1, 3, "global")>>
MCFile(name, order, syms, relocs, gives, waits) ==
    [name |-> name, order |-> order, valid |-> TRUE, secs |-> MCSections,
     syms |-> MCStandard \o syms, relocs |-> relocs, gives |-> gives, waits |-> waits]
MCDef(n) == MCSymbol(n, 1, 4, "global")
MCUndef(n) == MCSymbol(n, 0, 0, "global")
MCNetstack ==
    MCFile("netstack", 1, <<MCUndef("f"), MCDef("g"), MCSymbol("kmalloc", 1, 5, "global")>>, <<5, 6, 7>>, {}, {})
MCAcpi ==
    MCFile("acpi", 1, <<MCDef("g"), MCSymbol("h", 1, 5, "local"), MCUndef("kmalloc")>>, <<5, 6, 7>>, {"pin"}, {})
MCRtl8139 == MCFile("rtl8139", 10, <<MCUndef("g"), MCUndef("f")>>, <<5, 6>>, {}, {"pin"})
MCBroken == MCFile("testmod", 50, <<MCUndef("g"), MCUndef("missing")>>, <<5, 6>>, {}, {})
MCCopy == [MCNetstack EXCEPT !.order = 99]
MCNoExit == [MCRtl8139 EXCEPT !.syms = SubSeq(@, 1, 2), !.relocs = <<1>>, !.order = 99]
MCLdBoot == <<MCFile("sata", 0, <<MCDef("f"), MCUndef("printk")>>, <<1, 6, 5>>, {}, {})>>
MCLdFiles == {MCNetstack, MCAcpi, MCRtl8139, MCCopy, MCBroken, MCNoExit}
MCLdKernel == <<[n |-> "kmalloc", addr |-> <<0, 0, 1>>], [n |-> "printk", addr |-> <<0, 0, 2>>]>>

MCBar(kind, addr, size) == [kind |-> kind, addr |-> addr, size |-> size]
MCPcBars == {MCBar("zero", 0, 0), MCBar("io16", 49152, 256), MCBar("mem", 131072, 4096),
             MCBar("mem64", 524288, 65536)}
MCPcSystem == {MCBar("zero", 0, 0), MCBar("mem", 17, 0)}

\* Up to three functions on the PCI bus, controllers with up to three ports.
MCPorts == {<<>>, <<"atapi">>, <<"ata", "atapi">>, <<"semb", "atapi", "atapi">>}
MCFunctions == [kind : {"ahci"}, ports : MCPorts] \cup [kind : {"nic", "other"}, ports : {<<>>}]
MCDvPci == UNION {[1 .. k -> MCFunctions] : k \in 0 .. 3}
MCDvBoot == {<<"sata">>}
MCDvCore == {<<"rtl8139", "ps2">>, <<"ps2", "rtl8139">>}

\* A buffer within a page, one across a boundary, one of whole pages.
MCSaBuffers == {<<3, 1>>, <<3, 5>>, <<2, 8>>}

MCInNormal == [s28 |-> "a", s18 |-> "lshift", s89 |-> "rshift", s20 |-> "lctrl", s88 |-> "capslock"]
MCInExtra == [s20 |-> "rctrl", s18 |-> "none", s17 |-> "ralt"]

\* What a program writes: characters and escape sequences, complete, with
\* several arguments, with too many digits, with none.
MCToken(chars, means) == [chars |-> chars, means |-> means]
MCTmTokens ==
    {MCToken(<<"a">>, <<"put", "a">>), MCToken(<<"1">>, <<"put", "1">>),
     MCToken(<<"nl">>, <<"nl">>), MCToken(<<"cr">>, <<"cr">>),
     MCToken(<<"esc", "[", "3", "1", "m">>, <<"fg", 1>>),
     MCToken(<<"esc", "[", "4", "1", ";", "1", "m">>, <<"bg", 1>>),
     MCToken(<<"esc", "[", "1", ";", "1", "H">>, <<"move", 1, 1>>),
     MCToken(<<"esc", "[", "0", ";", "1", ";", "2", ":", "0", "H">>, <<"move", 0, 0>>),
     MCToken(<<"esc", "]", "3", "1", "m">>, <<"skip">>),
     MCToken(<<"esc", "[", "9", "9", "9", "m">>, <<"skip">>),
     MCToken(<<"esc", "[", "m">>, <<"skip">>)}
MCTmSmall == <<2, 2>>
MCTmLarge == <<3, 3>>

\* The choices of the components that do not run.
Fixed(u, choice) == IF unit = u THEN TRUE ELSE choice

DevicesInit ==
    /\ unit \in {"packets", "boot", "irq", "loader", "bars", "pins", "ports", "tree", "sata", "keys", "screen"}
    /\ Fixed("packets", smCpus = {0})
    /\ Fixed("irq", irOver = <<>> /\ irCpuCount = 1)
    /\ Fixed("loader", ldDir = <<>>)
    /\ Fixed("bars", pcRegs = [r \in 0 .. 15 |-> MCBar("zero", 0, 0)])
    /\ Fixed("tree", dvMachine = [pci |-> <<>>, ps2 |-> FALSE])
    /\ Fixed("sata", saActive = {"t1"})
    /\ SmInit /\ IrInit /\ LdInit /\ PcInit /\ DvInit /\ SaInit /\ InInit /\ TmInit
    /\ Fixed("irq", \A p \in DOMAIN irEntries : irEntries[p].mask)
    /\ Fixed("tree", Last(dvCalls).x = "ps2")

DevicesNext ==
    /\ UNCHANGED unit
    /\ \/ unit = "packets" /\ SmNext /\ UNCHANGED <<irVars, busVars, ttyVars, ldVars>>
       \/ unit = "boot" /\ SmBootNext /\ UNCHANGED <<irVars, busVars, ttyVars, ldVars>>
       \/ unit = "irq" /\ IrNext /\ UNCHANGED <<smVars, busVars, ttyVars, ldVars>>
       \/ unit = "loader" /\ LdNext /\ UNCHANGED <<cpuVars, busVars, ttyVars>>
       \/ unit = "bars" /\ PcScanNext /\ UNCHANGED <<cpuVars, dvVars, saVars, ttyVars, ldVars>>
       \/ unit = "pins" /\ ScanFunction /\ UNCHANGED <<cpuVars, dvVars, saVars, ttyVars, ldVars>>
       \/ unit = "ports" /\ PcPortNext /\ UNCHANGED <<cpuVars, dvVars, saVars, ttyVars, ldVars>>
       \/ unit = "tree" /\ DvNext /\ UNCHANGED <<cpuVars, pcVars, saVars, ttyVars, ldVars>>
       \/ unit = "sata" /\ SaNext /\ UNCHANGED <<cpuVars, pcVars, dvVars, ttyVars, ldVars>>
       \/ unit = "keys" /\ InNext /\ UNCHANGED <<cpuVars, busVars, tmVars, ldVars>>
       \/ unit = "screen" /\ TmNext /\ UNCHANGED <<cpuVars, busVars, inVars, ldVars>>

(* SmFairness, for the behaviours of the processors.                       *)
DevicesFairness == WF_smVars(unit = "packets" /\ SmNext /\ \E c \in SmCpus : SmStep(c))

DevicesSpec == DevicesInit /\ [][DevicesNext]_deviceVars /\ DevicesFairness
=============================================================================
