------------------------------ MODULE DevTree -------------------------------
(* The device tree: buses, devices and drivers that find one another       *)
(* (src/dev/tree/), and the drivers of the repository, whose bind() makes  *)
(* buses and registers devices in turn (pci.cpp, sata.cpp, ahci.cpp,       *)
(* sr.cpp, sd.cpp, rtl8139.cpp, ps2/main.cpp).                             *)
(* dvCalls is the call stack: what is still to be done, innermost first.   *)
EXTENDS Integers, Sequences, SequencesExt

CONSTANTS DvPci,       \* possible contents of the PCI bus: sequences of functions
          DvBoot,      \* drivers of modules from the boot loader
          DvCore,      \* drivers of core modules, in the order they are loaded
          DvLetters    \* letters of the alphabet of names

VARIABLES dvCalls,
          dvBuses,     \* bus |-> its devices and drivers
          dvBound,     \* <<driver, device>> for every call of bind()
          dvDevices,   \* the devices user programs can open, with their names
          dvNames,     \* pattern |-> the name it gives next
          dvMachine

dvVars == <<dvCalls, dvBuses, dvBound, dvDevices, dvNames, dvMachine>>

Do(f, bus, x, y) == [f |-> f, bus |-> bus, x |-> x, y |-> y]
Device(kind, at) == [kind |-> kind, at |-> at, name |-> <<>>]
None == Device("none", <<>>)

Then(calls) == dvCalls' = calls \o Tail(dvCalls)
Top(f) == dvCalls # <<>> /\ Head(dvCalls).f = f
BusExists(bus) == bus \in DOMAIN dvBuses

----------------------------------------------------------------------------
(* Tree and Bus                                                            *)

BusConstructor ==
    /\ Top("bus")
    /\ dvBuses' = [b \in DOMAIN dvBuses \cup {Head(dvCalls).bus} |->
                     IF b \in DOMAIN dvBuses THEN dvBuses[b] ELSE [devices |-> <<>>, drivers |-> <<>>]]
    /\ Then(<<>>)
    /\ UNCHANGED <<dvBound, dvDevices, dvNames, dvMachine>>

\* Bus::registerDevice(): every driver of the bus is asked.
RegisterDevice ==
    /\ Top("device")
    /\ LET c == Head(dvCalls)
       IN  IF BusExists(c.bus)
           THEN /\ dvBuses' = [dvBuses EXCEPT ![c.bus].devices = Append(@, c.x)]
                /\ Then(<<Do("drivers", c.bus, c.x, 1)>>)
           ELSE Then(<<>>) /\ UNCHANGED dvBuses
    /\ UNCHANGED <<dvBound, dvDevices, dvNames, dvMachine>>

\* Bus::registerDriver(), or nothing if there is no such bus.
RegisterDriver ==
    /\ Top("driver")
    /\ LET c == Head(dvCalls)
       IN  IF BusExists(c.bus)
           THEN /\ dvBuses' = [dvBuses EXCEPT ![c.bus].drivers = Append(@, c.x)]
                /\ Then(<<Do("devices", c.bus, c.x, 1)>>)
           ELSE Then(<<>>) /\ UNCHANGED dvBuses
    /\ UNCHANGED <<dvBound, dvDevices, dvNames, dvMachine>>

\* Driver::check() of every driver.
Check(driver, device) ==
    CASE driver = "pci"     -> device.kind = "pci"
      [] driver = "ps2"     -> device.kind = "ps2"
      [] driver = "sata"    -> device.kind = "ahci"
      [] driver = "rtl8139" -> device.kind = "nic"
      [] driver = "sd"      -> device.kind = "ata"
      [] driver = "sr"      -> device.kind = "atapi"
      [] OTHER -> FALSE

\* The iterators read the array anew for every step, so they reach what a
\* bind() in between has added.
NextDriver ==
    /\ Top("drivers")
    /\ LET c  == Head(dvCalls)
           ds == dvBuses[c.bus].drivers
       IN  IF c.y > Len(ds) THEN Then(<<>>)
           ELSE Then((IF Check(ds[c.y], c.x) THEN <<Do("bind", c.bus, c.x, ds[c.y])>> ELSE <<>>)
                     \o <<[c EXCEPT !.y = @ + 1]>>)
    /\ UNCHANGED <<dvBuses, dvBound, dvDevices, dvNames, dvMachine>>

NextDevice ==
    /\ Top("devices")
    /\ LET c  == Head(dvCalls)
           ds == dvBuses[c.bus].devices
       IN  IF c.y > Len(ds) THEN Then(<<>>)
           ELSE Then((IF Check(c.x, ds[c.y]) THEN <<Do("bind", c.bus, ds[c.y], c.x)>> ELSE <<>>)
                     \o <<[c EXCEPT !.y = @ + 1]>>)
    /\ UNCHANGED <<dvBuses, dvBound, dvDevices, dvNames, dvMachine>>

----------------------------------------------------------------------------
(* bind() of the drivers                                                   *)

\* letter_incrementation::get(): the first letter counts fastest, a letter past
\* the last carries, and a carry past the end adds a letter.
NextLetters(name) ==
    LET full == {i \in DOMAIN name : \A j \in 1 .. i : name[j] = DvLetters}
        next == [i \in DOMAIN name |-> IF i \in full THEN 1
                                      ELSE IF i - 1 \in full \cup {0} THEN name[i] + 1 ELSE name[i]]
    IN  IF full = DOMAIN name THEN Append(next, 1) ELSE next

\* name_letter_increment(), name_number_increment().
NextName(pattern) == IF pattern = "eth" THEN <<dvNames[pattern][1] + 1>> ELSE NextLetters(dvNames[pattern])

Binds(driver, device, calls) ==
    /\ Top("bind") /\ Head(dvCalls).y = driver /\ Head(dvCalls).x = device
    /\ dvBound' = Append(dvBound, <<driver, device>>)
    /\ Then(calls)
    /\ UNCHANGED dvMachine

\* The bus, and a device for every function that answers.
BindPci ==
    /\ Binds("pci", Device("pci", <<>>),
             <<Do("bus", "pci", None, None)>> \o
             [i \in DOMAIN dvMachine.pci |-> Do("device", "pci", Device(dvMachine.pci[i].kind, <<i>>), None)])
    /\ UNCHANGED <<dvBuses, dvDevices, dvNames>>

\* Mutant: the bus is made for every controller.
SataInitAgain ==
    <<Do("bus", "sata", None, None), Do("driver", "sata", "sd", None), Do("driver", "sata", "sr", None)>>
\* SATA::init(), once.
SataInit ==
    IF BusExists("sata") THEN <<>>
    ELSE <<Do("bus", "sata", None, None), Do("driver", "sata", "sd", None), Do("driver", "sata", "sr", None)>>

\* scan_ports(): the ports that are implemented.
ScanPorts(at) ==
    LET ports == dvMachine.pci[at].ports
    IN  [i \in DOMAIN ports |-> Do("port", "sata", Device(ports[i], <<at, i>>), None)]

\* scan_port(): what is attached and active gets a name and is registered, by
\* its signature; SEMB and port multipliers are named in the log only.
ScanPort ==
    /\ Top("port")
    /\ LET d == Head(dvCalls).x
           p == IF d.kind = "atapi" THEN "sr" ELSE "sd"
       IN  IF d.kind \in {"ata", "atapi"}
           THEN /\ dvNames' = [dvNames EXCEPT ![p] = NextName(p)]
                /\ Then(<<Do("device", "sata", [d EXCEPT !.name = dvNames[p]], None)>>)
           ELSE Then(<<>>) /\ UNCHANGED dvNames
    /\ UNCHANGED <<dvBuses, dvBound, dvDevices, dvMachine>>

BindSata ==
    /\ \E at \in DOMAIN dvMachine.pci :
         Binds("sata", Device("ahci", <<at>>), SataInit \o ScanPorts(at))
    /\ UNCHANGED <<dvBuses, dvDevices, dvNames>>

\* SRDriver makes a block device of the drive's name, RTL8139Driver a network
\* device of the next one, the others none.
BindLeaf ==
    /\ Top("bind")
    /\ LET c == Head(dvCalls)
       IN  /\ c.y \in {"sr", "rtl8139", "ps2", "sd"}
           /\ Binds(c.y, c.x, <<>>)
           /\ dvNames' = IF c.y = "rtl8139" THEN [dvNames EXCEPT !["eth"] = NextName("eth")] ELSE dvNames
           /\ dvDevices' = CASE c.y = "sr" -> Append(dvDevices, [at |-> c.x.at, name |-> <<"sr", c.x.name>>])
                             [] c.y = "rtl8139" -> Append(dvDevices, [at |-> c.x.at, name |-> <<"eth", dvNames["eth"]>>])
                             [] OTHER -> dvDevices
    /\ UNCHANGED dvBuses

----------------------------------------------------------------------------
(* The boot: mainbus_init(), arch_drivers_init(), and the modules.         *)

DriverCalls(drivers) ==
    [i \in DOMAIN drivers |-> Do("driver", IF drivers[i] = "ps2" THEN "main" ELSE "pci", drivers[i], None)]

DvInit ==
    /\ dvMachine \in [pci : DvPci, ps2 : BOOLEAN]
    /\ \E boot \in DvBoot, core \in DvCore :
         dvCalls = <<Do("bus", "main", None, None), Do("device", "main", Device("pci", <<>>), None)>>
                   \o (IF dvMachine.ps2 THEN <<Do("device", "main", Device("ps2", <<>>), None)>> ELSE <<>>)
                   \o <<Do("device", "main", Device("rtc", <<>>), None), Do("driver", "main", "pci", None)>>
                   \o DriverCalls(boot) \o DriverCalls(core)
    /\ dvBuses = [b \in {} |-> [devices |-> <<>>, drivers |-> <<>>]]
    /\ dvBound = <<>> /\ dvDevices = <<>>
    /\ dvNames = [sr |-> <<1>>, sd |-> <<1>>, eth |-> <<0>>]

DvNext == BusConstructor \/ RegisterDevice \/ RegisterDriver \/ NextDriver \/ NextDevice
          \/ BindPci \/ BindSata \/ ScanPort \/ BindLeaf

----------------------------------------------------------------------------
(* Properties.                                                             *)

\* No driver is bound twice to a device, although bind() registers more of
\* both while an outer loop still walks the array (bus.cpp:25-41,
\* sata.cpp:61-69).
BoundOnce == \A i, j \in DOMAIN dvBound : dvBound[i] = dvBound[j] => i = j

\* When all is registered, whatever the order of the modules, every device of a
\* bus is bound to every driver of the bus that wants it.
AllBound ==
    dvCalls = <<>> =>
        \A b \in DOMAIN dvBuses : \A i \in DOMAIN dvBuses[b].devices, j \in DOMAIN dvBuses[b].drivers :
            LET d == dvBuses[b].devices[i]
                v == dvBuses[b].drivers[j]
            IN  Check(v, d) => <<v, d>> \in Range(dvBound)

\* Every optical drive of the machine has one block device, and the root file
\* system's /dev/sra is the first drive in the order of the bus (kmain.cpp:143,
\* ahci.cpp:91-112).
DrivesReachable ==
    LET drives == {<<at, p>> \in (DOMAIN dvMachine.pci) \X (1 .. 8) :
                     p \in DOMAIN dvMachine.pci[at].ports /\ dvMachine.pci[at].ports[p] = "atapi"}
        First(d) == \A e \in drives : e[1] > d[1] \/ (e[1] = d[1] /\ e[2] >= d[2])
    IN  dvCalls = <<>> => \A d \in drives : \E i \in DOMAIN dvDevices :
            /\ dvDevices[i].at = d
            /\ \A j \in DOMAIN dvDevices : j # i => dvDevices[j].at # d
            /\ First(d) => dvDevices[i].name = <<"sr", <<1>>>>

\* Every device is bound once to each driver that wants it, and every drive
\* is there under its name.
DevicesBound == BoundOnce /\ AllBound /\ DrivesReachable
=============================================================================
