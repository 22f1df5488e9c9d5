------------------------------- MODULE Loader -------------------------------
(* Kernel modules: the order load_core_modules() loads them in, what        *)
(* load_module() and relocate() resolve their symbols to, the references   *)
(* they keep of one another, the dynamic symbols their entry functions     *)
(* give and wait for, and the names found for addresses                    *)
(* (src/kernel/module.cpp, module/loader.cpp, module/relocator.cpp,        *)
(* elf.cpp, debug.cpp).  An address is <<module, section, offset>>; the    *)
(* kernel counts as module 0, and an absolute address has -1.              *)
EXTENDS Integers, Sequences, SequencesExt

CONSTANTS LdBoot,      \* files the boot loader passes, in order
          LdFiles,     \* files that may be in /sys/mod/core/
          LdMaxDir,    \* files in the directory
          LdKernel,    \* symbols of the kernel
          LdDotNames,  \* names that begin with a dot
          LdReach,     \* 0x2000: how far above a symbol an address is named by it
          LdMaxAddr

VARIABLES ldTodo,     \* files still to be loaded
          ldDir,      \* the directory as readdir() gives it
          ldStage,    \* boot, core, done, panic
          ldModules,  \* the modules that are loaded
          ldEntering, \* the module whose module_enter() runs, or none
          ldDynamic,  \* names given to register_dynamic_symbol()
          ldAsked     \* an address, the symbols about it and the name found

ldVars == <<ldTodo, ldDir, ldStage, ldModules, ldEntering, ldDynamic, ldAsked>>

ShnAbs   == -1
NullAddr == <<>>
IsNull(a) == a = NullAddr

FirstIn(s, Test(_)) == CHOOSE i \in DOMAIN s : Test(s[i]) /\ \A j \in 1 .. i - 1 : ~Test(s[j])
Exists(s, Test(_)) == \E i \in DOMAIN s : Test(s[i])

----------------------------------------------------------------------------
(* ELF: the symbols and sections of a file.                                *)

\* loadSymbols64(): a symbol without a name is called like its section.
NameOf(f, s) == IF s.n = "" THEN f.secs[s.sec].n ELSE s.n

Symbols(f) == [i \in DOMAIN f.syms |-> [f.syms[i] EXCEPT !.n = NameOf(f, f.syms[i])]]

\* Only sections with SC_ALLOC have memory.
SectionAddr(id, f, i) == IF f.secs[i].alloc THEN <<id, i, 0>> ELSE NullAddr

Plus(base, off) ==
    IF IsNull(base) THEN IF off = 0 THEN NullAddr ELSE <<-1, 0, off>>
    ELSE <<base[1], base[2], off>>

SymbolAddr(id, f, s) ==
    IF s.sec = ShnAbs THEN Plus(NullAddr, s.off) ELSE Plus(SectionAddr(id, f, s.sec), s.off)

\* The symbols of a module: those whose names begin with a dot come last.
ModuleSymbols(id, f) ==
    LET syms   == Symbols(f)
        Dot(s) == s.n \in LdDotNames
        Own(s) == ~Dot(s)
        all    == SelectSeq(syms, Own) \o SelectSeq(syms, Dot)
    IN  [i \in DOMAIN all |-> [n |-> <<f.name, all[i].n>>, addr |-> SymbolAddr(id, f, all[i])]]

\* The last symbol of the name is the one; it must be defined.
Defines(f, n) ==
    \E i \in DOMAIN f.syms : /\ f.syms[i].n = n /\ f.syms[i].sec # 0
                             /\ \A j \in i + 1 .. Len(f.syms) : f.syms[j].n # n

IsModule(f) == f.valid /\ \A n \in {"module_enter", "module_exit", "MODULE_NAME"} : Defines(f, n)

----------------------------------------------------------------------------
(* relocate()                                                              *)

\* module_name2addr_raw(): the symbol's name less the name of its module.
NameToAddrRaw(n) ==
    LET Has(m) == Exists(m.syms, LAMBDA s : s.n[2] = n)
    IN  IF ~Exists(ldModules, Has) THEN [addr |-> NullAddr, id |-> 0]
        ELSE LET m == ldModules[FirstIn(ldModules, Has)]
             IN  [addr |-> m.syms[FirstIn(m.syms, LAMBDA s : s.n[2] = n)].addr, id |-> m.id]

KernelAddr(n) ==
    LET Is(s) == s.n = n
    IN  IF Exists(LdKernel, Is) THEN LdKernel[FirstIn(LdKernel, Is)].addr ELSE NullAddr

OwnSection(id, f, n) ==
    LET hits == {i \in DOMAIN f.secs : f.secs[i].n = n}
    IN  IF hits = {} THEN NullAddr
        ELSE SectionAddr(id, f, CHOOSE i \in hits : \A j \in hits : i <= j)

\* sections[] has no entry for SHN_ABS: a relocation against an absolute symbol
\* of the file's own reads beyond it, and no file here has one.
OwnSymbol(id, f, n) ==
    LET Is(s) == s.n = n /\ s.sec # 0
        own   == Symbols(f)[FirstIn(Symbols(f), Is)]
    IN  IF Exists(Symbols(f), Is) THEN Plus(SectionAddr(id, f, own.sec), own.off) ELSE NullAddr

Resolve(id, f, s) ==
    LET own == IF IsNull(OwnSection(id, f, s.n)) THEN OwnSymbol(id, f, s.n) ELSE OwnSection(id, f, s.n)
    IN  IF ~IsNull(own) \/ s.bind = "local" THEN [addr |-> own, id |-> 0]
        ELSE IF ~IsNull(KernelAddr(s.n)) THEN [addr |-> KernelAddr(s.n), id |-> 0]
        ELSE NameToAddrRaw(s.n)

Relocated(id, f) == [i \in DOMAIN f.relocs |-> Resolve(id, f, Symbols(f)[f.relocs[i]])]

\* The modules that gave an address; addReference() keeps each once.
Referenced(targets) == {targets[i].id : i \in DOMAIN targets} \ {0}

AddReferencedBy(s, id) == IF id \in Range(s) THEN s ELSE Append(s, id)

\* removeReferencedBy() gives up at the first entry that is another.
RemoveReferencedBy(s, id) == IF s # <<>> /\ Head(s) = id THEN Tail(s) ELSE s

----------------------------------------------------------------------------
(* load_module()                                                           *)

\* Every attempt has a number of its own, as every Module has an address.
ThisId == 1 + Len(LdBoot) + Len(ldDir) - Len(ldTodo)

Referencing(mods, refs, id) ==
    [i \in DOMAIN mods |->
        IF mods[i].id \in refs THEN [mods[i] EXCEPT !.refBy = AddReferencedBy(@, id)] ELSE mods[i]]
Unreferencing(mods, refs, id) ==
    [i \in DOMAIN mods |->
        IF mods[i].id \in refs THEN [mods[i] EXCEPT !.refBy = RemoveReferencedBy(@, id)] ELSE mods[i]]

Added(f, id, targets) ==
    Append(Referencing(ldModules, Referenced(targets), id),
           [id |-> id, file |-> f, name |-> f.name, syms |-> ModuleSymbols(id, f), targets |-> targets,
            refs |-> Referenced(targets), refBy |-> <<>>])

\* A file that is no module: ENOEXEC.
LoadRefused ==
    /\ ldStage \in {"boot", "core"} /\ ldEntering = 0 /\ ldTodo # <<>>
    /\ ~IsModule(Head(ldTodo))
    /\ ldTodo' = Tail(ldTodo)
    /\ ldStage' = IF ldStage = "boot" THEN "panic" ELSE ldStage
    /\ UNCHANGED <<ldDir, ldModules, ldEntering, ldDynamic, ldAsked>>

\* A symbol is not found (ENOSYS), or a module of the name is there already:
\* the new one is deleted, and with it what it told the others.
LoadDeleted ==
    /\ ldStage \in {"boot", "core"} /\ ldEntering = 0 /\ ldTodo # <<>>
    /\ IsModule(Head(ldTodo))
    /\ LET f       == Head(ldTodo)
           targets == Relocated(ThisId, f)
           missing == \E i \in DOMAIN targets : IsNull(targets[i].addr)
           refs    == Referenced(targets)
       IN  /\ missing \/ Exists(ldModules, LAMBDA m : m.name = f.name)
           /\ ldModules' = Unreferencing(Referencing(ldModules, refs, ThisId), refs, ThisId)
           /\ ldStage' = IF missing /\ ldStage = "boot" THEN "panic" ELSE ldStage
    /\ ldTodo' = Tail(ldTodo)
    /\ UNCHANGED <<ldDir, ldEntering, ldDynamic, ldAsked>>

Load ==
    /\ ldStage \in {"boot", "core"} /\ ldEntering = 0 /\ ldTodo # <<>>
    /\ IsModule(Head(ldTodo))
    /\ LET f       == Head(ldTodo)
           targets == Relocated(ThisId, f)
       IN  /\ \A i \in DOMAIN targets : ~IsNull(targets[i].addr)
           /\ ~Exists(ldModules, LAMBDA m : m.name = f.name)
           /\ ldModules' = Added(f, ThisId, targets)
    /\ ldEntering' = ThisId
    /\ UNCHANGED <<ldTodo, ldDir, ldStage, ldDynamic, ldAsked>>

\* module_enter() runs to its end and is joined.  A driver's may wait in
\* getIRQ() for a symbol, which it looks for every 250 ms.
Enter ==
    /\ ldEntering # 0
    /\ Head(ldTodo).waits \subseteq ldDynamic
    /\ ldDynamic' = ldDynamic \cup Head(ldTodo).gives
    /\ ldEntering' = 0
    /\ ldTodo' = Tail(ldTodo)
    /\ UNCHANGED <<ldDir, ldStage, ldModules, ldAsked>>

----------------------------------------------------------------------------
(* load_core_modules()                                                     *)

Swapped(s, j) == [s EXCEPT ![j] = s[j + 1], ![j + 1] = s[j]]

RECURSIVE Pass(_, _)
Pass(s, j) ==
    IF j >= Len(s) THEN s
    ELSE Pass(IF s[j].order <= s[j + 1].order THEN s ELSE Swapped(s, j), j + 1)

\* Mutant: too few passes.
SortedOnce(s, k) == IF k <= 0 THEN s ELSE Pass(s, 1)
RECURSIVE Sorted(_, _)
Sorted(s, k) == IF k <= 0 THEN s ELSE Sorted(Pass(s, 1), k - 1)

LoadCoreModules ==
    /\ ldStage = "boot" /\ ldTodo = <<>>
    /\ ldTodo' = Sorted(ldDir, Len(ldDir) - 1)
    /\ ldStage' = "core"
    /\ UNCHANGED <<ldDir, ldModules, ldEntering, ldDynamic, ldAsked>>

----------------------------------------------------------------------------
(* addr2name()                                                             *)

\* The symbol with the smallest distance so far; the first of equals stays.
Nearer(best, a, s) ==
    IF s.at <= a /\ a - s.at < best.delta /\ a - s.at < LdReach
    THEN [n |-> s.n, delta |-> a - s.at] ELSE best

NoName == [n |-> 0, delta |-> 2 * LdReach]

Closest(a, syms) == FoldLeft(LAMBDA best, s : Nearer(best, a, s), NoName, syms)

AddrToName(a, kern, mods) ==
    IF kern = <<>> THEN 0
    ELSE IF Closest(a, mods).n # 0 THEN Closest(a, mods).n ELSE Closest(a, kern).n

SymbolsAt(from) == {[i \in 1 .. k |-> [n |-> from + i, at |-> f[i]]] : k \in 0 .. 2, f \in [1 .. 2 -> 0 .. LdMaxAddr]}

Ask ==
    /\ ldAsked = <<>>
    /\ \E a \in 0 .. LdMaxAddr, kern \in SymbolsAt(0), mods \in SymbolsAt(2) :
         ldAsked' = <<a, kern, mods, AddrToName(a, kern, mods)>>
    /\ UNCHANGED <<ldTodo, ldDir, ldStage, ldModules, ldEntering, ldDynamic>>

Directories == {d \in UNION {[1 .. k -> LdFiles] : k \in 0 .. LdMaxDir} : IsInjective(d)}

LdInit ==
    /\ ldTodo = LdBoot
    /\ ldDir \in Directories
    /\ ldStage = "boot" /\ ldModules = <<>> /\ ldEntering = 0 /\ ldDynamic = {} /\ ldAsked = <<>>

LdNext == LoadRefused \/ LoadDeleted \/ Load \/ Enter \/ LoadCoreModules \/ (ldDir = <<>> /\ Ask)

----------------------------------------------------------------------------
(* Properties.                                                             *)

\* A core module that waits in its entry function for a symbol which another
\* file with a smaller order number gives does not wait in vain: that module
\* was loaded, or could not be, before (module.cpp:106-121, pci.cpp:80).
WaitsForEarlier ==
    ldStage = "core" /\ ldEntering # 0 =>
        \A d \in Head(ldTodo).waits \ ldDynamic : \A i \in DOMAIN ldDir :
            d \in ldDir[i].gives /\ ldDir[i].order < Head(ldTodo).order =>
                ~Exists(ldModules, LAMBDA m : m.file = ldDir[i]) /\ ~Exists(ldTodo, LAMBDA f : f = ldDir[i])

\* A definition of the name that a module with the number id may be given.
DefinedBy(m, n) == \E j \in DOMAIN m.file.syms : Symbols(m.file)[j].n = n /\ m.file.syms[j].sec # 0

\* Every relocation of a loaded module has an address, and the address is that
\* of a definition: the module's own if it has one, else the kernel's, else the
\* one of the module loaded first among those that define it, never one of a
\* module that only refers to the name itself (relocator.cpp:26-66).
TargetsAreDefinitions ==
    \A k \in DOMAIN ldModules : \A i \in DOMAIN ldModules[k].targets :
        LET m == ldModules[k]
            s == Symbols(m.file)[m.file.relocs[i]]
            t == m.targets[i]
            definers == {d \in 1 .. k - 1 : DefinedBy(ldModules[d], s.n)}
        IN  /\ ~IsNull(t.addr)
            /\ t.id = 0 => t.addr[1] = m.id \/ t.addr = KernelAddr(s.n)
            /\ DefinedBy(m, s.n) => t.addr[1] = m.id
            /\ ~DefinedBy(m, s.n) /\ ~IsNull(KernelAddr(s.n)) => t.addr = KernelAddr(s.n)
            /\ t.id # 0 => definers # {} /\ t.id = ldModules[CHOOSE d \in definers : \A e \in definers : d <= e].id

\* A module that another one took an address from is loaded and knows of it.
ReferencesKnown ==
    \A k \in DOMAIN ldModules : \A id \in ldModules[k].refs :
        \E d \in 1 .. k - 1 : ldModules[d].id = id /\ ldModules[k].id \in Range(ldModules[d].refBy)

InReach(syms, a) == {i \in DOMAIN syms : syms[i].at <= a /\ a - syms[i].at < LdReach}

\* An address is named by the module's symbol closest below it, or the
\* kernel's if no module has one in reach (module.cpp:131-159, debug.cpp:94-126).
NamedByClosest ==
    ldAsked # <<>> /\ ldAsked[2] # <<>> =>
        LET a    == ldAsked[1]
            from == IF InReach(ldAsked[3], a) # {} THEN ldAsked[3] ELSE ldAsked[2]
        IN  IF InReach(from, a) = {} THEN ldAsked[4] = 0
            ELSE \E i \in InReach(from, a) : /\ from[i].n = ldAsked[4]
                                             /\ \A j \in InReach(from, a) : from[j].at <= from[i].at

\* Names and addresses match across the modules: what a module refers to is
\* loaded before, at the address it was given, and an address gives its name
\* back.
ModulesLinked == WaitsForEarlier /\ TargetsAreDefinitions /\ ReferencesKnown /\ NamedByClosest
=============================================================================
