------------------------------ MODULE FdTable ------------------------------
(* The descriptor tables of processes and the files behind them: the file  *)
(* system calls (src/arch/x86_64/mod/core/syscall/fs.cpp), the part of     *)
(* fork() that copies descriptors, LazyVector and SmartPointer             *)
(* (src/include/aex/mem).  A thread takes descs_lock for each access to    *)
(* the table and lets it go in between, so calls interleave.               *)
EXTENDS Integers, Sequences, FiniteSets, SequencesExt, FiniteSetsExt

CONSTANTS FtThreads,    \* thread |-> its process
          FtProcs,      \* processes, 1 forks the others
          FtFiles,      \* file objects, 1 .. n, made in this order
          FtSlots       \* descriptors a caller names, 0-based

VARIABLES ftDescs,   \* Process::descs, a LazyVector of [file, flags]
          ftRefs,    \* the reference count of every file made so far
          ftFreed,   \* files that were deleted
          ftCall,    \* what each thread is doing
          ftLive     \* processes that exist

ftVars == <<ftDescs, ftRefs, ftFreed, ftCall, ftLive>>

NoFile == 0
EmptySlot == [file |-> NoFile, flags |-> 0]
Desc(f) == [file |-> f, flags |-> 0]
Idle == [op |-> "none", fd |-> 0, file |-> NoFile, made |-> NoFile]

----------------------------------------------------------------------------
(* LazyVector: slots that hold something or nothing, m_count of them, and  *)
(* m_rcount, the number that hold something.  Slots are 0-based.           *)

NoVector == [slots |-> <<>>, rcount |-> 0]
LvPresent(v, i) == i \in 0 .. Len(v.slots) - 1 /\ v.slots[i + 1] # EmptySlot

\* The array after a resize: new slots come zeroed from the heap.
Resized(slots, n) ==
    [i \in 1 .. n |-> IF i <= Len(slots) THEN slots[i] ELSE EmptySlot]

LvPut(v, i, x) ==
    LET slots == Resized(v.slots, Max({Len(v.slots), i + 1}))
    IN  [v EXCEPT !.slots = [slots EXCEPT ![i + 1] = x]]

LvSet(v, i, x) == [LvPut(v, i, x) EXCEPT !.rcount = IF LvPresent(v, i) THEN @ ELSE @ + 1]

LvFree(v) == Min({i \in 0 .. Len(v.slots) : ~LvPresent(v, i)})
LvPush(v, x) == [LvPut(v, LvFree(v), x) EXCEPT !.rcount = @ + 1]

\* ~LazyVector(): every value goes.
LvValues(v) == {v.slots[i].file : i \in {j \in 1 .. Len(v.slots) : v.slots[j] # EmptySlot}}

----------------------------------------------------------------------------
(* SmartPointer: counted references to a file.                             *)

\* A copy of the pointer.
Copied(refs, f) == [refs EXCEPT ![f] = @ + 1]
\* Pointers destroyed, each to another file; the last one deletes the file.
Dropped(refs, fs) == [f \in DOMAIN refs |-> IF f \in fs THEN refs[f] - 1 ELSE refs[f]]
Deleted(refs, fs) == {f \in fs : refs[f] = 1}

\* Mutant: the old value of an assigned pointer keeps its count.
OldValueKept(v, i) == {}
\* operator=: what the slot pointed to is let go.
OldValue(v, i) == IF LvPresent(v, i) THEN {v.slots[i + 1].file} ELSE {}

\* A new File with one reference.
Make(f) == f = Len(ftRefs) + 1 /\ f \in FtFiles

----------------------------------------------------------------------------

FtInit ==
    /\ ftDescs = [p \in FtProcs |-> NoVector]
    /\ ftRefs = <<>>
    /\ ftFreed = {}
    /\ ftCall = [t \in DOMAIN FtThreads |-> Idle]
    /\ ftLive = {1}

\* open(): the file is made, then pushed with descs_lock held; the local
\* pointer goes when the call returns.
SysOpen(t) ==
    LET p == FtThreads[t] f == Len(ftRefs) + 1
    IN  /\ ftCall[t] = Idle /\ p \in ftLive
        /\ Make(f)
        /\ ftRefs' = Append(ftRefs, 1)
        /\ ftDescs' = [ftDescs EXCEPT ![p] = LvPush(@, Desc(f))]
        /\ UNCHANGED <<ftFreed, ftCall, ftLive>>

\* pipe(): both ends are pushed with descs_lock held.
SysPipe(t) ==
    LET p == FtThreads[t] f == Len(ftRefs) + 1
    IN  /\ ftCall[t] = Idle /\ p \in ftLive
        /\ f + 1 \in FtFiles
        /\ ftRefs' = ftRefs \o <<1, 1>>
        /\ ftDescs' = [ftDescs EXCEPT ![p] = LvPush(LvPush(@, Desc(f)), Desc(f + 1))]
        /\ UNCHANGED <<ftFreed, ftCall, ftLive>>

\* get_file(): a copy of the pointer, made with descs_lock held.
GetFile(refs, f) == Copied(refs, f)

\* A call on descriptor fd; EBADF returns at once.
Begin(t, op, fd) ==
    LET v == ftDescs[FtThreads[t]]
    IN  /\ ftCall[t] = Idle /\ FtThreads[t] \in ftLive
        /\ LvPresent(v, fd)
        /\ ftRefs' = GetFile(ftRefs, v.slots[fd + 1].file)
        /\ ftCall' = [ftCall EXCEPT ![t] =
                        [Idle EXCEPT !.op = op, !.fd = fd, !.file = v.slots[fd + 1].file]]
        /\ UNCHANGED <<ftDescs, ftFreed, ftLive>>

SysRead(t, fd)  == Begin(t, "use", fd)
SysWrite(t, fd) == Begin(t, "use", fd)
SysClose(t, fd) == Begin(t, "use", fd)
SysSeek(t, fd)  == Begin(t, "use", fd)
SysDup(t, fd)   == Begin(t, "dup", fd)
SysDup2(t, fd)  == Begin(t, "dup2", fd)
SysFcntl(t, fd) == Begin(t, "fcntl", fd)

\* The call returns and its pointers go.
Returned(t, refs, fs) ==
    /\ ftRefs' = Dropped(refs, fs)
    /\ ftFreed' = ftFreed \cup Deleted(refs, fs)
    /\ ftCall' = [ftCall EXCEPT ![t] = Idle]

\* read(), write(), close(), seek() and the like: the file does it, the table
\* stays.  close() of every file type does nothing.
Work(t) ==
    /\ ftCall[t].op = "use"
    /\ Returned(t, ftRefs, {ftCall[t].file})
    /\ UNCHANGED <<ftDescs, ftLive>>

\* File::dup() without descs_lock: a new file.
DupWork(t) ==
    /\ ftCall[t].op \in {"dup", "dup2"} /\ ftCall[t].made = NoFile
    /\ Make(Len(ftRefs) + 1)
    /\ ftRefs' = Append(ftRefs, 1)
    /\ ftCall' = [ftCall EXCEPT ![t].made = Len(ftRefs) + 1]
    /\ UNCHANGED <<ftDescs, ftFreed, ftLive>>

\* dup() pushes it, dup2() puts it where it is told, over what is there.
DupPush(t) ==
    /\ ftCall[t].op = "dup" /\ ftCall[t].made # NoFile
    /\ ftDescs' = [ftDescs EXCEPT ![FtThreads[t]] = LvPush(@, Desc(ftCall[t].made))]
    /\ Returned(t, ftRefs, {ftCall[t].file})
    /\ UNCHANGED ftLive

DupSet(t, dst) ==
    LET v == ftDescs[FtThreads[t]]
        old == OldValue(v, dst)
    IN  /\ ftCall[t].op = "dup2" /\ ftCall[t].made # NoFile
        /\ ftDescs' = [ftDescs EXCEPT ![FtThreads[t]] = LvSet(@, dst, Desc(ftCall[t].made))]
        /\ ftRefs' = Dropped(Dropped(ftRefs, old), {ftCall[t].file})
        /\ ftFreed' = ftFreed \cup Deleted(ftRefs, old)
                        \cup Deleted(Dropped(ftRefs, old), {ftCall[t].file})
        /\ ftCall' = [ftCall EXCEPT ![t] = Idle]
        /\ UNCHANGED ftLive

\* fcntl(F_SETFL): set_flags() looks the descriptor up again, which may have
\* another file by now, and puts it back with the flags.
SetFlags(t) ==
    LET v == ftDescs[FtThreads[t]] i == ftCall[t].fd
    IN  /\ ftCall[t].op = "fcntl"
        /\ ftDescs' = [ftDescs EXCEPT ![FtThreads[t]] =
                         IF LvPresent(v, i) THEN LvSet(@, i, [v.slots[i + 1] EXCEPT !.flags = 1])
                         ELSE @]
        /\ Returned(t, ftRefs, {ftCall[t].file})
        /\ UNCHANGED ftLive

\* fork(): every descriptor of the parent gets a file of its own in the child.
Copies(v) ==
    [i \in 1 .. Len(v.slots) |->
        IF v.slots[i] = EmptySlot THEN EmptySlot
        ELSE [v.slots[i] EXCEPT !.file =
                Len(ftRefs) + Cardinality({j \in 1 .. i : v.slots[j] # EmptySlot})]]
SysFork(t, c) ==
    LET v == ftDescs[FtThreads[t]]
        n == Cardinality({j \in 1 .. Len(v.slots) : v.slots[j] # EmptySlot})
    IN  /\ ftCall[t] = Idle /\ FtThreads[t] = 1 /\ c \notin ftLive
        /\ Len(ftRefs) + n <= Max(FtFiles)
        /\ ftRefs' = ftRefs \o [j \in 1 .. n |-> 1]
        /\ ftDescs' = [ftDescs EXCEPT ![c] = [slots |-> Copies(v), rcount |-> n]]
        /\ ftLive' = ftLive \cup {c}
        /\ UNCHANGED <<ftFreed, ftCall>>

\* A forked process is gone: once its threads are, ~Process() destroys descs.
Reap(p) ==
    LET fs == LvValues(ftDescs[p])
    IN  /\ p \in ftLive \ {1}
        /\ \A t \in DOMAIN FtThreads : FtThreads[t] = p => ftCall[t] = Idle
        /\ ftRefs' = Dropped(ftRefs, fs)
        /\ ftFreed' = ftFreed \cup Deleted(ftRefs, fs)
        /\ ftDescs' = [ftDescs EXCEPT ![p] = NoVector]
        /\ ftLive' = ftLive \ {p}
        /\ UNCHANGED ftCall

FtNext ==
    \/ \E t \in DOMAIN FtThreads :
         \/ SysOpen(t) \/ SysPipe(t) \/ Work(t) \/ DupWork(t) \/ DupPush(t) \/ SetFlags(t)
         \/ \E fd \in FtSlots :
              \/ SysRead(t, fd) \/ SysWrite(t, fd) \/ SysClose(t, fd) \/ SysSeek(t, fd)
              \/ SysDup(t, fd) \/ SysDup2(t, fd) \/ SysFcntl(t, fd)
              \/ DupSet(t, fd)
         \/ \E c \in FtProcs : SysFork(t, c)
    \/ \E p \in FtProcs : Reap(p)

----------------------------------------------------------------------------
(* Properties.                                                             *)

\* Every slot a vector of these can have.
Indexes == 0 .. Max(FtSlots) + Cardinality(FtFiles)

\* How many descriptors and calls point to a file.
Holders(f) ==
    Cardinality({<<p, i>> \in FtProcs \X Indexes :
                   LvPresent(ftDescs[p], i) /\ ftDescs[p].slots[i + 1].file = f})
    + Cardinality({t \in DOMAIN FtThreads : ftCall[t].file = f})
    + Cardinality({t \in DOMAIN FtThreads : ftCall[t].made = f})

\* The reference count of a file is the number of descriptors and of calls
\* under way that point to it; the file is deleted exactly when that is none,
\* so no call works on a deleted file and no file is left behind, whatever
\* dup2() or a dying process takes away meanwhile (smartptr.hpp:43-100,
\* syscall/fs.cpp:84-106 and 318-368).
FilesCounted ==
    \A f \in DOMAIN ftRefs :
        /\ ftRefs[f] = Holders(f)
        /\ f \in ftFreed <=> ftRefs[f] = 0

\* Every descriptor has a file of its own, in the same process and in forked
\* ones: dup(), dup2() and fork() copy the file with its position
\* (syscall/fs.cpp:84-106, syscall/proc.cpp:38-44).
OwnFiles ==
    \A p, q \in FtProcs : \A i, j \in Indexes :
        (/\ LvPresent(ftDescs[p], i) /\ LvPresent(ftDescs[q], j)
         /\ ftDescs[p].slots[i + 1].file = ftDescs[q].slots[j + 1].file)
        => p = q /\ i = j

\* A descriptor has a file of its own, which lives as long as it or a call
\* needs it.
DescriptorsOwn == FilesCounted /\ OwnFiles
=============================================================================
