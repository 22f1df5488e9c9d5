-------------------------------- MODULE Sata --------------------------------
(* The command slots of a SATA drive (src/mod/init/sata/satadevice.cpp):    *)
(* threads that send packets to one drive, and the controller, external,   *)
(* which fetches the table of a slot whose command_issue bit is set, does   *)
(* the transfer and clears the bit.                                         *)
EXTENDS Integers, Sequences, SequencesExt, FiniteSets, Functions

CONSTANTS SaThreads, SaSlots, SaPage, SaMaxPrts,
          SaBuffers     \* <<address, length>> of the buffers of requests

VARIABLES saActive,     \* the threads of this behaviour
          saPc,         \* thread |-> where it is in scsiPacket()
          saSlot,       \* thread |-> its slot, or -1
          saBuffer,     \* thread |-> the buffer of its request
          saRead,       \* thread |-> command_issue as it was read by |=
          saUsed,       \* m_command_slots
          saTable,      \* slot |-> the request its table describes
          saIssue,      \* command_issue
          saFetched,    \* slots being worked on |-> what was fetched
          saFilled,     \* threads whose present request has been transferred
          saError       \* bit 30 of interrupt_status: a command has failed

saVars == <<saActive, saPc, saSlot, saBuffer, saRead, saUsed, saTable, saIssue, saFetched, saFilled, saError>>

SaGoto(t, from, to) == saPc[t] = from /\ saPc' = [saPc EXCEPT ![t] = to]
FreeSlots == {i \in 0 .. SaSlots - 1 : i \notin saUsed}

----------------------------------------------------------------------------
(* fillPRDTs()                                                             *)

RECURSIVE FillPRDTsFrom(_, _)

\* llen: up to the next page boundary, or to the end.
Piece(dst, len) ==
    LET alignedNext == ((dst + SaPage) \div SaPage) * SaPage
    IN  IF alignedNext - dst < len THEN alignedNext - dst ELSE len

FillPRDTsFrom(dst, len) ==
    IF len = 0 THEN <<>>
    ELSE <<[addr |-> dst, bytes |-> Piece(dst, len)]>> \o FillPRDTsFrom(dst + Piece(dst, len), len - Piece(dst, len))

----------------------------------------------------------------------------
(* scsiPacket(), and issueCMD() in it.                                      *)

\* findSlot(): the first free slot, under m_lock.
FindSlot(t) ==
    /\ SaGoto(t, "idle", "fill")
    /\ \E b \in SaBuffers : saBuffer' = [saBuffer EXCEPT ![t] = b]
    /\ FreeSlots # {}
    /\ LET slot == CHOOSE i \in FreeSlots : \A j \in FreeSlots : i <= j
       IN  saSlot' = [saSlot EXCEPT ![t] = slot] /\ saUsed' = saUsed \cup {slot}
    /\ UNCHANGED <<saActive, saRead, saTable, saIssue, saFetched, saFilled, saError>>

\* The header, the entries and the packet.
FillTable(t) ==
    /\ SaGoto(t, "fill", "wait")
    /\ saTable' = [saTable EXCEPT ![saSlot[t]] = [thread |-> t, prdt |-> FillPRDTsFrom(saBuffer[t][1], saBuffer[t][2])]]
    /\ saFilled' = saFilled \ {t}
    /\ UNCHANGED <<saActive, saSlot, saBuffer, saRead, saUsed, saIssue, saFetched, saError>>

\* Until the drive is neither busy nor asks for data.
WaitNotBusy(t) ==
    /\ SaGoto(t, "wait", "or")
    /\ saFetched = <<>>
    /\ UNCHANGED <<saActive, saSlot, saBuffer, saRead, saUsed, saTable, saIssue, saFetched, saFilled, saError>>

\* command_issue |= (1 << slot): a read and a write. Ones set bits, zeros do
\* nothing.
OrRead(t) ==
    /\ SaGoto(t, "or", "store")
    /\ saRead' = [saRead EXCEPT ![t] = saIssue]
    /\ UNCHANGED <<saActive, saSlot, saBuffer, saUsed, saTable, saIssue, saFetched, saFilled, saError>>

OrWrite(t) ==
    /\ SaGoto(t, "store", "check")
    /\ saIssue' = saIssue \cup saRead[t] \cup {saSlot[t]}
    /\ saRead' = [saRead EXCEPT ![t] = {}]
    /\ UNCHANGED <<saActive, saSlot, saBuffer, saUsed, saTable, saFetched, saFilled, saError>>

\* Mutant: releases as soon as the command is issued.
CheckIssuedSoon(t) ==
    /\ SaGoto(t, "check", "release")
    /\ UNCHANGED <<saActive, saSlot, saBuffer, saRead, saUsed, saTable, saIssue, saFetched, saFilled, saError>>
\* Another turn, which sets the bit again, until it is found clear; or a
\* failure, of whichever command. scsiPacket() passes over the result.
CheckIssued(t) ==
    /\ IF ~saError /\ saSlot[t] \in saIssue THEN SaGoto(t, "check", "or") ELSE SaGoto(t, "check", "release")
    /\ UNCHANGED <<saActive, saSlot, saBuffer, saRead, saUsed, saTable, saIssue, saFetched, saFilled, saError>>

ReleaseSlot(t) ==
    /\ SaGoto(t, "release", "idle")
    /\ saUsed' = saUsed \ {saSlot[t]}
    /\ saSlot' = [saSlot EXCEPT ![t] = -1]
    /\ saBuffer' = [saBuffer EXCEPT ![t] = <<0, 1>>]
    /\ UNCHANGED <<saActive, saRead, saTable, saIssue, saFetched, saFilled, saError>>

----------------------------------------------------------------------------
(* The controller: one command at a time, and none after a failure, which   *)
(* nothing but scan_port() ever acknowledges.                               *)

Fetch ==
    /\ saFetched = <<>> /\ ~saError
    /\ \E s \in saIssue : saFetched' = <<[slot |-> s, thread |-> saTable[s].thread]>>
    /\ UNCHANGED <<saActive, saPc, saSlot, saBuffer, saRead, saUsed, saTable, saIssue, saFilled, saError>>

Finish ==
    /\ saFetched # <<>>
    /\ saIssue' = saIssue \ {saFetched[1].slot}
    /\ saFilled' = saFilled \cup {saFetched[1].thread}
    /\ saFetched' = <<>>
    /\ UNCHANGED <<saActive, saPc, saSlot, saBuffer, saRead, saUsed, saTable, saError>>

Fail ==
    /\ saFetched # <<>>
    /\ saFetched' = <<>> /\ saError' = TRUE
    /\ UNCHANGED <<saActive, saPc, saSlot, saBuffer, saRead, saUsed, saTable, saIssue, saFilled>>

SaInit ==
    /\ saActive \in (SUBSET SaThreads) \ {{}}
    /\ saPc = [t \in SaThreads |-> "idle"]
    /\ saSlot = [t \in SaThreads |-> -1]
    /\ saBuffer = [t \in SaThreads |-> <<0, 1>>]
    /\ saRead = [t \in SaThreads |-> {}]
    /\ saUsed = {} /\ saIssue = {} /\ saFetched = <<>> /\ saFilled = {} /\ saError = FALSE
    /\ saTable = [s \in 0 .. SaSlots - 1 |-> [thread |-> "none", prdt |-> <<>>]]

SaNext ==
    \/ \E t \in saActive : FindSlot(t) \/ FillTable(t) \/ WaitNotBusy(t) \/ OrRead(t) \/ OrWrite(t)
                           \/ CheckIssued(t) \/ ReleaseSlot(t)
    \/ Fetch \/ Finish \/ Fail

----------------------------------------------------------------------------
(* Properties.                                                             *)

\* Two threads never fill the table of one slot (satadevice.cpp:119-129).
SlotsExclusive == \A t, u \in saActive : saSlot[t] # -1 /\ saSlot[t] = saSlot[u] => t = u

\* The entries of a table describe the bytes of the buffer, each once and in
\* order, no entry crosses a page, where the next may lie anywhere in memory,
\* and they fit into the table (satadevice.cpp:137-154, ahci.cpp:76-79).
PrdtCovers ==
    \A t \in saActive : saPc[t] \in {"wait", "or", "store", "check"} =>
        LET p == saTable[saSlot[t]].prdt
        IN  /\ Len(p) <= SaMaxPrts
            /\ p[1].addr = saBuffer[t][1]
            /\ p[Len(p)].addr + p[Len(p)].bytes = saBuffer[t][1] + saBuffer[t][2]
            /\ \A i \in DOMAIN p :
                 /\ p[i].bytes > 0
                 /\ p[i].addr \div SaPage = (p[i].addr + p[i].bytes - 1) \div SaPage
                 /\ i < Len(p) => p[i + 1].addr = p[i].addr + p[i].bytes

\* While one thread at a time uses the drive and no command has failed, its
\* request has been carried out when scsiPacket() returns, and the drive is done with its buffer,
\* although every turn of the loop issues the command anew
\* (satadevice.cpp:103-114).
OneReaderServed ==
    Cardinality(saActive) = 1 /\ ~saError =>
        \A t \in saActive : saPc[t] = "release" => t \in saFilled /\ saSlot[t] \notin saIssue

\* A request gets a slot of its own, a table of exactly its bytes, and those
\* bytes.
TransfersServed == SlotsExclusive /\ PrdtCovers /\ OneReaderServed
=============================================================================
