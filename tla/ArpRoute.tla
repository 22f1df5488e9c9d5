------------------------------ MODULE ArpRoute ------------------------------
(***************************************************************************)
(* How a packet gets its Ethernet address: IPv4Layer::route() and its      *)
(* retransmission queue (layer/network/ipv4.cpp), the ARP table            *)
(* (layer/link/arp.cpp and arp/table.cpp) and the part of RTL8139::send()  *)
(* that asks it (mod/core/rtl8139/rtl8139.cpp).  Actors: one thread per    *)
(* packet, IPv4Layer::loop(), ARPTable::loop() and the receive path of the *)
(* card, which calls ARPTable::set_mac().  The locks are the spinlocks of  *)
(* the code: m_tx_lock, m_entries_lock and m_queries_lock.                 *)
(***************************************************************************)
EXTENDS Integers, Sequences, SequencesExt, FiniteSets

CONSTANTS
    Packet,            \* packets, each routed by a thread of its own
    ArpIp, DstOf,      \* addresses, and packet -> the address it goes to
    ArpRetries,        \* ARP_RETRIES
    MaxTries,          \* MAX_RETX_TRIES
    RetxMax,           \* MAX_RETX_QUEUE_SIZE, in frames
    RetxChunk,         \* elements Vector m_retx_queue grows by
    MaxAging, MaxReplies  \* bounds: agings of entries and replies in a behaviour

Nobody == "nobody"
RetxLoop == "ipv4 loop"
ArpLoop == "arp loop"
Sender == Packet \union {RetxLoop}

VARIABLES
    entries,     \* m_entries: ip and age of each
    queries,     \* m_queries: ip and retries of each
    tx, ent, qry,\* holders of m_tx_lock, m_entries_lock, m_queries_lock
    retxq,       \* m_retx_queue: packet and tries of each
    rpc,         \* sender -> where it is in route(), retx() and send()
    ri,          \* i of retx()
    cap, moved,  \* m_mem_count of m_retx_queue; its array moved during send() of retx()
    apc, ai,     \* ARPTable::loop(): where it is, and i
    reply,       \* the address set_mac() is recording, or Nobody
    attempts,    \* history: packet -> calls of send()
    onWire,      \* history: packet -> times it was transmitted
    aged, replies,  \* how much of MaxAging and MaxReplies is used
    freed        \* retx() read a frame of an array that is freed

arpVars == <<entries, queries, tx, ent, qry, retxq, cap, rpc, ri, moved, apc, ai, reply,
             attempts, onWire, aged, replies, freed>>
arpLocks == <<tx, ent, qry>>
loopVars == <<apc, ai, reply, replies, aged>>

ArpRouteInit ==
    /\ entries = <<>> /\ queries = <<>>
    /\ tx = Nobody /\ ent = Nobody /\ qry = Nobody
    /\ retxq = <<>>
    /\ rpc = [s \in Sender |-> IF s = RetxLoop THEN "sleep" ELSE "route"]
    /\ ri = 1 /\ cap = 0 /\ moved = FALSE
    /\ apc = "sleep" /\ ai = 1
    /\ reply = Nobody
    /\ attempts = [p \in Packet |-> 0]
    /\ onWire = [p \in Packet |-> 0]
    /\ aged = 0 /\ replies = 0
    /\ freed = FALSE

RGoto(s, pc) == rpc' = [rpc EXCEPT ![s] = pc]
PacketOf(s) == IF s = RetxLoop THEN retxq[ri].packet ELSE s
EntryOf(ip) == {i \in DOMAIN entries : entries[i].ip = ip}

(* send() up to m_tx_lock: from route(), and from retx() for a frame of    *)
(* the queue, whose tries it has just counted.                             *)
RouteSend(p) ==
    /\ rpc[p] = "route" /\ tx = Nobody
    /\ tx' = p
    /\ attempts' = [attempts EXCEPT ![p] = @ + 1]
    /\ RGoto(p, "lookup")
    /\ UNCHANGED <<entries, queries, ent, qry, retxq, cap, ri, moved, loopVars, onWire, freed>>

RetxWake ==
    /\ rpc[RetxLoop] = "sleep" /\ retxq # <<>>
    /\ ri' = 1
    /\ RGoto(RetxLoop, "next")
    /\ UNCHANGED <<entries, queries, arpLocks, retxq, cap, moved, loopVars, attempts, onWire, freed>>

RetxSend ==
    /\ rpc[RetxLoop] = "next" /\ ri <= Len(retxq) /\ tx = Nobody
    /\ tx' = RetxLoop
    /\ retxq' = [retxq EXCEPT ![ri].tries = @ + 1]
    /\ attempts' = [attempts EXCEPT ![retxq[ri].packet] = @ + 1]
    /\ moved' = FALSE
    /\ RGoto(RetxLoop, "lookup")
    /\ UNCHANGED <<entries, queries, ent, qry, cap, ri, loopVars, onWire, freed>>

RetxSleep ==
    /\ rpc[RetxLoop] = "next" /\ ri > Len(retxq)
    /\ RGoto(RetxLoop, "sleep")
    /\ UNCHANGED <<entries, queries, arpLocks, retxq, cap, ri, moved, loopVars, attempts, onWire,
                   freed>>

(* get_mac() up to m_queries_lock.  An entry younger than ARP_REFRESH_NS   *)
(* is used as it is; an older one is used and asked for again; past        *)
(* ARP_TIMEOUT_NS it is asked for and the packet waits, after the query of *)
(* the same index (not the entry) is erased without its lock.              *)
ErasedQuery(i) == IF i \in DOMAIN queries THEN RemoveAt(queries, i) ELSE queries

GetMac(s) ==
    /\ rpc[s] = "lookup" /\ ent = Nobody
    /\ LET hit == EntryOf(DstOf[PacketOf(s)])
       IN  \/ /\ \E i \in hit : entries[i].age = "fresh"
              /\ RGoto(s, "found")
              /\ UNCHANGED <<ent, queries>>
           \/ /\ \E i \in hit : entries[i].age = "refresh"
              /\ ent' = s
              /\ RGoto(s, "query found")
              /\ UNCHANGED queries
           \/ /\ \E i \in hit : entries[i].age = "timeout" /\ queries' = ErasedQuery(i)
              /\ ent' = s
              /\ RGoto(s, "query missing")
           \/ /\ hit = {}
              /\ ent' = s
              /\ RGoto(s, "query missing")
              /\ UNCHANGED queries
    /\ UNCHANGED <<entries, tx, qry, retxq, cap, ri, moved, loopVars, attempts, onWire, freed>>

(* query_mac(): one query per address.                                     *)
WithQuery(ip) ==
    IF \E i \in DOMAIN queries : queries[i].ip = ip THEN queries
    ELSE Append(queries, [ip |-> ip, retries |-> 0])

QueryMac(s) ==
    /\ rpc[s] \in {"query found", "query missing"} /\ qry = Nobody
    /\ queries' = WithQuery(DstOf[PacketOf(s)])
    /\ ent' = Nobody
    /\ RGoto(s, IF rpc[s] = "query found" THEN "found" ELSE "missing")
    /\ UNCHANGED <<entries, tx, qry, retxq, cap, ri, moved, loopVars, attempts, onWire, freed>>

(* The rest of send(): the frame goes out, or EAGAIN.                      *)
SendEnd(s) ==
    /\ rpc[s] \in {"found", "missing"}
    /\ tx' = Nobody
    /\ onWire' = IF rpc[s] = "found" THEN [onWire EXCEPT ![PacketOf(s)] = @ + 1] ELSE onWire
    /\ RGoto(s, CASE s = RetxLoop -> IF rpc[s] = "found" THEN "sent" ELSE "kept"
                  [] rpc[s] = "found" -> "done"
                  [] OTHER -> "retx add")
    /\ UNCHANGED <<entries, queries, ent, qry, retxq, cap, ri, moved, loopVars, attempts, freed>>

(* retx_add(): the size is tested before m_retx_queue_lock is taken.       *)
RetxRoom(p) ==
    /\ rpc[p] = "retx add"
    /\ RGoto(p, IF Len(retxq) + 1 > RetxMax THEN "done" ELSE "retx push")
    /\ UNCHANGED <<entries, queries, arpLocks, retxq, cap, ri, moved, loopVars, attempts, onWire,
                   freed>>

Capacity(n) == ((n + RetxChunk - 1) \div RetxChunk) * RetxChunk

RetxPush(p) ==
    /\ rpc[p] = "retx push"
    /\ retxq' = Append(retxq, [packet |-> p, tries |-> 0])
    /\ cap' = Capacity(Len(retxq'))
    /\ moved' = (moved \/ cap' # cap)
    /\ RGoto(p, "done")
    /\ UNCHANGED <<entries, queries, arpLocks, ri, loopVars, attempts, onWire, freed>>

(* The end of an iteration of retx().  The frame is a reference into the   *)
(* vector: when a push has moved the array during send(), its tries and    *)
(* its data are read from memory that is freed.  The model stops there.    *)
FinishFrame(over) ==
    /\ rpc[RetxLoop] \in {"sent", "kept"}
    /\ LET fit == Capacity(Len(retxq) - 1)
       IN  /\ retxq' = IF over THEN RemoveAt(retxq, ri) ELSE retxq
           /\ cap' = IF over /\ fit > RetxChunk THEN fit ELSE cap
           /\ ri' = IF over THEN ri ELSE ri + 1
    /\ freed' = moved
    /\ RGoto(RetxLoop, "next")
    /\ UNCHANGED <<entries, queries, arpLocks, moved, loopVars, attempts, onWire>>

RetxFinishKeeps == FinishFrame(retxq[ri].tries = MaxTries)          \* mutant

RetxFinish == FinishFrame(rpc[RetxLoop] = "sent" \/ retxq[ri].tries = MaxTries)

(* ARPTable::loop(): the queries in turn under m_queries_lock, which it    *)
(* holds while send_mac_request() takes m_tx_lock.  A query is due or not  *)
(* by the clock.                                                           *)
ArpWake ==
    /\ apc = "sleep" /\ queries # <<>> /\ qry = Nobody
    /\ qry' = ArpLoop
    /\ apc' = "query" /\ ai' = 1
    /\ UNCHANGED <<entries, queries, tx, ent, retxq, cap, rpc, ri, moved, reply, attempts, onWire,
                   aged, replies, freed>>

ArpQuery ==
    /\ apc = "query" /\ ai <= Len(queries)
    /\ \/ ai' = ai + 1 /\ UNCHANGED <<queries, apc>>                  \* time < retry_at
       \/ /\ queries[ai].retries = ArpRetries
          /\ queries' = RemoveAt(queries, ai)
          /\ UNCHANGED <<ai, apc>>
       \/ /\ queries[ai].retries # ArpRetries
          /\ apc' = "request"
          /\ UNCHANGED <<queries, ai>>
    /\ UNCHANGED <<entries, arpLocks, retxq, cap, rpc, ri, moved, reply, attempts, onWire, aged,
                   replies, freed>>

ArpRequest ==
    /\ apc = "request" /\ tx = Nobody
    /\ queries' = IF ai <= Len(queries) THEN [queries EXCEPT ![ai].retries = @ + 1] ELSE queries
    /\ apc' = "query" /\ ai' = ai + 1
    /\ UNCHANGED <<entries, arpLocks, retxq, cap, rpc, ri, moved, reply, attempts, onWire, aged,
                   replies, freed>>

ArpSleep ==
    /\ apc = "query" /\ ai > Len(queries)
    /\ qry' = Nobody
    /\ apc' = "sleep"
    /\ UNCHANGED <<entries, queries, tx, ent, retxq, cap, rpc, ri, moved, ai, reply, attempts, onWire,
                   aged, replies, freed>>

(* ARPLayer::parse() of a reply: set_mac() drops the queries of the        *)
(* address under one lock and records the entry under the other.           *)
SetMacQueries(ip) ==
    /\ reply = Nobody /\ qry = Nobody /\ replies < MaxReplies
    /\ queries' = SelectSeq(queries, LAMBDA q : q.ip # ip)
    /\ reply' = ip
    /\ replies' = replies + 1
    /\ UNCHANGED <<entries, arpLocks, retxq, cap, rpc, ri, moved, apc, ai, attempts, onWire, aged,
                   freed>>

SetMacEntry ==
    /\ reply # Nobody /\ ent = Nobody
    /\ entries' = IF EntryOf(reply) # {}
                    THEN [i \in DOMAIN entries |->
                            IF i \in EntryOf(reply) THEN [ip |-> reply, age |-> "fresh"]
                            ELSE entries[i]]
                    ELSE Append(entries, [ip |-> reply, age |-> "fresh"])
    /\ reply' = Nobody
    /\ UNCHANGED <<queries, arpLocks, retxq, cap, rpc, ri, moved, apc, ai, attempts, onWire, aged,
                   replies, freed>>

(* ARPLayer::parse() of a request for this host answers it, through        *)
(* RTL8139::send() and so m_tx_lock; it changes nothing else.              *)

Older(age) == IF age = "fresh" THEN "refresh" ELSE "timeout"
Aging(i) ==
    /\ aged < MaxAging /\ entries[i].age # "timeout"
    /\ aged' = aged + 1
    /\ entries' = [entries EXCEPT ![i].age = Older(@)]
    /\ UNCHANGED <<queries, arpLocks, retxq, cap, rpc, ri, moved, apc, ai, reply, attempts, onWire,
                   replies, freed>>

ArpRouteNext ==
    /\ ~freed
    /\ \/ \E p \in Packet : RouteSend(p) \/ RetxRoom(p) \/ RetxPush(p)
       \/ RetxWake \/ RetxSend \/ RetxSleep \/ RetxFinish
       \/ \E s \in Sender : GetMac(s) \/ QueryMac(s) \/ SendEnd(s)
       \/ ArpWake \/ ArpQuery \/ ArpRequest \/ ArpSleep
       \/ SetMacEntry \/ \E ip \in ArpIp : SetMacQueries(ip)
       \/ \E i \in DOMAIN entries : Aging(i)

---------------------------------------------------------------------------
(* query_mac() is called under one lock from several threads and its list  *)
(* is also edited without its lock: an address is still asked for by at    *)
(* most one query, and a query never counts past ARP_RETRIES, the value    *)
(* ARPTable::loop() compares it with for equality.                         *)
OneBoundedQuery ==
    \A i, j \in DOMAIN queries :
        /\ queries[i].ip = queries[j].ip => i = j
        /\ queries[i].retries <= ArpRetries

(* A packet is transmitted at most once, and send() is tried at most once  *)
(* by route() and MAX_RETX_TRIES times by retx(), whatever is pushed to    *)
(* and erased from the queue meanwhile.                                    *)
SentOnceTriesBounded ==
    \A p \in Packet : onWire[p] <= 1 /\ attempts[p] <= MaxTries + 1

\* Neither a question nor a packet is sent in double or without end,
\* although route(), retx() and the ARP loop share their lists.
OnceAndBounded == OneBoundedQuery /\ SentOnceTriesBounded
=============================================================================
