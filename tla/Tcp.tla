-------------------------------- MODULE Tcp --------------------------------
(***************************************************************************)
(* mod/core/netstack/socket/inet/tcp.cpp and tcp.hpp: one TCP connection   *)
(* between an active socket ("client") and the socket ("server") that a    *)
(* listening socket spawns, over a network that loses, duplicates and      *)
(* reorders segments.  Each socket is worked on by three threads: the      *)
(* application (app), the protocol loop (tick) and the receive path (rxp). *)
(* What one of them does while it holds m_lock is one step; m_lock is      *)
(* released around every send, so the steps of the others come in between. *)
(*                                                                         *)
(* Bytes are natural numbers, a segment is a record, and the network is    *)
(* the set of all segments ever sent: delivering one twice, late or never  *)
(* is a behaviour.  Timers (retransmission, connect) may fire at any time. *)
(***************************************************************************)
EXTENDS Integers, Sequences, FiniteSets, SequencesExt

CONSTANTS
    SeqSpace,      \* 2^32 in the code
    Iss,         \* End -> initial sequence number ("I need a random number generator")
    Plans,       \* bound: what the applications do in one behaviour
    TxSize, RxSize, Slack,   \* TCP_TX_BUFFER_SIZE, TCP_RX_BUFFER_SIZE, TCP_PROBE_SLACK
    MinMss, MaxMss,          \* TCP_MIN_MSS and the advertised 1460
    Retries,     \* TCP_RETRIES
    Backlog,     \* the argument of listen()
    ReadLens     \* bound: the lengths receiveFrom() is called with

End == {"client", "server"}
(* A plan bounds a behaviour: how many bytes each end sends, and which of  *)
(* the calls in CallNames its application makes.                           *)
CallNames == {"timeout", "receive", "shut_read", "shut_write", "close", "destroy",
              "close_listener"}
Plan == [total : [End -> Nat], calls : [End -> SUBSET CallNames]]
ASSUME PlansAssumption == Plans \subseteq Plan

Peer(s) == IF s = "client" THEN "server" ELSE "client"

VARIABLES
    sk,      \* End -> tcp_block, buffers and retransmission queue
    lst,     \* the listening socket
    net,     \* every segment sent so far
    app, tick, rxp,
    sent,    \* End -> bytes sendTo() has put into m_tx_buffer
    got,     \* End -> bytes receiveFrom() has returned
    spawned, \* the listener has spawned the server's socket
    plan,    \* the member of Plans this behaviour follows
    panic    \* the kernel stopped: kpanic, a failed AEX_ASSERT or a fault

tcpVars == <<sk, lst, net, app, tick, rxp, sent, got, spawned, plan, panic>>

TcpMax(a, b) == IF a > b THEN a ELSE b
TcpMin(a, b) == IF a < b THEN a ELSE b
Add(a, n) == (a + n) % SeqSpace

---------------------------------------------------------------------------
(* Sequence number comparison, with the code's arithmetic on the wrapped   *)
(* side.                                                                   *)
Extent == SeqSpace \div 2 - 1

IsBefore(val, start) ==
    \/ val > start /\ (SeqSpace - 1) - val + start <= Extent
    \/ val < start /\ start - val <= Extent

IsBeforeOrEqual(val, start) == val = start \/ IsBefore(val, start)
IsAfterOrEqual(val, start) == ~IsBefore(val, start)

---------------------------------------------------------------------------
(* A socket as clearState() leaves it.                                     *)
ClearState ==
    [state |-> "CLOSED", una |-> 0, nxt |-> 0, wnd |-> 0, mss |-> MinMss, rcv |-> 0,
     comp_ack |-> FALSE, notify |-> FALSE, closing |-> FALSE,
     send_shut |-> FALSE, receive_shut |-> FALSE,
     tx |-> <<>>, rx |-> <<>>, rtq |-> <<>>]

GetWindow(k) == TcpMax(0, (RxSize - 1) - Len(k.rx) - Slack)

(* _close() and reset(); the verdict is whether a RST has to be sent.      *)
CloseBlock(k) ==
    [k EXCEPT !.state = "CLOSED", !.send_shut = TRUE, !.receive_shut = TRUE, !.rtq = <<>>]
ResetBlock(k) == [CloseBlock(k) EXCEPT !.closing = TRUE]
ResetVerdict(k) == ~k.closing /\ k.state \notin {"LISTEN", "CLOSED"}

(* sendSegment(): what goes on the wire from s.                            *)
Wire(s, k, seq, ack, flags, data, mss) ==
    [to |-> Peer(s), seq |-> seq, ack |-> ack, flags |-> flags, data |-> data,
     mss |-> mss, wnd |-> GetWindow(k)]

Ack(s, k, manual) == Wire(s, k, k.nxt, manual, {"ACK"}, <<>>, 0)
Rst(s, k) ==
    Wire(s, k, k.nxt, IF k.state = "SYN_RECEIVED" THEN k.rcv ELSE 0, {"RST"}, <<>>, 0)
WindowUpdate(s, k) == Ack(s, k, k.rcv)

(* A segment of the retransmission queue, sent again as it was queued but  *)
(* with the window of the moment.                                          *)
Queued(seq, ack, flags, data, mss, ack_with) ==
    [seq |-> seq, ack |-> ack, flags |-> flags, data |-> data, mss |-> mss,
     ack_with |-> ack_with, retries |-> 0]
OnWire(s, k, e) == Wire(s, k, e.seq, e.ack, e.flags, e.data, e.mss)

(* reset() under the lock, then rst() when the verdict says so.            *)
ResetAndTell(s, k) ==
    /\ sk' = [sk EXCEPT ![s] = ResetBlock(k)]
    /\ net' = IF ResetVerdict(k) THEN net \union {Rst(s, ResetBlock(k))} ELSE net

Idle == [pc |-> "idle"]
Doing(s, pc) == app[s].pc = pc
May(s, call) == call \in plan.calls[s]
Total(s) == plan.total[s]
Goto(s, pc) == app' = [app EXCEPT ![s] = [pc |-> pc]]

(* The application cannot reach a socket before it has one, or after the   *)
(* destructor ran.                                                         *)
Exists(s) == ~panic /\ ~Doing(s, "gone") /\ (s = "server" => spawned)

TcpInit ==
    /\ sk = [s \in End |-> ClearState]
    /\ lst = [state |-> "CLOSED", queue |-> <<>>, accept |-> 0, backlog |-> 0]
    /\ net = {}
    /\ app = [s \in End |-> [pc |-> "new"]]
    /\ tick = [s \in End |-> Idle]
    /\ rxp = [s \in End |-> Idle]
    /\ sent = [s \in End |-> <<>>]
    /\ got = [s \in End |-> <<>>]
    /\ spawned = FALSE
    /\ plan \in Plans
    /\ panic = FALSE

---------------------------------------------------------------------------
(* Opening a connection.                                                   *)

(* connect() up to the release of m_lock.                                  *)
ConnectBegin ==
    /\ ~panic /\ Doing("client", "new") /\ sk["client"].state = "CLOSED"
    /\ sk' = [sk EXCEPT !["client"] = [ClearState EXCEPT !.state = "SYN_SENT"]]
    /\ Goto("client", "syn")
    /\ UNCHANGED <<lst, net, tick, rxp, sent, got, spawned, plan, panic>>

(* syn(): the sequence numbers are written without the lock, then the SYN  *)
(* is queued and sent.                                                     *)
ConnectSyn ==
    /\ ~panic /\ Doing("client", "syn")
    /\ LET iss == Iss["client"]
           k   == [sk["client"] EXCEPT !.una = iss, !.nxt = Add(iss, 1), !.mss = MinMss]
           e   == Queued(iss, 0, {"SYN"}, <<>>, MaxMss, k.nxt)
       IN  /\ sk' = [sk EXCEPT !["client"] = [k EXCEPT !.rtq = Append(@, e)]]
           /\ net' = net \union {OnWire("client", k, e)}
    /\ Goto("client", "connecting")
    /\ UNCHANGED <<lst, tick, rxp, sent, got, spawned, plan, panic>>

(* The wait in connect(): it ends when the state is ESTABLISHED or CLOSED, *)
(* or at TCP_CONNECTION_TIMEOUT.                                           *)
ConnectEnd ==
    /\ ~panic /\ Doing("client", "connecting")
    /\ LET k == sk["client"]
       IN  IF k.state \in {"ESTABLISHED", "FIN_WAIT_1", "FIN_WAIT_2", "CLOSE_WAIT"}
           THEN Goto("client", "open") /\ UNCHANGED <<sk, net>>
           ELSE /\ k.state = "CLOSED" \/ May("client", "timeout")
                /\ Goto("client", "refused") /\ ResetAndTell("client", k)
    /\ UNCHANGED <<lst, tick, rxp, sent, got, spawned, plan, panic>>

(* listen() and accept().  close() of the listener deletes both queues, so *)
(* an accept() still waiting then reads through a null pointer.            *)
Listen ==
    /\ ~panic /\ Doing("server", "new") /\ lst.state = "CLOSED"
    /\ lst' = [lst EXCEPT !.state = "LISTEN", !.backlog = Backlog]
    /\ Goto("server", "accepting")
    /\ UNCHANGED <<sk, net, tick, rxp, sent, got, spawned, plan, panic>>

Accept ==
    /\ ~panic /\ Doing("server", "accepting") /\ lst.state = "LISTEN" /\ lst.accept > 0
    /\ lst' = [lst EXCEPT !.accept = @ - 1, !.backlog = @ + 1]
    /\ Goto("server", "open")
    /\ UNCHANGED <<sk, net, tick, rxp, sent, got, spawned, plan, panic>>

CloseListener ==
    /\ ~panic /\ May("server", "close_listener") /\ lst.state = "LISTEN"
    /\ lst' = [state |-> "CLOSED", queue |-> <<>>, accept |-> 0, backlog |-> lst.backlog]
    /\ IF lst.accept > 0 THEN ResetAndTell("server", sk["server"]) ELSE UNCHANGED <<sk, net>>
    /\ panic' = Doing("server", "accepting")
    /\ UNCHANGED <<app, tick, rxp, sent, got, spawned, plan>>

---------------------------------------------------------------------------
(* The receive path.                                                       *)

(* readOptions(): the only option either end sends is the MSS.             *)
ReadOptions(k, g) ==
    IF g.mss = 0 THEN k ELSE [k EXCEPT !.mss = TcpMin(TcpMax(g.mss, MinMss), MaxMss)]

(* An acknowledgement moves snd_una and takes over the peer's window.      *)
TakeAck(k, g) ==
    IF "ACK" \in g.flags /\ IsAfterOrEqual(g.ack, k.una)
    THEN [k EXCEPT !.una = g.ack, !.wnd = g.wnd] ELSE k

WrongAck(k, g) ==
    "ACK" \in g.flags /\ k.state \in {"SYN_SENT", "SYN_RECEIVED"} /\ g.ack # k.nxt

(* The walk over the retransmission queue: what the acknowledgement covers *)
(* is erased, and an acknowledged SYN or FIN moves the state.              *)
Covered(k, g) == {i \in DOMAIN k.rtq : IsBeforeOrEqual(k.rtq[i].ack_with, g.ack)}
CoversFlag(k, g, f) == \E i \in Covered(k, g) : f \in k.rtq[i].flags

AckState(k, g) ==
    CASE CoversFlag(k, g, "FIN") /\ k.state = "FIN_WAIT_1"   -> "FIN_WAIT_2"
      [] CoversFlag(k, g, "SYN") /\ k.state = "SYN_RECEIVED" -> "ESTABLISHED"
      [] OTHER -> k.state

AckEndsIt(k, g) ==
    "ACK" \in g.flags /\ CoversFlag(k, g, "FIN") /\ k.state \in {"LAST_ACK", "CLOSING"}

RetireAcked(k, g) ==
    IF "ACK" \notin g.flags THEN k
    ELSE [k EXCEPT !.state = AckState(k, g),
                   !.rtq = SelectSeq(@, LAMBDA e : ~IsBeforeOrEqual(e.ack_with, g.ack))]

(* Data is taken only in order; a whole duplicate is acknowledged again.   *)
Overflows(k, g, expected) ==
    g.data # <<>> /\ g.seq = expected /\ Len(g.data) > (RxSize - 1) - Len(k.rx)

(* The bytes of a segment appended to the receive buffer.                  *)
Filled(k, g) ==
    LET filled == [k EXCEPT !.rcv = Add(@, Len(g.data)),
                            !.rx = IF k.receive_shut THEN @ ELSE @ \o g.data,
                            !.comp_ack = TRUE]
    IN  [filled EXCEPT !.notify = @ \/ GetWindow(filled) < RxSize \div 2]

(* Mutant: only what is wholly old is refused.                             *)
TakeDataEarly(k, g, expected) ==
    IF g.data = <<>> \/ IsBefore(g.seq, expected) THEN k ELSE Filled(k, g)

TakeData(k, g, expected) ==
    IF g.data = <<>> \/ g.seq # expected THEN k ELSE Filled(k, g)

DuplicateAck(s, k, g, expected) ==
    LET end == Add(g.seq, Len(g.data))
    IN  IF g.data # <<>> /\ g.seq # expected /\ IsBeforeOrEqual(end, k.rcv)
        THEN {Ack(s, k, end)} ELSE {}

FinTaken(k) ==
    LET shut == [k EXCEPT !.receive_shut = TRUE]
        next == [shut EXCEPT !.rcv = Add(@, 1), !.comp_ack = TRUE]
    IN  CASE k.state = "FIN_WAIT_1"  -> [next EXCEPT !.state = "CLOSING"]
          [] k.state = "FIN_WAIT_2"  -> next
          [] k.state = "ESTABLISHED" -> [next EXCEPT !.state = "CLOSE_WAIT"]
          [] OTHER -> shut

TakeFin(k, g, expected) ==
    IF "FIN" \notin g.flags \/ g.seq # expected THEN k ELSE FinTaken(k)

(* The part of packetReceived() after the SYN was looked at.  expected is  *)
(* the rcv_nxt read at the top of the function.                            *)
RxBody(s, g, k0, expected) ==
    LET k1 == TakeAck(k0, g)
        k2 == RetireAcked(k1, g)
        k3 == TakeData(k2, g, expected)
    IN  CASE WrongAck(k1, g) ->
                ResetAndTell(s, [k1 EXCEPT !.nxt = g.ack, !.rcv = g.seq])
          [] ~WrongAck(k1, g) /\ AckEndsIt(k1, g) ->
                sk' = [sk EXCEPT ![s] = CloseBlock(k1)] /\ UNCHANGED net
          [] ~WrongAck(k1, g) /\ ~AckEndsIt(k1, g) /\ Overflows(k2, g, expected) ->
                ResetAndTell(s, k2)
          [] OTHER ->
                /\ sk' = [sk EXCEPT ![s] = TakeFin(k3, g, expected)]
                /\ net' = net \union DuplicateAck(s, k3, g, expected)

RstAccepted(k, g) ==
    \/ k.state = "SYN_SENT" /\ "ACK" \in g.flags /\ g.ack = k.nxt
    \/ IsAfterOrEqual(g.seq, k.rcv) /\ IsBefore(g.seq, Add(k.rcv, GetWindow(k)))

(* TCPProtocol::packetReceived() hands a segment to the connected socket   *)
(* of its ports, and to the listener only when there is none.              *)
Reaches(s) == Exists(s) /\ sk[s].state # "CLOSED"

PacketReceived(s, g) ==
    /\ Reaches(s) /\ rxp[s] = Idle /\ g.to = s
    /\ LET k == ReadOptions(sk[s], g)
       IN  IF "RST" \in g.flags
           THEN /\ sk' = [sk EXCEPT ![s] = IF RstAccepted(k, g) THEN ResetBlock(k) ELSE k]
                /\ UNCHANGED <<net, rxp>>
           ELSE IF "SYN" \in g.flags /\ k.state = "SYN_SENT"
           THEN LET synced == [k EXCEPT !.rcv = Add(g.seq, 1)]
                IN  /\ sk' = [sk EXCEPT ![s] = synced]
                    /\ net' = net \union {Ack(s, synced, synced.rcv)}
                    /\ rxp' = [rxp EXCEPT ![s] = [pc |-> "syn", seg |-> g, expected |-> k.rcv]]
           ELSE RxBody(s, g, k, k.rcv) /\ UNCHANGED rxp
    /\ UNCHANGED <<lst, app, tick, sent, got, spawned, plan, panic>>

(* ... and on, when the acknowledgement of the SYN is out and m_lock has   *)
(* been taken again.                                                       *)
PacketReceivedSyn(s) ==
    /\ Exists(s) /\ rxp[s] # Idle
    /\ RxBody(s, rxp[s].seg, [sk[s] EXCEPT !.state = "SYN_RECEIVED"], rxp[s].expected)
    /\ rxp' = [rxp EXCEPT ![s] = Idle]
    /\ UNCHANGED <<lst, app, tick, sent, got, spawned, plan, panic>>

(* packetReceivedListen(): a SYN makes (or finds) the entry of its sender  *)
(* and is answered with SYN and ACK; the ACK of that turns the entry into  *)
(* a connected socket while the backlog lasts.                             *)
NewEntry(g) ==
    [ClearState EXCEPT !.state = "SYN_RECEIVED", !.wnd = g.wnd, !.rcv = Add(g.seq, 1),
                       !.nxt = Add(Iss["server"], 1), !.una = Add(Iss["server"], 1)]

(* tryCreateListenEntry() and getListenEntry()                             *)
ListenEntry(g) == IF lst.queue = <<>> THEN NewEntry(g) ELSE lst.queue[1]

(* The socket made from an entry: TCPSocket(parent, listen_entry).         *)
Spawned(entry) == [entry EXCEPT !.state = "ESTABLISHED"]

ListenSyn(g) ==
    /\ "SYN" \in g.flags
    /\ LET entry == ListenEntry(g)
       IN  /\ lst' = [lst EXCEPT !.queue = <<ReadOptions(entry, g)>>]
           /\ net' = net \union {Wire("server", ClearState, Add(entry.nxt, SeqSpace - 1),
                                      entry.rcv, {"SYN", "ACK"}, <<>>, MaxMss)}
    /\ UNCHANGED <<sk, spawned>>

ListenAck(g) ==
    /\ "SYN" \notin g.flags /\ "ACK" \in g.flags
    /\ ~spawned                     \* bound: one connection in a behaviour
    /\ lst.queue # <<>> /\ lst.backlog > 0
    /\ IsAfterOrEqual(g.ack, lst.queue[1].nxt)
    /\ sk' = [sk EXCEPT !["server"] = Spawned(lst.queue[1])]
    /\ lst' = [lst EXCEPT !.queue = <<>>, !.accept = @ + 1, !.backlog = @ - 1]
    /\ spawned' = TRUE
    /\ UNCHANGED net

PacketReceivedListen(g) ==
    /\ ~panic /\ ~Reaches("server") /\ lst.state = "LISTEN"
    /\ g.to = "server" /\ "RST" \notin g.flags
    /\ ListenSyn(g) \/ ListenAck(g)
    /\ UNCHANGED <<app, tick, rxp, sent, got, plan, panic>>

---------------------------------------------------------------------------
(* The protocol loop: tick() is package() and then retransmit().           *)

(* One turn of package()'s loop: a segment is cut, queued and sent.  The   *)
(* flag of the pending acknowledgement is dropped only after the send.     *)
Package(s) ==
    /\ Exists(s)
    /\ \/ tick[s] = Idle /\ sk[s].state # "CLOSED"
       \/ tick[s].pc = "sent"
    /\ sk[s].tx # <<>>
    /\ LET k  == IF tick[s].pc = "sent" THEN [sk[s] EXCEPT !.comp_ack = FALSE] ELSE sk[s]
           n  == TcpMin(Len(k.tx), TcpMin(k.wnd, k.mss))
           k1 == [k EXCEPT !.tx = SubSeq(@, n + 1, Len(@)), !.nxt = Add(@, n), !.wnd = @ - n]
           e  == Queued(k.nxt, k.rcv, {"PSH", "ACK"}, SubSeq(k.tx, 1, n), 0, k1.nxt)
       IN  IF k.wnd = 0
           THEN panic' = TRUE /\ UNCHANGED <<sk, net, tick>>     \* AEX_ASSERT(snd_wnd != 0)
           ELSE /\ sk' = [sk EXCEPT ![s] = [k1 EXCEPT !.rtq = Append(@, e)]]
                /\ net' = net \union {OnWire(s, k1, e)}
                /\ tick' = [tick EXCEPT ![s] = [pc |-> "sent"]]
                /\ UNCHANGED panic
    /\ UNCHANGED <<lst, app, rxp, sent, got, spawned, plan>>

(* retransmit() walks the queue with the length it had at the start.       *)
Retransmitting(k) ==
    IF k.rtq = <<>> THEN Idle ELSE [pc |-> "resend", i |-> 1, count |-> Len(k.rtq)]

(* The end of package(): nothing left to send, and a pending ACK goes out  *)
(* without the lock.                                                       *)
PackageEnd(s) ==
    /\ Exists(s)
    /\ \/ tick[s] = Idle /\ sk[s].state # "CLOSED" /\ (sk[s].comp_ack \/ sk[s].rtq # <<>>)
       \/ tick[s].pc = "sent"
    /\ sk[s].tx = <<>>
    /\ LET k == IF tick[s].pc = "sent" THEN [sk[s] EXCEPT !.comp_ack = FALSE] ELSE sk[s]
       IN  /\ sk' = [sk EXCEPT ![s] = k]
           /\ net' = IF k.comp_ack THEN net \union {Ack(s, k, k.rcv)} ELSE net
           /\ tick' = [tick EXCEPT ![s] =
                          IF k.comp_ack THEN [pc |-> "acked"] ELSE Retransmitting(k)]
    /\ UNCHANGED <<lst, app, rxp, sent, got, spawned, plan, panic>>

AckSent(s) ==
    /\ Exists(s) /\ tick[s].pc = "acked"
    /\ sk' = [sk EXCEPT ![s].comp_ack = FALSE]
    /\ tick' = [tick EXCEPT ![s] = Retransmitting(sk[s])]
    /\ UNCHANGED <<lst, net, app, rxp, sent, got, spawned, plan, panic>>

(* Vector::operator[] gives element 0 for an index past the end; of an     *)
(* emptied vector that slot holds whatever was left behind.                *)
Element(k, i) == IF i <= Len(k.rtq) THEN i ELSE 1

(* k is the block with the attempt on segment j counted.                   *)
Resend(s, j, k) ==
    /\ Exists(s) /\ tick[s].pc = "resend" /\ tick[s].i <= j /\ j <= tick[s].count
    /\ sk[s].rtq # <<>>
    /\ LET e == k.rtq[Element(k, j)]
       IN  IF e.retries > Retries
           THEN ResetAndTell(s, k) /\ tick' = [tick EXCEPT ![s] = Idle]
           ELSE /\ sk' = [sk EXCEPT ![s] = k]
                /\ net' = net \union {OnWire(s, k, e)}
                /\ tick' = [tick EXCEPT ![s].i = j + 1]
    /\ UNCHANGED <<lst, app, rxp, sent, got, spawned, plan, panic>>

(* Mutant: attempts are not counted.                                       *)
RetransmitUncounted(s, j) == Resend(s, j, sk[s])

RetransmitDue(s, j) ==
    Resend(s, j, [sk[s] EXCEPT !.rtq[Element(sk[s], j)].retries = @ + 1])

RetransmitStale(s) ==
    /\ Exists(s) /\ tick[s].pc = "resend" /\ tick[s].i <= tick[s].count
    /\ sk[s].rtq = <<>>
    /\ panic' \in BOOLEAN
    /\ tick' = [tick EXCEPT ![s].i = @ + 1]
    /\ UNCHANGED <<sk, lst, net, app, rxp, sent, got, spawned, plan>>

(* The rest of the queue is not due.                                       *)
RetransmitEnd(s) ==
    /\ Exists(s) /\ tick[s].pc = "resend"
    /\ tick' = [tick EXCEPT ![s] = Idle]
    /\ UNCHANGED <<sk, lst, net, app, rxp, sent, got, spawned, plan, panic>>

---------------------------------------------------------------------------
(* The application.                                                        *)

(* sendTo(): one call for all that is left to send.                        *)
SendBegin(s) ==
    /\ Exists(s) /\ Doing(s, "open") /\ Len(sent[s]) < Total(s)
    /\ ~sk[s].send_shut /\ sk[s].state = "ESTABLISHED"
    /\ Goto(s, "sending")
    /\ UNCHANGED <<sk, lst, net, tick, rxp, sent, got, spawned, plan, panic>>

SendStep(s) ==
    /\ Exists(s) /\ Doing(s, "sending")
    /\ LET room  == (TxSize - 1) - Len(sk[s].tx)
           chunk == [i \in 1 .. TcpMin(room, Total(s) - Len(sent[s])) |-> Len(sent[s]) + i]
           all   == Len(sent[s]) + Len(chunk) = Total(s)
       IN  IF sk[s].send_shut
           THEN Goto(s, "open") /\ UNCHANGED <<sk, sent>>
           ELSE /\ room > 0
                /\ sk' = [sk EXCEPT ![s].tx = @ \o chunk]
                /\ sent' = [sent EXCEPT ![s] = @ \o chunk]
                /\ IF all THEN Goto(s, "open") ELSE UNCHANGED app
    /\ UNCHANGED <<lst, net, tick, rxp, got, spawned, plan, panic>>

(* receiveFrom() of n bytes: a chunk is taken, and a window update is sent *)
(* when the window had shrunk below half of the buffer.                    *)
ReceiveBegin(s, n) ==
    /\ Exists(s) /\ May(s, "receive") /\ Doing(s, "open") /\ sk[s].state = "ESTABLISHED"
    /\ Total(Peer(s)) > Len(got[s])
    /\ app' = [app EXCEPT ![s] = [pc |-> "receiving", left |-> n, read |-> 0]]
    /\ UNCHANGED <<sk, lst, net, tick, rxp, sent, got, spawned, plan, panic>>

ReceiveStep(s) ==
    /\ Exists(s) /\ Doing(s, "receiving")
    /\ LET k == sk[s]
           n == TcpMin(Len(k.rx), app[s].left)
           k1 == [k EXCEPT !.rx = SubSeq(@, n + 1, Len(@)), !.notify = FALSE]
       IN  IF n = 0
           THEN /\ app[s].read > 0 \/ k.receive_shut \/ app[s].left = 0
                /\ Goto(s, "open")
                /\ UNCHANGED <<sk, net, got>>
           ELSE /\ sk' = [sk EXCEPT ![s] = k1]
                /\ net' = IF k.notify THEN net \union {WindowUpdate(s, k1)} ELSE net
                /\ got' = [got EXCEPT ![s] = @ \o SubSeq(k.rx, 1, n)]
                /\ app' = [app EXCEPT ![s].left = @ - n, ![s].read = @ + n]
    /\ UNCHANGED <<lst, tick, rxp, sent, spawned, plan, panic>>

(* shutdown(): SHUT_RD only sets the flag; SHUT_WR waits until everything  *)
(* is acknowledged, sends FIN and waits for CLOSED.                        *)
Synchronized(k) == k.state \notin {"LISTEN", "SYN_SENT", "SYN_RECEIVED", "CLOSED"}

ShutdownRead(s) ==
    /\ Exists(s) /\ May(s, "shut_read") /\ Doing(s, "open")
    /\ Synchronized(sk[s]) /\ ~sk[s].receive_shut
    /\ sk' = [sk EXCEPT ![s].receive_shut = TRUE]
    /\ UNCHANGED <<lst, net, app, tick, rxp, sent, got, spawned, plan, panic>>

ShutdownWrite(s) ==
    /\ Exists(s) /\ May(s, "shut_write") /\ Doing(s, "open")
    /\ Synchronized(sk[s]) /\ ~sk[s].send_shut
    /\ sk' = [sk EXCEPT ![s].send_shut = TRUE]
    /\ Goto(s, "draining")
    /\ UNCHANGED <<lst, net, tick, rxp, sent, got, spawned, plan, panic>>

Drained(s) ==
    /\ Exists(s) /\ Doing(s, "draining")
    /\ sk' = [sk EXCEPT ![s].state =
                 CASE @ = "ESTABLISHED" -> "FIN_WAIT_1"
                   [] @ = "CLOSE_WAIT"  -> "LAST_ACK"
                   [] OTHER -> @]
    /\ Goto(s, "fin")
    /\ UNCHANGED <<lst, net, tick, rxp, sent, got, spawned, plan, panic>>

ShutdownDrained(s) == Drained(s) /\ sk[s].una = sk[s].nxt /\ sk[s].tx = <<>>

(* fin()                                                                   *)
ShutdownFin(s) ==
    /\ Exists(s) /\ Doing(s, "fin")
    /\ LET k == [sk[s] EXCEPT !.nxt = Add(@, 1), !.comp_ack = FALSE]
           e == Queued(sk[s].nxt, k.rcv, {"FIN", "ACK"}, <<>>, 0, k.nxt)
       IN  /\ sk' = [sk EXCEPT ![s] = [k EXCEPT !.rtq = Append(@, e)]]
           /\ net' = net \union {OnWire(s, k, e)}
    /\ Goto(s, "closing")
    /\ UNCHANGED <<lst, tick, rxp, sent, got, spawned, plan, panic>>

(* close(): in CLOSE_WAIT it calls fin() with m_lock held, and fin() takes *)
(* m_lock: the spinlock is reported hung and the kernel panics.            *)
Close(s) ==
    /\ Exists(s) /\ May(s, "close") /\ Doing(s, "open")
    /\ panic' = (sk[s].state = "CLOSE_WAIT")
    /\ IF sk[s].state \in {"CLOSE_WAIT", "LAST_ACK", "CLOSED"}
       THEN UNCHANGED <<sk, net>> ELSE ResetAndTell(s, sk[s])
    /\ Goto(s, "closing")
    /\ UNCHANGED <<lst, tick, rxp, sent, got, spawned, plan>>

(* The last waits of shutdown() and close().                               *)
Closed(s) ==
    /\ Exists(s) /\ Doing(s, "closing") /\ sk[s].state = "CLOSED"
    /\ Goto(s, "done")
    /\ UNCHANGED <<sk, lst, net, tick, rxp, sent, got, spawned, plan, panic>>

(* ~TCPSocket().  sockets_lock.acquire_write() does not wait for readers   *)
(* (kernel/rwspinlock.cpp), so the loop or the receive path may still be   *)
(* inside the socket: what they do then is up to the freed memory.         *)
Destroy(s) ==
    /\ Exists(s) /\ May(s, "destroy") /\ app[s].pc \in {"open", "done", "refused"}
    /\ ResetAndTell(s, sk[s])
    /\ panic' \in (IF tick[s] # Idle \/ rxp[s] # Idle THEN BOOLEAN ELSE {FALSE})
    /\ Goto(s, "gone")
    /\ tick' = [tick EXCEPT ![s] = Idle]
    /\ rxp' = [rxp EXCEPT ![s] = Idle]
    /\ UNCHANGED <<lst, sent, got, spawned, plan>>

---------------------------------------------------------------------------
(* No queue is longer than one segment per byte, a SYN and a FIN.          *)
MaxQueue == TcpMax(Total("client"), Total("server")) + 2

TickStep(s) ==
    \/ Package(s) \/ PackageEnd(s) \/ AckSent(s)
    \/ \E j \in 1 .. MaxQueue : RetransmitDue(s, j)
    \/ RetransmitStale(s) \/ RetransmitEnd(s)

AppStep(s) ==
    \/ SendBegin(s) \/ SendStep(s)
    \/ \E n \in ReadLens : ReceiveBegin(s, n)
    \/ ReceiveStep(s)
    \/ ShutdownRead(s) \/ ShutdownWrite(s) \/ ShutdownDrained(s) \/ ShutdownFin(s)
    \/ Close(s) \/ Closed(s) \/ Destroy(s)

TcpNext ==
    \/ ConnectBegin \/ ConnectSyn \/ ConnectEnd
    \/ Listen \/ Accept \/ CloseListener
    \/ \E s \in End : AppStep(s) \/ TickStep(s) \/ PacketReceivedSyn(s)
    \/ \E g \in net : PacketReceivedListen(g) \/ \E s \in End : PacketReceived(s, g)

TcpSpec == TcpInit /\ [][TcpNext]_tcpVars

---------------------------------------------------------------------------
(* What receiveFrom() has returned and what is buffered for it is a prefix *)
(* of what the peer's sendTo() took, whatever the network did: no byte is  *)
(* lost, repeated or moved (packetReceived's in-order test, package()).    *)
StreamPrefix ==
    \A s \in End : IsPrefix(got[s] \o sk[s].rx, sent[Peer(s)])

(* An acknowledgement never runs ahead of the data: while both ends are    *)
(* synchronized, what one has seen acknowledged the other has received,    *)
(* and nothing was received that was not sent.                             *)
AckedWasReceived ==
    (\A s \in End : Synchronized(sk[s])) =>
        \A s \in End : /\ IsBeforeOrEqual(sk[s].una, sk[Peer(s)].rcv)
                       /\ IsBeforeOrEqual(sk[Peer(s)].rcv, sk[s].nxt)

(* A FIN is taken only after all the data before it: in CLOSE_WAIT, and    *)
(* later in LAST_ACK, rcv_nxt has passed the SYN, every byte the peer's    *)
(* sendTo() accepted, and the FIN.                                         *)
FinAfterData ==
    \A s \in End :
        sk[s].state \in {"CLOSE_WAIT", "LAST_ACK"} =>
            sk[s].rcv = Add(Iss[Peer(s)], Len(sent[Peer(s)]) + 2)

\* The stream arrives as it was sent: nothing but it is received, nothing is
\* taken for received that was not, and it ends where it ended
\* (tcp.cpp:614-983).
StreamIntact == StreamPrefix /\ AckedWasReceived /\ FinAfterData

(* The loop runs again and again (Thread::sleep(100)), what it has begun   *)
(* goes on, and a queued segment is due again every                        *)
(* TCP_RETRANSMIT_INTERVAL.                                                *)
TcpFairness ==
    \A s \in End :
        /\ WF_tcpVars(Package(s) \/ PackageEnd(s) \/ AckSent(s))
        /\ SF_tcpVars(\E j \in 1 .. MaxQueue : RetransmitDue(s, j))
        /\ WF_tcpVars(RetransmitStale(s)) /\ WF_tcpVars(RetransmitEnd(s))

(* Nothing stays unacknowledged for ever: every queued segment is in the   *)
(* end acknowledged or, after TCP_RETRIES, resets the connection, even     *)
(* when the network delivers nothing.                                      *)
RetransmissionEnds ==
    \A s \in End : []<>(panic \/ ~Exists(s) \/ sk[s].rtq = <<>> \/ sk[s].state = "CLOSED")
=============================================================================
