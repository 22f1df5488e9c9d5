-------------------------------- MODULE Udp --------------------------------
(***************************************************************************)
(* mod/core/netstack/protocol/inet/udp.cpp, socket/inet/udp.cpp and        *)
(* layer/transport/udp.cpp: UDP sockets, the bitmap their ports come from  *)
(* and the linked list of datagrams each one keeps.  Ports are             *)
(* 0 .. Ports - 1 (65536 in the code); dynamic ones start at DynFirst.     *)
(* protocol/inet/tcp.cpp hands out its ports with the same functions.      *)
(***************************************************************************)
EXTENDS Integers, Sequences, FiniteSets

CONSTANTS
    UdpSock,           \* sockets
    Ports, DynFirst,   \* 65536 and 49152
    BindPorts,         \* bound: the ports bind() is called with
    MaxDatagrams,      \* bound: datagrams that arrive in a behaviour
    BufferSize         \* UDP_SOCKET_BUFFER_SIZE

ASSUME UdpAssumption ==
    /\ Ports \in Nat /\ DynFirst \in 1 .. Ports
    /\ BindPorts \subseteq 0 .. Ports - 1
    /\ MaxDatagrams \in Nat

Cells == 1 .. MaxDatagrams
NoCell == 0

VARIABLES
    bitmap,      \* m_port_bitmap: the ports marked as taken
    last,        \* m_port_dynamic_last
    listed,      \* UDPProtocol::sockets
    port,        \* socket -> source_port
    connected,   \* sockets whose destination_address is the peer's
    upc,         \* socket -> where its owner is: createSocket, bind, the destructor
    wanted,      \* socket -> the port its bind() is for
    first, final,\* socket -> m_first_datagram, m_last_datagram
    next,        \* socket -> datagram -> its next pointer
    arrived,     \* datagrams sent so far
    inbox,       \* history: socket -> datagrams delivered and not yet received
    ranOff       \* history: a search for a dynamic port left the bitmap

portVars == <<bitmap, last, port, ranOff>>
listVars == <<first, final, next, arrived, inbox>>
udpVars == <<portVars, listVars, listed, connected, upc, wanted>>

UdpInit ==
    /\ bitmap = {}
    /\ last = DynFirst - 1
    /\ listed = {}
    /\ port = [s \in UdpSock |-> 0]
    /\ connected = {}
    /\ upc = [s \in UdpSock |-> "none"]
    /\ wanted = [s \in UdpSock |-> 0]
    /\ first = [s \in UdpSock |-> NoCell]
    /\ final = [s \in UdpSock |-> NoCell]
    /\ next = [s \in UdpSock |-> [c \in Cells |-> NoCell]]
    /\ arrived = 0
    /\ inbox = [s \in UdpSock |-> <<>>]
    /\ ranOff = FALSE

UdpGoto(s, pc) == upc' = [upc EXCEPT ![s] = pc]

(* Where allocateDynamicPort() starts, and the ports it then looks at.     *)
StartPort == IF last + 1 = Ports THEN DynFirst ELSE last + 1
FreeFrom(p) == (p .. Ports - 1) \ bitmap
Lowest(S) == CHOOSE p \in S : \A q \in S : p <= q

(* allocateDynamicPort(): the first free port at or after StartPort.  The  *)
(* word index is compared with 8192, four times the length of the bitmap,  *)
(* so a search that finds none goes on in the memory behind it and returns *)
(* whatever bit it meets there, truncated to 16 bits.                      *)
AllocateDynamicPort(s) ==
    \/ /\ FreeFrom(StartPort) # {}
       /\ LET p == Lowest(FreeFrom(StartPort))
          IN  /\ bitmap' = bitmap \union {p}
              /\ last' = p
              /\ port' = [port EXCEPT ![s] = p]
       /\ UNCHANGED ranOff
    \/ /\ FreeFrom(StartPort) = {}
       /\ \E p \in 0 .. Ports - 1 : last' = p /\ port' = [port EXCEPT ![s] = p]
       /\ ranOff' = TRUE
       /\ UNCHANGED bitmap

(* createSocket(): the port, then the list under sockets_lock.             *)
CreateSocket(s) ==
    /\ upc[s] = "none"
    /\ AllocateDynamicPort(s)
    /\ connected' = connected \ {s}
    /\ UdpGoto(s, IF port'[s] = 0 THEN "none" ELSE "unlisted")
    /\ UNCHANGED <<listVars, listed, wanted>>

PushSocket(s) ==
    /\ upc[s] = "unlisted"
    /\ listed' = listed \union {s}
    /\ UdpGoto(s, "open")
    /\ UNCHANGED <<portVars, listVars, connected, wanted>>

UdpConnect(s) ==
    /\ upc[s] = "open"
    /\ connected' = connected \union {s}
    /\ UNCHANGED <<portVars, listVars, listed, upc, wanted>>

(* bind(): allocatePort() of the new port, freePort() of the old one, then *)
(* the assignment.  A port that is taken is refused with EADDRINUSE.       *)
FreePort(s) == bitmap' = IF port[s] = 0 THEN bitmap ELSE bitmap \ {port[s]}

BindAllocate(s, p) ==
    /\ upc[s] = "open" /\ p \notin bitmap
    /\ bitmap' = bitmap \union {p}
    /\ wanted' = [wanted EXCEPT ![s] = p]
    /\ UdpGoto(s, "bind")
    /\ UNCHANGED <<listVars, last, port, ranOff, listed, connected>>

(* Mutant: the port just allocated is given back.                          *)
BindFreesNew(s) ==
    /\ upc[s] = "bind"
    /\ bitmap' = bitmap \ {wanted[s]}
    /\ UdpGoto(s, "bound")
    /\ UNCHANGED <<listVars, last, port, ranOff, listed, connected, wanted>>

BindFree(s) ==
    /\ upc[s] = "bind"
    /\ FreePort(s)
    /\ UdpGoto(s, "bound")
    /\ UNCHANGED <<listVars, last, port, ranOff, listed, connected, wanted>>

BindAssign(s) ==
    /\ upc[s] = "bound"
    /\ port' = [port EXCEPT ![s] = wanted[s]]
    /\ UdpGoto(s, "open")
    /\ UNCHANGED <<listVars, bitmap, last, ranOff, listed, connected, wanted>>

(* ~UDPSocket(): off the list, then the port, then the datagrams; what is  *)
(* freed reads as zero.                                                    *)
DestroyUnlist(s) ==
    /\ upc[s] = "open"
    /\ listed' = listed \ {s}
    /\ UdpGoto(s, "unlisting")
    /\ UNCHANGED <<portVars, listVars, connected, wanted>>

DestroyFree(s) ==
    /\ upc[s] = "unlisting"
    /\ FreePort(s)
    /\ first' = [first EXCEPT ![s] = NoCell]
    /\ final' = [final EXCEPT ![s] = NoCell]
    /\ next' = [next EXCEPT ![s] = [c \in Cells |-> NoCell]]
    /\ inbox' = [inbox EXCEPT ![s] = <<>>]
    /\ port' = [port EXCEPT ![s] = 0]
    /\ wanted' = [wanted EXCEPT ![s] = 0]
    /\ UdpGoto(s, "none")
    /\ UNCHANGED <<last, ranOff, listed, arrived, connected>>

(* UDPSocket::packetReceived() of every socket in S links cell c at the    *)
(* end of its list.  The cell comes from malloc(), which clears it, so its *)
(* next pointer is nullptr.                                                *)
Link(S, c) ==
    /\ next' = [s \in UdpSock |->
                   IF s \in S /\ final[s] # NoCell THEN [next[s] EXCEPT ![final[s]] = c] ELSE next[s]]
    /\ first' = [s \in UdpSock |-> IF s \in S /\ final[s] = NoCell THEN c ELSE first[s]]
    /\ final' = [s \in UdpSock |-> IF s \in S THEN c ELSE final[s]]

(* UDPLayer::parse() drops a datagram whose checksum is wrong, and         *)
(* UDPProtocol::packetReceived() hands the others to every listed socket   *)
(* of that port.  m_buffered_size is never raised, so only a datagram      *)
(* longer than the whole buffer is refused.                                *)
Receivers(p, len, valid) ==
    {s \in listed : valid /\ p # 0 /\ port[s] = p /\ len <= BufferSize}

Deliver(p, len, valid) ==
    LET c == arrived + 1
        S == Receivers(p, len, valid)
    IN  /\ arrived < MaxDatagrams
        /\ arrived' = c
        /\ Link(S, c)
        /\ inbox' = [s \in UdpSock |-> IF s \in S THEN Append(inbox[s], c) ELSE inbox[s]]

(* sendTo(), to the address given or else to the connected one.  The       *)
(* checksum is computed over destination_address either way.               *)
UdpSendTo(s, p, len, given) ==
    /\ upc[s] = "open"
    /\ given \/ s \in connected
    /\ Deliver(p, len, s \in connected)
    /\ UNCHANGED <<portVars, listed, connected, upc, wanted>>

(* receiveFrom() of a socket that has a datagram.                          *)
Unlink(s, lastCell) ==
    /\ upc[s] = "open" /\ first[s] # NoCell
    /\ first' = [first EXCEPT ![s] = next[s][first[s]]]
    /\ final' = [final EXCEPT ![s] = lastCell]
    /\ next' = [next EXCEPT ![s][first[s]] = NoCell]
    /\ inbox' = [inbox EXCEPT ![s] = Tail(@)]
    /\ UNCHANGED <<portVars, listed, arrived, connected, upc, wanted>>

UdpReceiveFrom(s) == Unlink(s, IF first[s] = final[s] THEN NoCell ELSE final[s])

UdpNext ==
    \E s \in UdpSock :
        \/ CreateSocket(s) \/ PushSocket(s) \/ UdpConnect(s)
        \/ (\E p \in BindPorts : BindAllocate(s, p)) \/ BindFree(s) \/ BindAssign(s)
        \/ DestroyUnlist(s) \/ DestroyFree(s)
        \/ \E p \in 0 .. Ports - 1, len \in {BufferSize, BufferSize + 1}, given \in BOOLEAN :
               UdpSendTo(s, p, len, given)
        \/ UdpReceiveFrom(s)

UdpSpec == UdpInit /\ [][UdpNext]_udpVars

---------------------------------------------------------------------------
(* The list from a socket's first datagram, following next.                *)
Follows(s, q) ==
    /\ Len(q) = 0 => first[s] = NoCell /\ final[s] = NoCell
    /\ Len(q) > 0 => /\ first[s] = q[1] /\ final[s] = q[Len(q)]
                     /\ next[s][q[Len(q)]] = NoCell
                     /\ \A i \in 1 .. Len(q) - 1 : next[s][q[i]] = q[i + 1]

(* The linked list of a socket is exactly the queue of the datagrams that  *)
(* were delivered to it and not yet received, in order, through every mix  *)
(* of packetReceived() and receiveFrom().                                  *)
ListIsQueue == \A s \in UdpSock : upc[s] # "none" => Follows(s, inbox[s])

Owns(s) == upc[s] \in {"unlisted", "open", "unlisting"}

(* A port has one owner: two sockets that are not inside bind() never have *)
(* the same port, and the bit of each one's port is set, as long as no     *)
(* search has left the bitmap.                                             *)
PortHasOneOwner ==
    ~ranOff =>
        /\ \A s \in UdpSock : Owns(s) => port[s] \in bitmap
        /\ \A s, t \in UdpSock : s # t /\ Owns(s) /\ Owns(t) => port[s] # port[t]

\* A datagram for a port reaches the one socket that owns it, and is
\* received in its turn.
DatagramsToOwner == PortHasOneOwner /\ ListIsQueue
=============================================================================
