------------------------------- MODULE MCNet -------------------------------
(* Model-checking instances of Tcp, Udp, ArpRoute and Rtl8139.  A          *)
(* behaviour is one of one component, chosen in the initial state.         *)
EXTENDS Tcp, Udp, ArpRoute, Rtl8139

VARIABLE unit

netVars == <<tcpVars, udpVars, arpVars, rtlVars, unit>>

IssOf == [s \in End |-> IF s = "client" THEN 14 ELSE 6]

PlanOf(c, cs, s, ss) ==
    [total |-> [e \in End |-> IF e = "client" THEN c ELSE s],
     calls |-> [e \in End |-> IF e = "client" THEN cs ELSE ss]]

(* Two segments and an orderly end; an orderly end from both sides; a byte *)
(* each way; every way of giving up; a listener closed early.              *)
PlanSet ==
    {PlanOf(2, {"shut_write"}, 0, {"receive"}),
     PlanOf(1, {"shut_write"}, 0, {"receive", "shut_write"}),
     PlanOf(1, {}, 1, {"receive"}),
     PlanOf(1, {"timeout", "close", "destroy"}, 0, {"receive", "shut_read", "close", "destroy"}),
     PlanOf(0, {"timeout", "shut_write"}, 0, {"close_listener", "shut_write"})}
Dst == [p \in Packet |-> IF p = "p1" THEN "a" ELSE "b"]

NetInit ==
    /\ TcpInit /\ UdpInit /\ ArpRouteInit /\ RtlInit
    /\ unit \in {"tcp", "udp", "arp", "rx", "tx"}
    /\ unit # "tcp" => plan = CHOOSE p \in PlanSet : TRUE

NetNext ==
    /\ UNCHANGED unit
    /\ \/ unit = "tcp" /\ TcpNext /\ UNCHANGED <<udpVars, arpVars, rtlVars>>
       \/ unit = "udp" /\ UdpNext /\ UNCHANGED <<tcpVars, arpVars, rtlVars>>
       \/ unit = "arp" /\ ArpRouteNext /\ UNCHANGED <<tcpVars, udpVars, rtlVars>>
       \/ unit = "rx" /\ RxNext /\ UNCHANGED <<tcpVars, udpVars, arpVars>>
       \/ unit = "tx" /\ TxNext /\ UNCHANGED <<tcpVars, udpVars, arpVars>>

NetSpec == NetInit /\ [][NetNext]_netVars /\ TcpFairness

(* Nothing is claimed of ports once a search has left the bitmap.          *)
InBitmap == ~ranOff
=============================================================================
