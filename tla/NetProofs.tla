----------------------------- MODULE NetProofs -----------------------------
(* Proofs of the properties of Udp and Rtl8139, for any number of          *)
(* sockets, ports, senders and frames and any size of the ring.            *)
EXTENDS Udp, Rtl8139, WellFoundedInduction, TLAPS

-----------------------------------------------------------------------------
(* Udp: ports and their owners, datagrams and their lists.                  *)
(* A set of naturals that is not empty has a least element.               *)
LEMMA LeastNat ==
  ASSUME NEW S \in SUBSET Nat, S # {}
  PROVE  \E m \in S : \A k \in S : m <= k
<1> DEFINE R == OpToRel(<, Nat)
<1>1. IsWellFoundedOn(R, Nat)
  BY NatLessThanWellFounded, Zenon
<1>2. PICK m \in S : \A k \in S : ~(<<k, m>> \in R)
  <2> HIDE DEF R
  <2> QED BY <1>1, WFMin, Zenon
<1>3. \A k \in S : ~(k < m)
  BY <1>2, Zenon DEF OpToRel
<1> QED BY <1>3

-----------------------------------------------------------------------------
(* A count above zero is one or more than one.                            *)
LEMMA OneOrMore == \A n \in Nat : n > 0 => n = 1 \/ n > 1
OBVIOUS

(* Ports.                                                                  *)

UdpPc == {"none", "unlisted", "open", "bind", "bound", "unlisting"}
PortRange == 0 .. Ports - 1

PortType ==
    /\ bitmap \in SUBSET PortRange
    /\ last \in PortRange
    /\ port \in [UdpSock -> PortRange]
    /\ wanted \in [UdpSock -> PortRange]
    /\ upc \in [UdpSock -> UdpPc]
    /\ ranOff \in BOOLEAN

(* The ports a socket has a claim on: its own until bind() or the          *)
(* destructor gives it back, and the one bind() has allocated for it.      *)
HasOld(s) == upc[s] \in {"unlisted", "open", "bind", "unlisting"}
HasNew(s) == upc[s] \in {"bind", "bound"}

Claims(s, p) == (HasOld(s) /\ port[s] = p) \/ (HasNew(s) /\ wanted[s] = p)

PortInv ==
    ~ranOff =>
        /\ \A s \in UdpSock : \A p \in PortRange : Claims(s, p) => p \in bitmap
        /\ \A s, t \in UdpSock : \A p \in PortRange : Claims(s, p) /\ Claims(t, p) => s = t
        /\ \A s \in UdpSock : upc[s] = "bind" => port[s] # wanted[s]

(* The port the search for a free one returns is one of those it          *)
(* searched.                                                              *)
LEMMA LowestIsFree ==
  ASSUME NEW S \in SUBSET Nat, S # {}
  PROVE  Lowest(S) \in S
BY LeastNat, Zenon DEF Lowest

(* The bitmap of the ports and what each socket claims keep their types.  *)
LEMMA PortTypeStep == PortType /\ [UdpNext]_udpVars => PortType'
<1> SUFFICES ASSUME PortType, [UdpNext]_udpVars PROVE PortType'
  OBVIOUS
<1>1. CASE UNCHANGED udpVars
  BY <1>1 DEF PortType, udpVars, portVars
<1>2. ASSUME NEW s \in UdpSock, CreateSocket(s) PROVE PortType'
  <2>1. last' \in PortRange /\ port' \in [UdpSock -> PortRange] /\ bitmap' \in SUBSET PortRange
        /\ ranOff' \in BOOLEAN
    <3>1. CASE FreeFrom(StartPort) # {}
      <4> DEFINE p == Lowest(FreeFrom(StartPort))
      <4>1. StartPort \in Nat
        BY UdpAssumption DEF StartPort, PortType, PortRange
      <4>2. p \in StartPort .. Ports - 1
        BY <3>1, <4>1, LowestIsFree, UdpAssumption DEF FreeFrom
      <4> HIDE DEF p
      <4>3. bitmap' = bitmap \union {p} /\ last' = p /\ port' = [port EXCEPT ![s] = p] /\ ranOff' = ranOff
        BY <1>2, <3>1 DEF CreateSocket, AllocateDynamicPort, p
      <4> QED BY <4>1, <4>2, <4>3, UdpAssumption DEF PortType, PortRange
    <3>2. CASE FreeFrom(StartPort) = {}
      BY <1>2, <3>2, UdpAssumption, Zenon DEF CreateSocket, AllocateDynamicPort, PortType, PortRange
    <3> QED BY <3>1, <3>2
  <2> QED BY <1>2, <2>1, Zenon DEF CreateSocket, PortType, UdpGoto, UdpPc, PortRange
<1>3. ASSUME NEW s \in UdpSock, PushSocket(s) \/ UdpConnect(s) \/ DestroyUnlist(s) PROVE PortType'
  BY <1>3 DEF PushSocket, UdpConnect, DestroyUnlist, PortType, portVars, UdpGoto, UdpPc
<1>4. ASSUME NEW s \in UdpSock, NEW p \in BindPorts, BindAllocate(s, p) PROVE PortType'
  BY <1>4, UdpAssumption DEF BindAllocate, PortType, portVars, UdpGoto, UdpPc, PortRange
<1>5. ASSUME NEW s \in UdpSock, BindFree(s) \/ BindAssign(s) PROVE PortType'
  BY <1>5 DEF BindFree, BindAssign, FreePort, PortType, UdpGoto, UdpPc
<1>6. ASSUME NEW s \in UdpSock, DestroyFree(s) PROVE PortType'
  <2>1. 0 \in PortRange
    BY UdpAssumption DEF PortRange
  <2> QED BY <1>6, <2>1 DEF DestroyFree, FreePort, PortType, UdpGoto, UdpPc
<1>7. ASSUME NEW s \in UdpSock, UdpReceiveFrom(s) PROVE PortType'
  BY <1>7 DEF UdpReceiveFrom, Unlink, PortType, portVars
<1>8. ASSUME NEW s \in UdpSock, NEW p, NEW len, NEW fresh, UdpSendTo(s, p, len, fresh) PROVE PortType'
  BY <1>8 DEF UdpSendTo, PortType, portVars
<1> QED BY <1>1, <1>2, <1>3, <1>4, <1>5, <1>6, <1>7, <1>8 DEF UdpNext

(* A port that a socket claims, even while it only asks for it, is marked *)
(* in the bitmap and claimed by no other.                                 *)
LEMMA PortInvStep == PortType /\ PortInv /\ [UdpNext]_udpVars => PortInv'
<1> SUFFICES ASSUME PortType, PortInv, [UdpNext]_udpVars, ~ranOff' PROVE PortInv'
  BY DEF PortInv
<1> USE DEF PortInv, Claims, HasOld, HasNew
<1>1. CASE UNCHANGED udpVars
  BY <1>1 DEF udpVars, portVars
<1>2. ASSUME NEW s \in UdpSock, CreateSocket(s) PROVE PortInv'
  <2> DEFINE p == Lowest(FreeFrom(StartPort))
  <2>1. FreeFrom(StartPort) # {} /\ ~ranOff
    BY <1>2 DEF CreateSocket, AllocateDynamicPort
  <2>2. p \in PortRange /\ p \notin bitmap
    <3>1. StartPort \in Nat
      BY UdpAssumption DEF StartPort, PortType, PortRange
    <3>2. FreeFrom(StartPort) \in SUBSET Nat
      BY <3>1, UdpAssumption DEF FreeFrom
    <3>3. p \in FreeFrom(StartPort)
      BY <2>1, <3>2, LowestIsFree
    <3> QED BY <3>1, <3>3, UdpAssumption DEF FreeFrom, PortRange
  <2> HIDE DEF p
  <2>3. bitmap' = bitmap \union {p} /\ port' = [port EXCEPT ![s] = p]
        /\ upc' = [upc EXCEPT ![s] = IF port'[s] = 0 THEN "none" ELSE "unlisted"] /\ wanted' = wanted /\ upc[s] = "none"
    BY <1>2, <2>1 DEF CreateSocket, AllocateDynamicPort, p, UdpGoto
  <2> QED BY <2>1, <2>2, <2>3 DEF PortType
<1>3. ASSUME NEW s \in UdpSock, PushSocket(s) \/ UdpConnect(s) \/ DestroyUnlist(s) PROVE PortInv'
  BY <1>3 DEF PushSocket, UdpConnect, DestroyUnlist, PortType, portVars, UdpGoto, UdpPc
<1>4. ASSUME NEW s \in UdpSock, NEW p \in BindPorts, BindAllocate(s, p) PROVE PortInv'
  BY <1>4, UdpAssumption DEF BindAllocate, PortType, portVars, UdpGoto, UdpPc, PortRange
<1>5. ASSUME NEW s \in UdpSock, BindFree(s) PROVE PortInv'
  BY <1>5 DEF BindFree, FreePort, PortType, UdpGoto, UdpPc
<1>55. ASSUME NEW s \in UdpSock, BindAssign(s) PROVE PortInv'
  BY <1>55 DEF BindAssign, PortType, UdpGoto, UdpPc
<1>6. ASSUME NEW s \in UdpSock, DestroyFree(s) PROVE PortInv'
  BY <1>6, UdpAssumption DEF DestroyFree, FreePort, PortType, UdpGoto, UdpPc
<1>7. ASSUME NEW s \in UdpSock, UdpReceiveFrom(s) PROVE PortInv'
  BY <1>7 DEF UdpReceiveFrom, Unlink, PortType, portVars
<1>8. ASSUME NEW s \in UdpSock, NEW p, NEW len, NEW fresh, UdpSendTo(s, p, len, fresh) PROVE PortInv'
  BY <1>8 DEF UdpSendTo, PortType, portVars
<1> QED BY <1>1, <1>2, <1>3, <1>4, <1>5, <1>55, <1>6, <1>7, <1>8 DEF UdpNext

-----------------------------------------------------------------------------
(* The lists of datagrams.                                                 *)

Cell == 0 .. MaxDatagrams

ListType ==
    /\ arrived \in Cell
    /\ first \in [UdpSock -> Cell]
    /\ final \in [UdpSock -> Cell]
    /\ next \in [UdpSock -> [Cells -> Cell]]
    /\ inbox \in [UdpSock -> Seq(Cells)]

(* Cells enter a list in the order of their numbers, and one that has not  *)
(* been handed out yet points nowhere.                                     *)
ListInv ==
    \A s \in UdpSock :
        /\ Follows(s, inbox[s])
        /\ \A i \in 1 .. Len(inbox[s]) : inbox[s][i] \in 1 .. arrived
        /\ \A i, j \in 1 .. Len(inbox[s]) : i < j => inbox[s][i] < inbox[s][j]
        /\ \A c \in Cells : c > arrived => next[s][c] = NoCell

(* The lists of datagrams keep their types.                               *)
LEMMA ListTypeStep == ListType /\ ListInv /\ [UdpNext]_udpVars => ListType'
<1> SUFFICES ASSUME ListType, ListInv, [UdpNext]_udpVars PROVE ListType'
  OBVIOUS
<1>1. CASE UNCHANGED listVars
  BY <1>1 DEF listVars, ListType
<1>2. ASSUME NEW s \in UdpSock, DestroyFree(s) PROVE ListType'
  BY <1>2, UdpAssumption DEF DestroyFree, ListType, Cell, Cells, NoCell
<1>3. ASSUME NEW s \in UdpSock, NEW p, NEW len, NEW fresh, UdpSendTo(s, p, len, fresh) PROVE ListType'
  <2> DEFINE c == arrived + 1
             S == Receivers(p, len, s \in connected)
  <2>1. c \in Cells /\ c \in Cell /\ arrived' = c
    BY <1>3, UdpAssumption DEF UdpSendTo, Deliver, Cells, Cell, ListType
  <2>2. /\ Link(S, c)
        /\ inbox' = [u \in UdpSock |-> IF u \in S THEN Append(inbox[u], c) ELSE inbox[u]]
    BY <1>3 DEF UdpSendTo, Deliver
  <2> HIDE DEF c, S
  <2>3. first' \in [UdpSock -> Cell] /\ final' \in [UdpSock -> Cell]
    BY <2>1, <2>2 DEF Link, ListType
  <2>4. next' \in [UdpSock -> [Cells -> Cell]]
    BY <2>1, <2>2, Zenon DEF Link, ListType
  <2>5. inbox' \in [UdpSock -> Seq(Cells)]
    BY <2>1, <2>2 DEF ListType
  <2> QED BY <2>1, <2>3, <2>4, <2>5 DEF ListType
<1>4. ASSUME NEW s \in UdpSock, UdpReceiveFrom(s) PROVE ListType'
  <2>1. first[s] \in Cells /\ inbox[s] # <<>>
    BY <1>4, UdpAssumption DEF UdpReceiveFrom, Unlink, ListType, ListInv, Follows, Cell, Cells, NoCell
  <2>2. NoCell \in Cell
    BY UdpAssumption DEF NoCell, Cell
  <2>3. first' \in [UdpSock -> Cell] /\ final' \in [UdpSock -> Cell] /\ arrived' = arrived
    BY <1>4, <2>1, <2>2 DEF UdpReceiveFrom, Unlink, ListType
  <2>4. next' \in [UdpSock -> [Cells -> Cell]]
    BY <1>4, <2>1, <2>2 DEF UdpReceiveFrom, Unlink, ListType
  <2>5. inbox' \in [UdpSock -> Seq(Cells)]
    BY <1>4, <2>1, <2>2 DEF UdpReceiveFrom, Unlink, ListType
  <2> QED BY <2>3, <2>4, <2>5 DEF ListType
<1> QED
  BY <1>1, <1>2, <1>3, <1>4 DEF UdpNext, udpVars, CreateSocket, PushSocket, UdpConnect,
     BindAllocate, BindFree, BindAssign, DestroyUnlist

(* The first n entries of q ascend and are none above a.                  *)
Ascending(n, a, q) ==
  /\ \A i \in 1 .. n : q[i] \in 1 .. a
  /\ \A i, j \in 1 .. n : i < j => q[i] < q[j]

(* An ascending list stays so with a new largest number at its end.       *)
LEMMA AscendingAppend ==
  ASSUME NEW n \in Nat, NEW a \in Nat, NEW q, NEW r, Ascending(n, a, q),
         \A i \in 1 .. n : r[i] = q[i], r[n + 1] = a + 1
  PROVE  Ascending(n + 1, a + 1, r)
<1>1. \A i \in 1 .. n + 1 : i \in 1 .. n \/ i = n + 1
  OBVIOUS
<1>2. \A i \in 1 .. n + 1 : r[i] \in 1 .. a + 1
  BY <1>1 DEF Ascending
<1>3. ASSUME NEW i \in 1 .. n + 1, NEW j \in 1 .. n + 1, i < j
      PROVE  r[i] < r[j]
  <2>1. i \in 1 .. n
    BY <1>3
  <2>2. CASE j \in 1 .. n
    BY <1>3, <2>1, <2>2 DEF Ascending
  <2>3. CASE j = n + 1
    BY <2>1, <2>3, SMTT(30) DEF Ascending
  <2> QED BY <1>1, <2>2, <2>3
<1> QED BY <1>2, <1>3 DEF Ascending

(* Following the list of a socket from its head meets its datagrams in    *)
(* the order of their arrival, and ends.                                  *)
LEMMA ListInvStep == ListType /\ ListInv /\ [UdpNext]_udpVars => ListInv'
<1> SUFFICES ASSUME ListType, ListInv, [UdpNext]_udpVars, NEW u \in UdpSock
             PROVE  /\ Follows(u, inbox[u])'
                    /\ \A i \in 1 .. Len(inbox'[u]) : inbox'[u][i] \in 1 .. arrived'
                    /\ \A i, j \in 1 .. Len(inbox'[u]) : i < j => inbox'[u][i] < inbox'[u][j]
                    /\ \A c \in Cells : c > arrived' => next'[u][c] = NoCell
  BY DEF ListInv
<1> DEFINE q == inbox[u]
<1>u. /\ Follows(u, q)
      /\ \A i \in 1 .. Len(q) : q[i] \in 1 .. arrived
      /\ \A i, j \in 1 .. Len(q) : i < j => q[i] < q[j]
      /\ \A c \in Cells : c > arrived => next[u][c] = NoCell
  BY DEF ListInv
<1>t. q \in Seq(Cells) /\ arrived \in Nat /\ first[u] \in Cell /\ final[u] \in Cell
      /\ next[u] \in [Cells -> Cell]
  BY UdpAssumption DEF ListType, Cell
<1> HIDE DEF q
<1>same. ASSUME first'[u] = first[u], final'[u] = final[u], next'[u] = next[u], inbox'[u] = q,
                arrived' \in Nat, arrived' >= arrived
         PROVE  /\ Follows(u, inbox[u])'
                /\ \A i \in 1 .. Len(inbox'[u]) : inbox'[u][i] \in 1 .. arrived'
                /\ \A i, j \in 1 .. Len(inbox'[u]) : i < j => inbox'[u][i] < inbox'[u][j]
                /\ \A c \in Cells : c > arrived' => next'[u][c] = NoCell
  BY <1>u, <1>t, <1>same DEF Follows, Cells
<1>1. CASE UNCHANGED listVars
  BY <1>1, <1>same, <1>t DEF listVars, q
<1>2. ASSUME NEW s \in UdpSock, DestroyFree(s)
      PROVE  /\ Follows(u, inbox[u])'
             /\ \A i \in 1 .. Len(inbox'[u]) : inbox'[u][i] \in 1 .. arrived'
             /\ \A i, j \in 1 .. Len(inbox'[u]) : i < j => inbox'[u][i] < inbox'[u][j]
             /\ \A c \in Cells : c > arrived' => next'[u][c] = NoCell
  <2>1. CASE u = s
    BY <1>2, <2>1 DEF DestroyFree, Follows, ListType
  <2>2. CASE u # s
    BY <1>2, <2>2, <1>same, <1>t DEF DestroyFree, ListType, q
  <2> QED BY <2>1, <2>2
<1>3. ASSUME NEW s \in UdpSock, NEW p, NEW len, NEW fresh, UdpSendTo(s, p, len, fresh)
      PROVE  /\ Follows(u, inbox[u])'
             /\ \A i \in 1 .. Len(inbox'[u]) : inbox'[u][i] \in 1 .. arrived'
             /\ \A i, j \in 1 .. Len(inbox'[u]) : i < j => inbox'[u][i] < inbox'[u][j]
             /\ \A c \in Cells : c > arrived' => next'[u][c] = NoCell
  <2> DEFINE c == arrived + 1
             S == Receivers(p, len, s \in connected)
  <2>1. c \in Cells /\ arrived' = c
    BY <1>3, UdpAssumption DEF UdpSendTo, Deliver, Cells, Cell, ListType
  <2>2. /\ Link(S, c)
        /\ inbox' = [v \in UdpSock |-> IF v \in S THEN Append(inbox[v], c) ELSE inbox[v]]
    BY <1>3 DEF UdpSendTo, Deliver
  <2> HIDE DEF S
  <2>3. CASE u \notin S
    BY <2>1, <2>2, <2>3, <1>same, <1>t DEF Link, q
  <2>4. CASE u \in S
    <3>1. inbox'[u] = Append(q, c) /\ final'[u] = c
      BY <2>2, <2>4 DEF Link, q
    <3>2. CASE q = <<>>
      <4>1. first'[u] = c /\ next'[u] = next[u]
        BY <2>2, <2>4, <3>2, <1>u DEF Link, Follows
      <4> QED BY <3>1, <3>2, <4>1, <1>u, <1>t, <2>1 DEF Follows, Cells
    <3>3. CASE q # <<>>
      <4>1. Len(q) \in Nat \ {0} /\ final[u] = q[Len(q)] /\ final[u] # NoCell /\ final[u] \in 1 .. arrived
        BY <3>3, <1>u, <1>t DEF Follows, NoCell
      <4>2. first'[u] = first[u] /\ next'[u] = [next[u] EXCEPT ![final[u]] = c]
        BY <2>2, <2>4, <4>1, Zenon DEF Link
      <4>3. \A d \in Cells : next'[u][d] = IF d = final[u] THEN c ELSE next[u][d]
        BY <4>2, <1>t
      <4>4. \A d \in Cells : d > arrived' => next'[u][d] = NoCell
        BY <4>1, <4>3, <1>u, <1>t, <2>1 DEF Cells
      <4>5. Len(inbox'[u]) = Len(q) + 1 /\ inbox'[u][Len(q) + 1] = c
            /\ \A i \in 1 .. Len(q) : inbox'[u][i] = q[i] /\ q[i] \in Cells
        BY <3>1, <1>t, <4>1
      <4>6. next'[u][c] = NoCell
        BY <4>1, <4>3, <1>u, <1>t, <2>1
      <4>7. \A i \in 1 .. Len(q) - 1 : q[i] # final[u]
        BY <4>1, <1>u, <1>t
      <4>8. \A i \in 1 .. Len(q) : next'[u][inbox'[u][i]] = inbox'[u][i + 1]
        <5> TAKE i \in 1 .. Len(q)
        <5>1. CASE i = Len(q)
          BY <5>1, <4>1, <4>3, <4>5
        <5>2. CASE i # Len(q)
          <6>1. i \in 1 .. Len(q) - 1 /\ i + 1 \in 1 .. Len(q)
            BY <5>2, <4>1
          <6>2. next[u][q[i]] = q[i + 1]
            BY <6>1, <4>1, <1>u DEF Follows
          <6>3. q[i] \in Cells /\ inbox'[u][i] = q[i] /\ inbox'[u][i + 1] = q[i + 1] /\ q[i] # final[u]
            BY <6>1, <4>5, <4>7
          <6> QED BY <6>2, <6>3, <4>3
        <5> QED BY <5>1, <5>2
      <4>9. Follows(u, inbox[u])'
        <5>1. first'[u] = inbox'[u][1]
          BY <4>1, <4>2, <4>5, <1>u DEF Follows
        <5>2. Len(inbox'[u]) - 1 = Len(q) /\ Len(inbox'[u]) > 0
          BY <4>1, <4>5
        <5> QED BY <5>1, <5>2, <4>5, <4>6, <4>8, <3>1 DEF Follows
      <4>10. Ascending(Len(q) + 1, arrived + 1, inbox'[u])
        <5>1. Len(q) \in Nat /\ Ascending(Len(q), arrived, q)
          BY <4>1, <1>u DEF Ascending
        <5> QED BY <5>1, <4>5, <1>t, AscendingAppend, Zenon
      <4>11. /\ \A i \in 1 .. Len(inbox'[u]) : inbox'[u][i] \in 1 .. arrived'
             /\ \A i, j \in 1 .. Len(inbox'[u]) : i < j => inbox'[u][i] < inbox'[u][j]
        BY <2>1, <4>5, <4>10, Zenon DEF Ascending
      <4> QED BY <4>9, <4>4, <4>11, Zenon
    <3> QED BY <3>2, <3>3
  <2> QED BY <2>3, <2>4
<1>4. ASSUME NEW s \in UdpSock, UdpReceiveFrom(s)
      PROVE  /\ Follows(u, inbox[u])'
             /\ \A i \in 1 .. Len(inbox'[u]) : inbox'[u][i] \in 1 .. arrived'
             /\ \A i, j \in 1 .. Len(inbox'[u]) : i < j => inbox'[u][i] < inbox'[u][j]
             /\ \A c \in Cells : c > arrived' => next'[u][c] = NoCell
  <2>1. CASE u # s
    BY <1>4, <2>1, <1>same, <1>t DEF UdpReceiveFrom, Unlink, ListType, q
  <2>2. CASE u = s
    <3>1. q # <<>> /\ Len(q) \in Nat /\ Len(q) > 0 /\ first[u] = q[1] /\ q[1] \in Cells
      BY <1>4, <2>2, <1>u, <1>t DEF UdpReceiveFrom, Unlink, Follows
    <3>2. /\ inbox'[u] = Tail(q) /\ arrived' = arrived
          /\ first'[u] = next[u][q[1]]
          /\ final'[u] = IF q[1] = final[u] THEN NoCell ELSE final[u]
          /\ next'[u] = [next[u] EXCEPT ![q[1]] = NoCell]
      BY <1>4, <2>2, <3>1 DEF UdpReceiveFrom, Unlink, ListType, q
    <3>3. Len(Tail(q)) = Len(q) - 1 /\ \A i \in 1 .. Len(q) - 1 : Tail(q)[i] = q[i + 1] /\ q[i + 1] \in Cells
      BY <3>1, <1>t
    <3>4. \A d \in Cells : next'[u][d] = IF d = q[1] THEN NoCell ELSE next[u][d]
      BY <3>1, <3>2, <1>t
    <3>5. \A i \in 2 .. Len(q) : q[i] # q[1]
      BY <3>1, <1>u, <1>t
    <3>6. Follows(u, inbox[u])'
      <4>1. CASE Len(q) = 1
        <5>1. Len(inbox'[u]) = 0 /\ q[1] = final[u] /\ next[u][q[1]] = NoCell
          BY <3>1, <3>2, <3>3, <4>1, <1>u DEF Follows
        <5> QED BY <5>1, <3>2 DEF Follows
      <4>2. CASE Len(q) # 1
        <5>0. Len(q) > 1
          BY <3>1, <4>2, OneOrMore, Zenon
        <5>1. final'[u] = q[Len(q)] /\ first'[u] = q[2]
          BY <3>1, <3>2, <3>5, <5>0, <1>u DEF Follows
        <5>2. next'[u][q[Len(q)]] = NoCell
          BY <3>1, <3>4, <3>5, <5>0, <1>u, <1>t DEF Follows
        <5>3. \A i \in 1 .. Len(q) - 2 : next'[u][Tail(q)[i]] = Tail(q)[i + 1]
          BY <3>1, <3>3, <3>4, <3>5, <5>0, <1>u, <1>t DEF Follows
        <5>4. Len(inbox'[u]) = Len(q) - 1 /\ Len(inbox'[u]) > 0 /\ Len(inbox'[u]) - 1 = Len(q) - 2
          BY <3>1, <3>2, <3>3, <5>0
        <5>5. inbox'[u][1] = q[2] /\ inbox'[u][Len(inbox'[u])] = q[Len(q)]
          BY <3>1, <3>2, <3>3, <5>0
        <5> QED BY <5>1, <5>2, <5>3, <5>4, <5>5, <3>2 DEF Follows
      <4> QED BY <4>1, <4>2, Zenon
    <3>7. \A c \in Cells : c > arrived' => next'[u][c] = NoCell
      BY <3>2, <3>4, <1>u
    <3> QED BY <3>1, <3>2, <3>3, <3>6, <3>7, <1>u, <1>t
  <2> QED BY <2>1, <2>2
<1> QED
  BY <1>1, <1>2, <1>3, <1>4 DEF UdpNext, udpVars, CreateSocket, PushSocket, UdpConnect,
     BindAllocate, BindFree, BindAssign, DestroyUnlist

-----------------------------------------------------------------------------
UdpInv == PortType /\ PortInv /\ ListType /\ ListInv

(* At first no port is taken and no datagram waits.                       *)
LEMMA UdpInitInv == UdpInit => UdpInv
<1> SUFFICES ASSUME UdpInit PROVE UdpInv
  OBVIOUS
<1>1. 0 \in PortRange /\ DynFirst - 1 \in PortRange /\ NoCell \in Cell /\ 0 \in Cell
  BY UdpAssumption DEF PortRange, Cell, NoCell
<1>2. PortType
  BY <1>1, Zenon DEF UdpInit, PortType, UdpPc
<1>3. PortInv
  BY DEF UdpInit, PortInv, Claims, HasOld, HasNew
<1>4. ListType
  BY <1>1 DEF UdpInit, ListType
<1>5. ListInv
  BY DEF UdpInit, ListInv, Follows
<1> QED BY <1>2, <1>3, <1>4, <1>5 DEF UdpInv

(* Claims kept apart and lists that follow the arrivals are what the      *)
(* property says.                                                         *)
LEMMA UdpInvImplies == UdpInv => DatagramsToOwner
<1> SUFFICES ASSUME UdpInv PROVE DatagramsToOwner
  OBVIOUS
<1>1. PortHasOneOwner
  BY DEF UdpInv, PortType, PortInv, PortHasOneOwner, Owns, Claims, HasOld
<1>2. ListIsQueue
  BY DEF UdpInv, ListInv, ListIsQueue
<1> QED BY <1>1, <1>2 DEF DatagramsToOwner

(* A port that a socket holds is marked and is no other socket's, and the *)
(* linked list of a socket is the queue of its datagrams, for every       *)
(* number of sockets, ports and datagrams (netstack:                      *)
(* protocol/inet/udp.cpp, socket/inet/udp.cpp).                           *)
THEOREM UdpCorrect == UdpSpec => []DatagramsToOwner
<1>1. UdpInv /\ [UdpNext]_udpVars => UdpInv'
  BY PortTypeStep, PortInvStep, ListTypeStep, ListInvStep DEF UdpInv
<1> QED BY <1>1, UdpInitInv, UdpInvImplies, PTL DEF UdpSpec

-----------------------------------------------------------------------------
(* Rtl8139: the receive ring and the transmit buffers.                      *)
(* Division with remainder.                                               *)
LEMMA DivMod ==
  ASSUME NEW x \in Int, NEW R \in Nat, R > 0
  PROVE  x = (R * (x \div R)) + (x % R) /\ x % R \in 0 .. R - 1 /\ x \div R \in Int
OBVIOUS

(* A remainder is unique.                                                 *)
LEMMA ModUnique ==
  ASSUME NEW R \in Nat, R > 0, NEW q \in Int, NEW w \in 0 .. R - 1
  PROVE  (R * q + w) % R = w
OBVIOUS

(* An offset modulo the size of the ring moves like the offset itself.    *)
LEMMA ModShift ==
  ASSUME NEW R \in Nat, R > 0, NEW x \in Int, NEW a \in Int
  PROVE  ((x % R) + a) % R = (x + a) % R
<1> DEFINE q == x \div R   w == x % R   q2 == (w + a) \div R   w2 == (w + a) % R
<1>1. x = (R * q) + w /\ q \in Int /\ w \in Int
  BY DivMod
<1>2. w + a = (R * q2) + w2 /\ q2 \in Int /\ w2 \in 0 .. R - 1
  BY <1>1, DivMod
<1> HIDE DEF q, w, q2, w2
<1>3. x + a = (R * (q + q2)) + w2
  BY <1>1, <1>2
<1>4. \A k \in Int : ((R * k) + w2) % R = w2
  BY <1>2, ModUnique
<1>5. q + q2 \in Int
  BY <1>1, <1>2
<1>6. (x + a) % R = w2
  BY <1>3, <1>4, <1>5, Zenon
<1> QED BY <1>6 DEF w2, w

(* Two positions less than a ring apart keep their distance modulo the    *)
(* ring.                                                                  *)
LEMMA ModDifference ==
  ASSUME NEW R \in Nat, R > 0, NEW x \in Int, NEW y \in Int, 0 <= x - y, x - y < R
  PROVE  ((x % R) - (y % R)) % R = x - y
<1> DEFINE q == x \div R   w == x % R   q2 == y \div R   w2 == y % R
<1>1. x = (R * q) + w /\ q \in Int /\ w \in Int
  BY DivMod
<1>2. y = (R * q2) + w2 /\ q2 \in Int /\ w2 \in Int
  BY DivMod
<1> HIDE DEF q, w, q2, w2
<1>3. w - w2 = (R * (q2 - q)) + (x - y)
  BY <1>1, <1>2
<1>4. x - y \in 0 .. R - 1 /\ q2 - q \in Int
  BY <1>1, <1>2
<1>5. \A k \in Int : ((R * k) + (x - y)) % R = x - y
  BY <1>4, ModUnique
<1>6. (w - w2) % R = x - y
  BY <1>3, <1>4, <1>5, Zenon
<1> QED BY <1>6 DEF w, w2

(* Zero is its own remainder.                                             *)
LEMMA ModZero ==
  ASSUME NEW R \in Nat, R > 0
  PROVE  0 % R = 0
<1>1. 0 \in Int /\ 0 \in 0 .. R - 1 /\ (R * 0) + 0 = 0
  OBVIOUS
<1>2. ((R * 0) + 0) % R = 0
  BY <1>1, ModUnique
<1> QED BY <1>1, <1>2, Zenon

(* Two positions less than a ring apart differ modulo the ring.           *)
LEMMA ModDistinct ==
  ASSUME NEW R \in Nat, R > 0, NEW x \in Int, NEW y \in Int, 0 < x - y, x - y < R
  PROVE  x % R # y % R
<1>a. 0 <= x - y
  OBVIOUS
<1>1. ((x % R) - (y % R)) % R = x - y
  BY <1>a, ModDifference, Zenon
<1>2. x % R \in Int /\ y % R \in Int
  BY DivMod
<1>3. 0 % R = 0
  BY ModZero
<1>4. SUFFICES ASSUME x % R = y % R PROVE FALSE
  OBVIOUS
<1>5. (x % R) - (y % R) = 0
  BY <1>2, <1>4
<1>6. x - y = 0
  BY <1>1, <1>3, <1>5, Zenon
<1> QED BY <1>6

(* From an aligned position the next one is as far as the aligned length  *)
(* of the frame, and aligned.                                             *)
LEMMA AlignedShift ==
  ASSUME NEW x \in Nat, NEW len \in Nat, x % 4 = 0
  PROVE  /\ ((x + len + 4 + 3) \div 4) * 4 = x + Aligned(len + 4)
         /\ Aligned(len + 4) \in Nat /\ Aligned(len + 4) > 0
         /\ (x + Aligned(len + 4)) % 4 = 0
BY DEF Aligned

-----------------------------------------------------------------------------
Buffer == 0 .. TxBuffers - 1

TxType ==
    /\ own \in [Buffer -> BOOLEAN]
    /\ content \in [Buffer -> handed \union {Blank}]
    /\ current \in Buffer
    /\ ioport \in [TxSender -> Buffer]
    /\ spc \in [TxSender -> {"idle", "poll", "outside"} \X Nat]
    /\ sending \in Seq(Buffer)
    /\ wire \in Seq(handed)
    /\ Blank \notin handed

TxInv ==
    /\ \A s \in TxSender : spc[s][1] # "idle" =>
         /\ spc[s][2] # 0
         /\ ioport[s] = current \/ content[ioport[s]] # Blank
    /\ \A i \in DOMAIN sending : content[sending[i]] # Blank

(* A step of one sender changes its place and keeps the frame it sends.   *)
LEMMA PcStep ==
  ASSUME spc \in [TxSender -> {"idle", "poll", "outside"} \X Nat],
         NEW s \in TxSender, NEW pc \in {"idle", "poll", "outside"},
         spc' = [spc EXCEPT ![s][1] = pc]
  PROVE  /\ spc' \in [TxSender -> {"idle", "poll", "outside"} \X Nat]
         /\ \A t \in TxSender : spc'[t][2] = spc[t][2] /\ (t # s => spc'[t] = spc[t])
<1>1. PICK c \in {"idle", "poll", "outside"}, k \in Nat : spc[s] = <<c, k>>
  OBVIOUS
<1>2. spc'[s] = <<pc, k>> /\ \A t \in TxSender : t # s => spc'[t] = spc[t]
  BY <1>1
<1> QED BY <1>1, <1>2

(* The steps of the senders and of the card keep it that a buffer which   *)
(* the card sends, or which a sender in send() waits for, has been        *)
(* filled, but for the current one.                                       *)
LEMMA TxStep ==
  ASSUME TxType, TxInv, TxNext
  PROVE  TxType' /\ TxInv'
<1> USE RtlAssumption
<1>1. ASSUME NEW s \in TxSender, SendEnter(s)
      PROVE  TxType' /\ TxInv'
  <2>1. TxType'
    BY <1>1 DEF TxType, SendEnter, EnterWith
  <2>2. TxInv'
    BY <1>1 DEF TxType, TxInv, SendEnter, EnterWith
  <2> QED BY <2>1, <2>2
<1>2. ASSUME NEW s \in TxSender, SendRelease(s) \/ SendAcquire(s)
      PROVE  TxType' /\ TxInv'
  <2>1. \/ spc' = [spc EXCEPT ![s][1] = "outside"]
        \/ spc' = [spc EXCEPT ![s][1] = "poll"]
    BY <1>2 DEF SendRelease, SendAcquire, SGoto
  <2>2. spc[s][1] # "idle" /\ UNCHANGED <<own, content, current, ioport, sending, handed, wire>>
    BY <1>2 DEF SendRelease, SendAcquire
  <2>3. /\ spc' \in [TxSender -> {"idle", "poll", "outside"} \X Nat]
        /\ \A t \in TxSender : spc'[t][2] = spc[t][2] /\ (t # s => spc'[t] = spc[t])
    BY <2>1, PcStep, Zenon DEF TxType
  <2>4. TxType'
    BY <2>2, <2>3 DEF TxType
  <2>5. TxInv'
    BY <2>2, <2>3, Zenon DEF TxType, TxInv
  <2> QED BY <2>4, <2>5
<1>3. ASSUME NEW s \in TxSender, SendFill(s)
      PROVE  TxType' /\ TxInv'
  <2> USE <1>3 DEF SendFill, SGoto
  <2>1. FrameOf(s) # Blank
    BY DEF TxType, TxInv, FrameOf, Blank
  <2>2. handed' = handed \union {FrameOf(s)} /\ Blank \notin handed'
    BY <2>1 DEF TxType
  <2>3. content' \in [Buffer -> handed' \union {Blank}]
    BY <2>2 DEF TxType
  <2>4. current' \in Buffer
    BY DivMod DEF TxType, Buffer
  <2>5. wire' \in Seq(handed')
    BY <2>2 DEF TxType
  <2>6. sending' \in Seq(Buffer) /\ own' \in [Buffer -> BOOLEAN] /\ ioport' = ioport
    BY DEF TxType
  <2>7. spc' \in [TxSender -> {"idle", "poll", "outside"} \X Nat]
    BY DEF TxType
  <2>8. TxType'
    BY <2>2, <2>3, <2>4, <2>5, <2>6, <2>7 DEF TxType
  <2>9. \A b \in Buffer : content'[b] = Blank => content[b] = Blank /\ b # current
    BY <2>1 DEF TxType
  <2>10. ioport[s] = current \/ content[ioport[s]] # Blank
    BY DEF TxInv
  <2>11. ioport[s] \in Buffer /\ content'[ioport[s]] # Blank
    BY <2>9, <2>10 DEF TxType
  <2>12. ASSUME NEW i \in DOMAIN sending'
         PROVE  content'[sending'[i]] # Blank
    <3>1. CASE i \in DOMAIN sending
      <4>1. sending'[i] = sending[i] /\ sending[i] \in Buffer
        BY <3>1 DEF TxType
      <4> QED BY <3>1, <4>1, <2>9 DEF TxInv
    <3>2. CASE i \notin DOMAIN sending
      <4>1. sending'[i] = ioport[s]
        BY <3>2, <2>11 DEF TxType
      <4> QED BY <4>1, <2>11
    <3> QED BY <3>1, <3>2
  <2>13. ASSUME NEW t \in TxSender, spc'[t][1] # "idle"
         PROVE  spc'[t][2] # 0 /\ (ioport'[t] = current' \/ content'[ioport'[t]] # Blank)
    <3>1. t # s /\ spc'[t] = spc[t]
      BY <2>13 DEF TxType
    <3>2. spc[t][2] # 0 /\ (ioport[t] = current \/ content[ioport[t]] # Blank) /\ ioport[t] \in Buffer
      BY <2>13, <3>1 DEF TxInv, TxType
    <3> QED BY <3>1, <3>2, <2>9
  <2> QED BY <2>8, <2>12, <2>13 DEF TxInv
<1>4. ASSUME CardSends
      PROVE  TxType' /\ TxInv'
  <2> USE <1>4 DEF CardSends
  <2>1. Head(sending) \in Buffer /\ content[Head(sending)] # Blank
    <3>1. Head(sending) = sending[1] /\ 1 \in DOMAIN sending /\ sending[1] \in Buffer
      BY DEF TxType
    <3> QED BY <3>1 DEF TxInv
  <2>2. content[Head(sending)] \in handed
    BY <2>1 DEF TxType
  <2>3. TxType'
    BY <2>1, <2>2 DEF TxType
  <2>4. \A i \in DOMAIN sending' : i + 1 \in DOMAIN sending /\ sending'[i] = sending[i + 1]
    BY DEF TxType
  <2> QED BY <2>3, <2>4 DEF TxInv
<1> QED BY <1>1, <1>2, <1>3, <1>4 DEF TxNext

-----------------------------------------------------------------------------
(* The ring has room.                                                     *)
LEMMA RingFacts == RingSize \in Nat /\ RingSize > 0
BY RtlAssumption

Numbered(q) == q \in Seq(Nat) /\ \A i \in DOMAIN q : q[i] = i

(* Frames in order, with the next one, are in order.                      *)
LEMMA NumberedAppend ==
  ASSUME NEW q, Numbered(q)
  PROVE  Numbered(Append(q, Len(q) + 1))
<1>1. q \in Seq(Nat) /\ Len(q) + 1 \in Nat
  BY DEF Numbered
<1>2. /\ Append(q, Len(q) + 1) \in Seq(Nat)
      /\ DOMAIN Append(q, Len(q) + 1) = 1 .. Len(q) + 1
  BY <1>1
<1>3. ASSUME NEW i \in 1 .. Len(q) + 1
      PROVE  Append(q, Len(q) + 1)[i] = i
  <2>1. CASE i = Len(q) + 1
    BY <2>1, <1>1
  <2>2. CASE i # Len(q) + 1
    <3>1. i \in DOMAIN q
      BY <2>2, <1>1
    <3> QED BY <3>1, <1>1 DEF Numbered
  <2> QED BY <2>1, <2>2
<1> QED BY <1>2, <1>3 DEF Numbered

(* Of two runs of frames in order one is the beginning of the other.      *)
LEMMA NumberedPrefix ==
  ASSUME NEW q, NEW r, Numbered(q), Numbered(r), Len(q) <= Len(r)
  PROVE  /\ \E n \in 0 .. Len(r) : q = SubSeq(r, 1, n)
         /\ Len(q) = Len(r) <=> q = r
<1>1. q \in Seq(Nat) /\ r \in Seq(Nat) /\ Len(q) \in Nat /\ Len(r) \in Nat
      /\ DOMAIN q = 1 .. Len(q) /\ DOMAIN r = 1 .. Len(r)
  BY DEF Numbered
<1>2. \A i \in 1 .. Len(q) : q[i] = i /\ r[i] = i
  BY <1>1 DEF Numbered
<1>3. q = SubSeq(r, 1, Len(q))
  BY <1>1, <1>2
<1>4. Len(q) = Len(r) => q = r
  BY <1>1, <1>2
<1>5. Len(q) \in 0 .. Len(r)
  BY <1>1
<1>6. q = r => Len(q) = Len(r)
  OBVIOUS
<1> QED BY <1>3, <1>4, <1>5, <1>6, Zenon

RxType ==
    /\ Numbered(stored) /\ Numbered(given)
    /\ Len(given) <= Len(stored)
    /\ rxpos \in Nat /\ cbr \in Nat

(* A[k] is the place the card gave frame k, counted without wrapping; the  *)
(* frames n+1 .. m are in the ring rg, rx and cb are where the driver and  *)
(* the card are.                                                           *)
RxChain(A, n, m, rg, rx, cb) ==
    /\ rx = A[n + 1] % RingSize
    /\ cb = A[m + 1] % RingSize
    /\ A[m + 1] - A[n + 1] < RingSize
    /\ A[m + 1] % 4 = 0
    /\ \A j \in Nat, k \in Nat : n < j /\ j < k /\ k <= m + 1 => A[j] < A[k]
    /\ \A k \in Nat : n < k /\ k <= m =>
         /\ A[k] % 4 = 0
         /\ A[k] % RingSize \in DOMAIN rg
         /\ rg[A[k] % RingSize].frame = k
         /\ rg[A[k] % RingSize].len \in Nat
         /\ A[k + 1] = A[k] + Aligned(rg[A[k] % RingSize].len + 4)

RxInv == \E A \in [Nat -> Nat] : RxChain(A, Len(given), Len(stored), ring, rxpos, cbr)

(* The frames that wait lie between the two positions, less than a ring   *)
(* apart.                                                                 *)
LEMMA ChainFirst ==
  ASSUME NEW n \in Nat, NEW m \in Nat, n <= m, NEW A \in [Nat -> Nat],
         NEW rg, NEW rx, NEW cb, RxChain(A, n, m, rg, rx, cb)
  PROVE  /\ A[m + 1] \in Int /\ A[n + 1] \in Int
         /\ 0 <= A[m + 1] - A[n + 1]
         /\ A[m + 1] - A[n + 1] < RingSize
         /\ n = m <=> A[m + 1] - A[n + 1] = 0
         /\ (cb - rx) % RingSize = A[m + 1] - A[n + 1]
         /\ n = m <=> rx = cb
<1> USE RingFacts
<1>1. n + 1 \in Nat /\ m + 1 \in Nat
  OBVIOUS
<1>2. A[m + 1] \in Nat /\ A[n + 1] \in Nat
  BY <1>1
<1>3. CASE n = m
  <2>1. A[m + 1] - A[n + 1] = 0 /\ rx = cb
    BY <1>2, <1>3, SMTT(30) DEF RxChain
  <2> QED BY <2>1, <1>2, <1>3, ModDifference, SMTT(30) DEF RxChain
<1>4. CASE n # m
  <2>1. n < n + 1 /\ n + 1 < m + 1 /\ m + 1 <= m + 1
    BY <1>4
  <2>2. A[n + 1] < A[m + 1]
    BY <2>1, <1>1 DEF RxChain
  <2>3. A[m + 1] - A[n + 1] < RingSize /\ rx = A[n + 1] % RingSize /\ cb = A[m + 1] % RingSize
    BY DEF RxChain
  <2>4. 0 < A[m + 1] - A[n + 1] /\ 0 <= A[m + 1] - A[n + 1]
    BY <1>2, <2>2
  <2>7. A[m + 1] - A[n + 1] # 0 /\ A[m + 1] \in Int /\ A[n + 1] \in Int
    BY <1>2, <2>2
  <2>5. cb # rx
    BY <2>3, <2>4, <2>7, RingFacts, ModDistinct, Zenon
  <2>6. ((A[m + 1] % RingSize) - (A[n + 1] % RingSize)) % RingSize = A[m + 1] - A[n + 1]
    BY <2>3, <2>4, <2>7, RingFacts, ModDifference, Zenon
  <2> QED BY <1>4, <2>3, <2>4, <2>5, <2>6, <2>7, Zenon
<1> QED BY <1>3, <1>4

(* No frame waits exactly if the positions are the same.                  *)
LEMMA ChainEnds ==
  ASSUME NEW n \in Nat, NEW m \in Nat, n <= m, NEW A \in [Nat -> Nat],
         NEW rg, NEW rx, NEW cb, RxChain(A, n, m, rg, rx, cb)
  PROVE  n = m <=> rx = cb
BY ChainFirst

(* A frame the card stores is the last of those that wait and overwrites  *)
(* none.                                                                  *)
LEMMA ChainStores ==
  ASSUME NEW n \in Nat, NEW m \in Nat, n <= m, NEW A \in [Nat -> Nat],
         NEW rg, NEW rx, NEW cb, RxChain(A, n, m, rg, rx, cb),
         NEW len \in Nat,
         ((cb - rx) % RingSize) + Aligned(len + 4) < RingSize,
         NEW rg2,
         rg2 = [p \in DOMAIN rg \union {cb} |->
                  IF p = cb THEN [len |-> len, frame |-> m + 1] ELSE rg[p]]
  PROVE  \E B \in [Nat -> Nat] :
            RxChain(B, n, m + 1, rg2, rx, (cb + Aligned(len + 4)) % RingSize)
<1> USE RingFacts
<1> DEFINE a == Aligned(len + 4)
           B == [A EXCEPT ![m + 2] = A[m + 1] + a]
<1>1. /\ A[m + 1] \in Nat /\ A[n + 1] \in Nat
      /\ 0 <= A[m + 1] - A[n + 1]
      /\ (cb - rx) % RingSize = A[m + 1] - A[n + 1]
  BY ChainFirst
<1>2. A[m + 1] % 4 = 0 /\ rx = A[n + 1] % RingSize /\ cb = A[m + 1] % RingSize
  BY DEF RxChain
<1>3. a \in Nat /\ a > 0 /\ (A[m + 1] + a) % 4 = 0
  BY <1>1, <1>2, AlignedShift, Zenon
<1>4. (A[m + 1] - A[n + 1]) + a < RingSize
  BY <1>1
<1> HIDE DEF a
<1>5. /\ B \in [Nat -> Nat] /\ B[m + 2] = A[m + 1] + a
      /\ \A k \in Nat : k <= m + 1 => B[k] = A[k]
  BY <1>1, <1>3
<1> HIDE DEF B
<1>6. (cb + a) % RingSize = B[m + 2] % RingSize
  <2>1. ((A[m + 1] % RingSize) + a) % RingSize = (A[m + 1] + a) % RingSize
    <3>1. A[m + 1] \in Int /\ a \in Int
      BY <1>1, <1>3
    <3> QED BY <3>1, RingFacts, ModShift, Zenon
  <2> QED BY <2>1, <1>2, <1>5, Zenon
<1>7. B[m + 2] - B[n + 1] < RingSize /\ B[m + 2] % 4 = 0
  <2>1. B[n + 1] = A[n + 1]
    BY <1>5
  <2> QED BY <2>1, <1>1, <1>3, <1>4, <1>5
<1>8. ASSUME NEW j \in Nat, NEW k \in Nat, n < j, j < k, k <= m + 2
      PROVE  B[j] < B[k]
  <2>1. j <= m + 1 /\ B[j] = A[j]
    BY <1>5, <1>8
  <2>2. CASE k <= m + 1
    BY <2>1, <2>2, <1>5, <1>8 DEF RxChain
  <2>3. CASE k = m + 2
    <3>1. A[j] <= A[m + 1]
      <4>1. CASE j = m + 1
        BY <4>1, <1>1, SMTT(30)
      <4>2. CASE j # m + 1
        <5>1. n < j /\ j < m + 1 /\ m + 1 <= m + 1 /\ m + 1 \in Nat
          BY <4>2, <2>1, <1>8
        <5>2. A[j] < A[m + 1]
          BY <5>1 DEF RxChain
        <5> QED BY <5>2, <1>1
      <4> QED BY <4>1, <4>2
    <3> QED BY <3>1, <2>1, <2>3, <1>1, <1>3, <1>5, SMTT(30)
  <2> QED BY <2>2, <2>3, <1>8
<1>9. ASSUME NEW k \in Nat, n < k, k <= m + 1
      PROVE  /\ B[k] % 4 = 0
             /\ B[k] % RingSize \in DOMAIN rg2
             /\ rg2[B[k] % RingSize].frame = k
             /\ rg2[B[k] % RingSize].len \in Nat
             /\ B[k + 1] = B[k] + Aligned(rg2[B[k] % RingSize].len + 4)
  <2>0. B[k] = A[k]
    BY <1>5, <1>9, SMTT(30)
  <2>1. CASE k = m + 1
    <3>1. rg2[cb] = [len |-> len, frame |-> m + 1] /\ cb \in DOMAIN rg2
      OBVIOUS
    <3>2. B[k] % RingSize = cb /\ B[k + 1] = A[m + 1] + a /\ B[k] = A[m + 1]
      BY <2>0, <2>1, <1>2, <1>5, SMTT(30)
    <3>3. rg2[cb].len = len /\ rg2[cb].frame = m + 1
      BY <3>1
    <3> QED BY <3>1, <3>2, <3>3, <2>1, <1>2 DEF a
  <2>2. CASE k # m + 1
    <3>1. k <= m /\ k < m + 1 /\ k + 1 <= m + 1 /\ k + 1 \in Nat /\ m + 1 \in Nat
      BY <2>2, <1>9, SMTT(30)
    <3>2. /\ A[k] % 4 = 0
          /\ A[k] % RingSize \in DOMAIN rg
          /\ rg[A[k] % RingSize].frame = k
          /\ rg[A[k] % RingSize].len \in Nat
          /\ A[k + 1] = A[k] + Aligned(rg[A[k] % RingSize].len + 4)
      BY <1>9, <3>1 DEF RxChain
    <3>3. A[k] < A[m + 1] /\ A[k] \in Nat
      BY <1>9, <3>1, SMTT(30) DEF RxChain
    <3>4. A[n + 1] <= A[k]
      <4>1. CASE k = n + 1
        BY <4>1, <1>1, SMTT(30)
      <4>2. CASE k # n + 1
        <5>1. n < n + 1 /\ n + 1 < k /\ k <= m + 1 /\ n + 1 \in Nat
          BY <4>2, <1>9
        <5>2. A[n + 1] < A[k]
          BY <5>1 DEF RxChain
        <5> QED BY <5>2, <1>1, <3>3
      <4> QED BY <4>1, <4>2
    <3>5. 0 < A[m + 1] - A[k] /\ A[m + 1] - A[k] < RingSize
      BY <3>3, <3>4, <1>1, <1>3, <1>4
    <3>6. A[k] % RingSize # cb
      <4>1. A[k] \in Int /\ A[m + 1] \in Int
        BY <3>3, <1>1
      <4>2. A[m + 1] % RingSize # A[k] % RingSize
        BY <3>5, <4>1, ModDistinct, Zenon
      <4> QED BY <4>2, <1>2, Zenon
    <3>7. rg2[A[k] % RingSize] = rg[A[k] % RingSize] /\ A[k] % RingSize \in DOMAIN rg2
      <4> DEFINE p == A[k] % RingSize
      <4> HIDE DEF p
      <4>1. p \in DOMAIN rg /\ p # cb
        BY <3>2, <3>6 DEF p
      <4>2. rg2[p] = rg[p] /\ p \in DOMAIN rg2
        BY <4>1
      <4> QED BY <4>2 DEF p
    <3>8. B[k + 1] = A[k + 1]
      BY <3>1, <1>5
    <3> QED BY <3>2, <3>7, <3>8, <2>0, SMTT(30)
  <2> QED BY <2>1, <2>2, Zenon
<1>10. RxChain(B, n, m + 1, rg2, rx, (cb + a) % RingSize)
  <2>1. (m + 1) + 1 = m + 2 /\ B[n + 1] = A[n + 1]
    BY <1>5
  <2> QED BY <1>2, <1>6, <1>7, <1>8, <1>9, <2>1, Zenon DEF RxChain
<1> QED BY <1>5, <1>10, Zenon DEF a

(* The frame the driver reads is the first of those that wait.            *)
LEMMA ChainReceives ==
  ASSUME NEW n \in Nat, NEW m \in Nat, n <= m, NEW A \in [Nat -> Nat],
         NEW rg, NEW rx \in Nat, NEW cb, RxChain(A, n, m, rg, rx, cb), rx # cb
  PROVE  /\ n + 1 <= m /\ rx \in DOMAIN rg /\ rg[rx].frame = n + 1
         /\ rg[rx].len \in Nat
         /\ RxChain(A, n + 1, m, rg, NextPos(rx, rg[rx].len), cb)
<1> USE RingFacts
<1>1. n < n + 1 /\ n + 1 <= m /\ n + 1 \in Nat /\ n + 2 \in Nat /\ (n + 1) + 1 = n + 2 /\ m + 1 \in Nat
  BY ChainFirst
<1>2. /\ A[n + 1] % 4 = 0 /\ rx = A[n + 1] % RingSize
      /\ rx \in DOMAIN rg /\ rg[rx].frame = n + 1 /\ rg[rx].len \in Nat
      /\ A[n + 2] = A[n + 1] + Aligned(rg[rx].len + 4)
  BY <1>1 DEF RxChain
<1>3. A[n + 1] \in Nat /\ A[n + 2] \in Nat /\ A[m + 1] \in Nat
  BY <1>1
<1> DEFINE l == rg[rx].len   a == Aligned(l + 4)
<1> HIDE DEF l
<1>4. rx % 4 = 0
  <2> DEFINE q == A[n + 1] \div RingSize   r == RingSize \div 4   c == A[n + 1] \div 4
  <2>1. A[n + 1] = (RingSize * q) + rx /\ q \in Int
    BY <1>2, <1>3, DivMod
  <2>2. RingSize = 4 * r /\ r \in Int /\ A[n + 1] = 4 * c /\ c \in Int
    BY <1>2, <1>3, RtlAssumption
  <2> HIDE DEF q, r, c
  <2>3. rx = (4 * c) - ((4 * r) * q)
    BY <2>1, <2>2
  <2>4. (4 * r) * q = 4 * (r * q) /\ r * q \in Int
    BY <2>1, <2>2
  <2> DEFINE d == c - (r * q)
  <2>5. rx = 4 * d /\ d \in Int
    BY <2>2, <2>3, <2>4
  <2> HIDE DEF d
  <2> QED BY <2>5
<1>5. a \in Nat /\ a > 0 /\ NextPos(rx, l) = (rx + a) % RingSize
  BY <1>2, <1>4, AlignedShift, Zenon DEF NextPos, l
<1>6. NextPos(rx, l) = A[n + 2] % RingSize
  <2> HIDE DEF a
  <2>1. ((A[n + 1] % RingSize) + a) % RingSize = (A[n + 1] + a) % RingSize
    <3>1. A[n + 1] \in Int /\ a \in Int
      BY <1>3, <1>5
    <3> QED BY <3>1, RingFacts, ModShift, Zenon
  <2>2. A[n + 2] = A[n + 1] + a
    BY <1>2 DEF a, l
  <2> QED BY <2>1, <2>2, <1>2, <1>5, Zenon
<1>7. A[m + 1] - A[n + 2] < RingSize
  <2>1. A[m + 1] - A[n + 1] < RingSize
    BY DEF RxChain
  <2>2. A[n + 2] > A[n + 1]
    BY <1>2, <1>3, <1>5, SMTT(30) DEF l
  <2> QED BY <2>1, <2>2, <1>3
<1>8. \A k \in Nat : n + 1 < k => n < k
  OBVIOUS
<1>9. RxChain(A, n + 1, m, rg, NextPos(rx, l), cb)
  BY <1>1, <1>6, <1>7, <1>8 DEF RxChain
<1> QED BY <1>1, <1>2, <1>9 DEF l

(* The steps of the card and of the driver keep the frames that wait in   *)
(* the ring.                                                              *)
LEMMA RxStep ==
  ASSUME RxType, RxInv, RxNext
  PROVE  RxType' /\ RxInv'
<1> USE RingFacts
<1> DEFINE m == Len(stored)   n == Len(given)
<1>1. PICK A \in [Nat -> Nat] : RxChain(A, n, m, ring, rxpos, cbr)
  BY SMTT(30) DEF RxInv
<1>2. m \in Nat /\ n \in Nat /\ n <= m /\ stored \in Seq(Nat) /\ given \in Seq(Nat)
  BY SMTT(30) DEF RxType, Numbered
<1>3. ASSUME NEW len \in FrameLens, CardStores(len)
      PROVE  RxType' /\ RxInv'
  <2>0. len \in Nat
    BY RtlAssumption
  <2>1. /\ stored' = Append(stored, m + 1) /\ given' = given /\ rxpos' = rxpos
        /\ Used + Aligned(len + 4) < RingSize
        /\ cbr' = (cbr + Aligned(len + 4)) % RingSize
        /\ ring' = [p \in DOMAIN ring \union {cbr} |->
                      IF p = cbr THEN [len |-> len, frame |-> m + 1] ELSE ring[p]]
    BY <1>3 DEF CardStores
  <2>2. Len(stored') = m + 1 /\ Len(given') = n
    BY <1>2, <2>1, SMTT(30)
  <2>3. Numbered(stored') /\ Numbered(given')
    BY <1>2, <2>1, NumberedAppend DEF RxType
  <2>4. cbr' \in Nat
    <3>0. Aligned(len + 4) \in Int
      BY <2>0 DEF Aligned
    <3>1. cbr + Aligned(len + 4) \in Int
      BY <3>0 DEF RxType
    <3>2. RingSize \in Nat /\ RingSize > 0
      OBVIOUS
    <3>3. (cbr + Aligned(len + 4)) % RingSize \in 0 .. RingSize - 1
      BY <3>1, <3>2, DivMod, Zenon
    <3> QED BY <3>2, <3>3, <2>1
  <2>5. ((cbr - rxpos) % RingSize) + Aligned(len + 4) < RingSize
    BY <2>1 DEF Used
  <2> HIDE DEF m, n
  <2>6. PICK B \in [Nat -> Nat] : RxChain(B, n, m + 1, ring', rxpos, cbr')
    BY <1>1, <1>2, <2>0, <2>1, <2>5, ChainStores, Zenon
  <2>7. RxInv'
    BY <2>1, <2>2, <2>6, Zenon DEF RxInv
  <2>8. rxpos' \in Nat
    BY <2>1 DEF RxType
  <2>9. Len(given') <= Len(stored')
    BY <1>2, <2>2
  <2> QED BY <2>3, <2>4, <2>7, <2>8, <2>9, Zenon DEF RxType
<1>4. ASSUME PacketReceivedRtl
      PROVE  RxType' /\ RxInv'
  <2>0. rxpos \in Nat /\ rxpos # cbr
    BY <1>4, Zenon DEF RxType, PacketReceivedRtl
  <2>1. /\ n + 1 <= m /\ rxpos \in DOMAIN ring /\ ring[rxpos].frame = n + 1
        /\ ring[rxpos].len \in Nat
        /\ RxChain(A, n + 1, m, ring, NextPos(rxpos, ring[rxpos].len), cbr)
    <3> HIDE DEF m, n
    <3> QED BY <1>1, <1>2, <2>0, ChainReceives, Zenon
  <2>2. /\ given' = Append(given, n + 1) /\ rxpos' = NextPos(rxpos, ring[rxpos].len)
        /\ stored' = stored /\ ring' = ring /\ cbr' = cbr
    BY <1>4, <2>1 DEF PacketReceivedRtl
  <2>3. Len(given') = n + 1 /\ Len(stored') = m
    BY <1>2, <2>2
  <2>4. Numbered(given') /\ Numbered(stored')
    BY <1>2, <2>2, NumberedAppend DEF RxType
  <2>5. rxpos' \in Nat
    <3> DEFINE l == ring[rxpos].len
    <3>1. l \in Nat
      BY <2>1
    <3> HIDE DEF l
    <3>2. ((rxpos + l + 4 + 3) \div 4) * 4 \in Int /\ RingSize \in Nat /\ RingSize > 0
      BY <2>0, <3>1
    <3>3. NextPos(rxpos, l) \in 0 .. RingSize - 1
      BY <3>2, DivMod, Zenon DEF NextPos
    <3> QED BY <2>2, <3>2, <3>3 DEF l
  <2> HIDE DEF m, n
  <2>6. RxInv'
    BY <2>1, <2>2, <2>3, Zenon DEF RxInv
  <2> QED BY <1>2, <2>1, <2>2, <2>3, <2>4, <2>5, <2>6 DEF RxType
<1>5. ASSUME \/ \E len \in FrameLens : CardOverflows(len)
             \/ HandleIRQ \/ PacketReceivedEnd \/ AckIRQ
      PROVE  RxType' /\ RxInv'
  <2>1. UNCHANGED <<ring, cbr, rxpos, stored, given>>
    BY <1>5 DEF CardOverflows, HandleIRQ, PacketReceivedEnd, AckIRQ
  <2> QED BY <2>1, Zenon DEF RxType, RxInv
<1> QED BY <1>3, <1>4, <1>5 DEF RxNext

RtlInv == RxType /\ RxInv /\ TxType /\ TxInv

(* At first nothing is sent or received.                                  *)
LEMMA RtlInitInv == RtlInit => RtlInv
<1> SUFFICES ASSUME RtlInit PROVE RtlInv
  OBVIOUS
<1> USE RingFacts
<1>1. RxType
  BY DEF RtlInit, RxType, Numbered
<1>2. TxType
  BY RtlAssumption DEF RtlInit, TxType, Buffer
<1>3. TxInv
  BY DEF RtlInit, TxInv
<1>4. RxInv
  <2> DEFINE A == [k \in Nat |-> 0]
  <2>1. A \in [Nat -> Nat] /\ Len(given) = 0 /\ Len(stored) = 0 /\ A[0 + 1] = 0
    BY DEF RtlInit
  <2>2. 0 % RingSize = 0
    BY ModZero
  <2>3. RxChain(A, 0, 0, ring, rxpos, cbr)
    <3>1. 0 % 4 = 0
      OBVIOUS
    <3>2. rxpos = 0 /\ cbr = 0
      BY DEF RtlInit
    <3> HIDE DEF A
    <3> QED BY <2>1, <2>2, <3>1, <3>2 DEF RxChain
  <2> QED BY <2>1, <2>3 DEF RxInv
<1> QED BY <1>1, <1>2, <1>3, <1>4 DEF RtlInv

(* A chain of waiting frames and filled buffers are what the property     *)
(* says.                                                                  *)
LEMMA RtlInvImplies == RtlInv => FramesIntact
<1> SUFFICES ASSUME RtlInv PROVE FramesIntact
  OBVIOUS
<1>1. WireWasHanded
  BY DEF RtlInv, TxType, WireWasHanded
<1> DEFINE m == Len(stored)   n == Len(given)
<1>2. PICK A \in [Nat -> Nat] : RxChain(A, n, m, ring, rxpos, cbr)
  BY SMTT(30) DEF RtlInv, RxInv
<1>3. m \in Nat /\ n \in Nat /\ n <= m /\ stored \in Seq(Nat) /\ given \in Seq(Nat)
  BY SMTT(30) DEF RtlInv, RxType, Numbered
<1>4. n = m <=> rxpos = cbr
  <2>1. \A i \in Nat, k \in Nat : i <= k /\ RxChain(A, i, k, ring, rxpos, cbr) =>
                                    (i = k <=> rxpos = cbr)
    BY ChainEnds
  <2> QED BY <1>2, <1>3, <2>1, Zenon
<1>6. /\ \E l \in 0 .. Len(stored) : given = SubSeq(stored, 1, l)
      /\ n = m <=> given = stored
  BY NumberedPrefix DEF RtlInv, RxType
<1>8. rxpos = cbr <=> given = stored
  BY <1>4, <1>6, Zenon
<1> QED BY <1>1, <1>6, <1>8, Zenon DEF FramesIntact, RxInOrder

(* What the driver receives is the frames the card stored, in their       *)
(* order, and every frame the card sends is one that send() put into a    *)
(* buffer: for every size of the ring and of the frames and any number of *)
(* senders (rtl8139.cpp:148-303).                                         *)
THEOREM RtlCorrect == RtlSpec => []FramesIntact
<1>1. RtlInv /\ [RxNext \/ TxNext]_rtlVars => RtlInv'
  <2> SUFFICES ASSUME RtlInv, [RxNext \/ TxNext]_rtlVars PROVE RtlInv'
    OBVIOUS
  <2>1. CASE RxNext
    <3>1. UNCHANGED txVars
      BY <2>1, Zenon DEF RxNext, CardStores, CardOverflows, HandleIRQ, PacketReceivedRtl,
                  PacketReceivedEnd, AckIRQ
    <3>2. TxType' /\ TxInv'
      BY <3>1, Zenon DEF RtlInv, TxType, TxInv, txVars
    <3> QED BY <2>1, <3>2, RxStep DEF RtlInv
  <2>2. CASE TxNext
    <3>1. UNCHANGED rxVars
      BY <2>2, Zenon DEF TxNext, SendEnter, EnterWith, SendRelease, SendAcquire, SendFill, CardSends
    <3>2. RxType' /\ RxInv'
      BY <3>1, Zenon DEF RtlInv, RxType, RxInv, rxVars
    <3> QED BY <2>2, <3>2, TxStep DEF RtlInv
  <2>3. CASE UNCHANGED rtlVars
    BY <2>3, Zenon DEF rtlVars, rxVars, txVars, RtlInv, RxType, RxInv, TxType, TxInv
  <2> QED BY <2>1, <2>2, <2>3
<1> QED BY <1>1, RtlInitInv, RtlInvImplies, PTL DEF RtlSpec
=============================================================================
