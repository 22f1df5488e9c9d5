------------------------------ MODULE Rtl8139 ------------------------------
(***************************************************************************)
(* mod/core/rtl8139/rtl8139.cpp: the receive ring, walked by the interrupt *)
(* handler, and the transmit buffers, filled round-robin by the threads    *)
(* that call send().  The card is the environment: it stores frames at     *)
(* CBR, raises ROK and, for the transmit side, sets TSD_OWN when it has    *)
(* sent a buffer.                                                          *)
(***************************************************************************)
EXTENDS Integers, Sequences

CONSTANTS
    RingSize,      \* BUFFER_SIZE - 0x10, a power of two
    FrameLens,     \* lengths of the frames that arrive
    MaxFrames,     \* bound: frames that arrive in a behaviour
    TxSender,      \* threads that call send()
    TxBuffers,     \* transmit buffers
    TxEach         \* bound: frames each thread sends

ASSUME RtlAssumption ==
    /\ RingSize \in Nat /\ RingSize > 0 /\ RingSize % 4 = 0
    /\ FrameLens \subseteq Nat
    /\ TxBuffers \in Nat /\ TxBuffers > 0

VARIABLES
    ring,          \* start of a frame -> its header and number
    cbr,           \* where the card stores the next frame
    rok,           \* ISR_ROK
    rxpos,         \* m_rx_buffer_pos
    irqpc,         \* where handleIRQ() is
    stored, given, \* history: frames stored by the card, frames passed to receive()
    overflow,      \* kpanic("rtl8139: RX buffer overflow")
    own,           \* buffer -> TSD_OWN
    content,       \* buffer -> the frame in it
    current,       \* m_tx_buffer_current
    txlock,        \* holder of m_tx_lock
    spc, ioport,   \* sender -> where it is in send(), and its io_port
    sending,       \* buffers the card has been told to send, in order
    handed, wire   \* history: frames whose send() returned; frames on the wire

rxVars == <<ring, cbr, rok, rxpos, irqpc, stored, given, overflow>>
txVars == <<own, content, current, txlock, spc, ioport, sending, handed, wire>>
rtlVars == <<rxVars, txVars>>

Free == "free"
Blank == <<"blank", 0>>

RtlInit ==
    /\ ring = [p \in {} |-> <<>>]
    /\ cbr = 0 /\ rok = FALSE
    /\ rxpos = 0 /\ irqpc = "idle"
    /\ stored = <<>> /\ given = <<>>
    /\ overflow = FALSE
    /\ own = [b \in 0 .. TxBuffers - 1 |-> TRUE]
    /\ content = [b \in 0 .. TxBuffers - 1 |-> Blank]
    /\ current = 0
    /\ txlock = Free
    /\ spc = [s \in TxSender |-> <<"idle", 0>>]
    /\ ioport = [s \in TxSender |-> 0]
    /\ sending = <<>>
    /\ handed = {} /\ wire = <<>>

---------------------------------------------------------------------------
(* The card: a frame takes a header of four bytes and is aligned to four.  *)
(* It must not close up on the frame the driver is at.                     *)
Aligned(n) == ((n + 3) \div 4) * 4
Used == (cbr - rxpos) % RingSize

CardStores(len) ==
    /\ Len(stored) < MaxFrames /\ ~overflow
    /\ Used + Aligned(len + 4) < RingSize
    /\ ring' = [p \in DOMAIN ring \union {cbr} |->
                  IF p = cbr THEN [len |-> len, frame |-> Len(stored) + 1] ELSE ring[p]]
    /\ cbr' = (cbr + Aligned(len + 4)) % RingSize
    /\ stored' = Append(stored, Len(stored) + 1)
    /\ rok' = TRUE
    /\ UNCHANGED <<rxpos, irqpc, given, overflow, txVars>>

CardOverflows(len) ==
    /\ Len(stored) < MaxFrames /\ ~overflow
    /\ Used + Aligned(len + 4) >= RingSize
    /\ overflow' = TRUE
    /\ UNCHANGED <<ring, cbr, rok, rxpos, irqpc, stored, given, txVars>>

(* handleIRQ(): the status is read, packetReceived() runs if it says ROK,  *)
(* and ROK is acknowledged last.                                           *)
HandleIRQ ==
    /\ irqpc = "idle" /\ rok /\ ~overflow
    /\ irqpc' = "receive"
    /\ UNCHANGED <<ring, cbr, rok, rxpos, stored, given, overflow, txVars>>

(* The position after a frame: rounded up to four and wrapped by one mask. *)
NextPosUnrounded(pos, len) == (pos + len + 4) % RingSize             \* mutant

NextPos(pos, len) == (((pos + len + 4 + 3) \div 4) * 4) % RingSize

PacketReceivedRtl ==
    /\ irqpc = "receive" /\ rxpos # cbr /\ ~overflow
    /\ LET header == IF rxpos \in DOMAIN ring THEN ring[rxpos] ELSE [len |-> 0, frame |-> 0]
       IN  /\ given' = Append(given, header.frame)
           /\ rxpos' = NextPos(rxpos, header.len)
    /\ UNCHANGED <<ring, cbr, rok, irqpc, stored, overflow, txVars>>

PacketReceivedEnd ==
    /\ irqpc = "receive" /\ rxpos = cbr /\ ~overflow
    /\ irqpc' = "ack"
    /\ UNCHANGED <<ring, cbr, rok, rxpos, stored, given, overflow, txVars>>

AckIRQ ==
    /\ irqpc = "ack" /\ ~overflow
    /\ rok' = FALSE
    /\ irqpc' = "idle"
    /\ UNCHANGED <<ring, cbr, rxpos, stored, given, overflow, txVars>>

---------------------------------------------------------------------------
(* send(): m_tx_lock, the port of the current buffer, and the wait for     *)
(* TSD_OWN, which gives the lock away and takes it back.                   *)
FrameOf(s) == <<s, spc[s][2]>>
SGoto(s, pc) == spc' = [spc EXCEPT ![s][1] = pc]

EnterWith(s, buffer) ==
    /\ spc[s][1] = "idle" /\ spc[s][2] < TxEach /\ txlock = Free
    /\ txlock' = s
    /\ ioport' = [ioport EXCEPT ![s] = buffer]
    /\ spc' = [spc EXCEPT ![s] = <<"poll", @[2] + 1>>]
    /\ UNCHANGED <<own, content, current, sending, handed, wire, rxVars>>

SendEnter(s) == EnterWith(s, current)

SendRelease(s) ==
    /\ spc[s][1] = "poll" /\ ~own[ioport[s]]
    /\ txlock' = Free
    /\ SGoto(s, "outside")
    /\ UNCHANGED <<own, content, current, ioport, sending, handed, wire, rxVars>>

SendAcquire(s) ==
    /\ spc[s][1] = "outside" /\ txlock = Free
    /\ txlock' = s
    /\ SGoto(s, "poll")
    /\ UNCHANGED <<own, content, current, ioport, sending, handed, wire, rxVars>>

(* The buffer is the current one now; the port is the one read on entry.   *)
SendFill(s) ==
    /\ spc[s][1] = "poll" /\ own[ioport[s]]
    /\ content' = [content EXCEPT ![current] = FrameOf(s)]
    /\ own' = [own EXCEPT ![ioport[s]] = FALSE]
    /\ sending' = Append(sending, ioport[s])
    /\ current' = (current + 1) % TxBuffers
    /\ handed' = handed \union {FrameOf(s)}
    /\ txlock' = Free
    /\ SGoto(s, "idle")
    /\ UNCHANGED <<ioport, wire, rxVars>>

CardSends ==
    /\ sending # <<>>
    /\ wire' = Append(wire, content[Head(sending)])
    /\ own' = [own EXCEPT ![Head(sending)] = TRUE]
    /\ sending' = Tail(sending)
    /\ UNCHANGED <<content, current, txlock, spc, ioport, handed, rxVars>>

RxNext ==
    \/ \E len \in FrameLens : CardStores(len) \/ CardOverflows(len)
    \/ HandleIRQ \/ PacketReceivedRtl \/ PacketReceivedEnd \/ AckIRQ

TxNext ==
    \/ \E s \in TxSender : SendEnter(s) \/ SendRelease(s) \/ SendAcquire(s) \/ SendFill(s)
    \/ CardSends

RtlSpec == RtlInit /\ [][RxNext \/ TxNext]_rtlVars

---------------------------------------------------------------------------
(* packetReceived() stays in step with the card round the ring: it gives   *)
(* every stored frame to receive() once, in order, and rests only on the   *)
(* start of the next one or on CBR.                                        *)
RxInOrder ==
    /\ \E n \in 0 .. Len(stored) : given = SubSeq(stored, 1, n)
    /\ rxpos = cbr <=> given = stored

(* Every frame the card sends is one that send() put into a buffer, also   *)
(* when the buffer of a waiting thread is taken by another.                *)
WireWasHanded == \A i \in DOMAIN wire : wire[i] \in handed

\* Frames go through the driver's rings whole in both directions
\* (rtl8139.cpp:148-303).
FramesIntact == RxInOrder /\ WireWasHanded
=============================================================================
