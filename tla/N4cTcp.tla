------------------------------- MODULE N4cTcp -------------------------------
(***************************************************************************)
(* One TCP socket of the Net4CPC board with its TAP backend: the W5100S    *)
(* socket registers of net4cpc.c on top of the TCP control block of        *)
(* n4c_stack.c.  The guest (the Z80 driver) issues socket commands, the    *)
(* network delivers segments, and the frame loop polls the stack: a poll   *)
(* handles the queued segments one by one and ends with tcp_tick.          *)
(*                                                                         *)
(* The network is open here: any segment of Segments may arrive.  N4cLink  *)
(* closes the system with a real peer and a faulty wire.                   *)
(*                                                                         *)
(* Abstracted: payload bytes are their positions in the sender's stream,   *)
(* TX_RD and TX_WR are counters since OPEN and the RX ring is the queue of *)
(* its unread bytes (the 16-bit pointers are only used through their       *)
(* differences), headers and checksums are left out.                       *)
(***************************************************************************)
EXTENDS Integers, Sequences, FiniteSets

CONSTANTS
    SeqMod,       \* 2^32 in the code: modulus of sequence numbers
    Isns,         \* values the (time, ports) hash gives the initial sequence
    Mss,          \* TCP_DEFAULT_MSS
    BufSize,      \* BUF_SIZE, bytes in the TX and in the RX ring
    RetxFrames,   \* TCP_RETX_FRAMES
    RetxMax,      \* TCP_RETX_MAX
    Segments,     \* the segments an open network may deliver
    MaxBytes,     \* bound: bytes the guest writes per connection
    WireCap,      \* bound: frames in flight to the peer, the rest is lost
    TxMayFail,    \* may a write to the TAP fail?
    WaitSendOk    \* does the driver wait for SEND_OK between two SENDs?

SeqNum == 0 .. SeqMod - 1
Flags == {"SYN", "ACK", "FIN", "RST"}
Segment == [seq : SeqNum, ack : SeqNum, flags : SUBSET Flags, data : Seq(Nat)]

ASSUME NumAssumption ==
    /\ SeqMod \in Nat \ {0}
    /\ Mss \in Nat \ {0}
    /\ BufSize \in Nat \ {0}
    /\ RetxFrames \in Nat \ {0}
    /\ RetxMax \in Nat
    /\ MaxBytes \in Nat
    /\ WireCap \in Nat
ASSUME SetAssumption == Isns \subseteq SeqNum /\ Segments \subseteq Segment
ASSUME FlagAssumption == {TxMayFail, WaitSendOk} \subseteq BOOLEAN

(* Sn_SR values; the control block uses the same ones. *)
SockStatus == {"CLOSED", "INIT", "LISTEN", "SYNSENT", "SYNRECV", "ESTABLISHED",
               "FIN_WAIT", "TIME_WAIT", "CLOSE_WAIT", "LAST_ACK"}
Streaming == {"ESTABLISHED", "FIN_WAIT", "CLOSE_WAIT", "LAST_ACK"}

(* Sn_IR bits *)
IrBits == {"CON", "DISCON", "RECV", "TIMEOUT", "SEND_OK"}

VARIABLES
    cb,        \* s_tcp[s]: the TCP control block
    reg,       \* the socket's W5100S registers
    rx,        \* the unread bytes of the RX ring
    arp,       \* does the ARP cache hold the next hop's MAC?
    await,     \* driver: a SEND is waiting for its SEND_OK
    polling,   \* inside n4c_stack_poll: some frames handled, tick still due
    toPeer     \* frames written to the TAP that the peer has not seen

vars == <<cb, reg, rx, arp, await, polling, toPeer>>

TcpCb == [active : BOOLEAN, state : SockStatus, peerMacKnown : BOOLEAN,
          sndUna : SeqNum, sndNxt : SeqNum, rcvNxt : SeqNum,
          retxBuf : Seq(Nat), retxSeq : SeqNum, retxTimer : Nat,
          retxCount : Nat, finSent : BOOLEAN]

SockRegs == [sr : SockStatus, ir : SUBSET IrBits, txRd : Nat, txWr : Nat,
             txFsr : Int, rxRsr : Nat]

ClearedCb == [active |-> FALSE, state |-> "CLOSED", peerMacKnown |-> FALSE,
              sndUna |-> 0, sndNxt |-> 0, rcvNxt |-> 0,
              retxBuf |-> <<>>, retxSeq |-> 0, retxTimer |-> 0,
              retxCount |-> 0, finSent |-> FALSE]

ClearedRegs == [sr |-> "CLOSED", ir |-> {}, txRd |-> 0, txWr |-> 0,
                txFsr |-> 0, rxRsr |-> 0]

Init == /\ cb = ClearedCb
        /\ reg = ClearedRegs
        /\ rx = <<>>
        /\ arp \in BOOLEAN
        /\ await = FALSE
        /\ polling = FALSE
        /\ toPeer = <<>>

-----------------------------------------------------------------------------
(* Helpers *)

Plus(a, n) == (a + n) % SeqMod          \* u32 addition
AtMost(a, b) == IF a < b THEN a ELSE b

Packet(seq, ack, flags, data) ==
    [seq |-> seq, ack |-> ack, flags |-> flags, data |-> data]

(* tcp_tx reaches the TAP when the peer's MAC is cached in the control     *)
(* block or the ARP table has it, and the write is accepted.               *)
Resolved == cb.peerMacKnown \/ arp
TxResults == IF TxMayFail THEN BOOLEAN ELSE {TRUE}

(* Frames beyond the bound are lost on the wire. *)
Transmit(segs) ==
    toPeer' = LET all == toPeer \o segs
              IN  SubSeq(all, 1, AtMost(Len(all), WireCap))

(* The registers after the stack's state callback. *)
stack_tcp_state(r, new) ==
    [r EXCEPT !.sr = new,
              !.ir = @ \cup (IF new = "ESTABLISHED" /\ r.sr # new THEN {"CON"} ELSE {})
                       \cup (IF new = "CLOSED" /\ r.sr # new THEN {"DISCON"} ELSE {})]

(* The registers after n more bytes entered the RX ring. *)
stack_tcp_data(r, n) ==
    IF n = 0 THEN r
    ELSE [r EXCEPT !.rxRsr = Len(rx) + n, !.ir = @ \cup {"RECV"}]

(* The registers after the peer acknowledged n outbound bytes. *)
stack_tcp_ack(r, n) ==
    [r EXCEPT !.txRd = @ + n,
              !.txFsr = BufSize - (r.txWr - (r.txRd + n)),
              !.ir = @ \cup {"SEND_OK"}]
-----------------------------------------------------------------------------
(* Faulty variants.  Each is a definition below with one plausible mistake *)
(* and is used by no specification; PROJECT.json pairs it with a property  *)
(* that must break when it takes the definition's place.                   *)

OpenKeepsTxRd ==
    /\ ~polling
    /\ cb' = [ClearedCb EXCEPT !.active = TRUE, !.state = "INIT"]
    /\ reg' = [ClearedRegs EXCEPT !.sr = "INIT", !.txFsr = BufSize, !.txRd = reg.txRd]
    /\ rx' = <<>>
    /\ await' = FALSE
    /\ UNCHANGED <<arp, polling, toPeer>>

OpenKeepsIr ==
    /\ ~polling
    /\ cb' = [ClearedCb EXCEPT !.active = TRUE, !.state = "INIT"]
    /\ reg' = [ClearedRegs EXCEPT !.sr = "INIT", !.txFsr = BufSize, !.ir = reg.ir]
    /\ rx' = <<>>
    /\ await' = FALSE
    /\ UNCHANGED <<arp, polling, toPeer>>

SendSkipsShortSegment(buf) ==
    IF Len(buf) < Mss THEN UNCHANGED <<cb, toPeer>>
    ELSE /\ cb' = [cb EXCEPT !.sndNxt = Plus(@, Len(buf)),
                             !.retxBuf = buf, !.retxSeq = cb.sndNxt,
                             !.retxTimer = RetxFrames, !.retxCount = 0]
         /\ Transmit(<<Packet(cb.sndNxt, cb.rcvNxt, {"ACK"}, buf)>>)

SendKeepsSndNxt(buf) ==
    /\ cb' = [cb EXCEPT !.peerMacKnown = Resolved,
                        !.retxBuf = buf, !.retxSeq = cb.sndNxt,
                        !.retxTimer = RetxFrames, !.retxCount = 0]
    /\ Transmit(<<Packet(cb.sndNxt, cb.rcvNxt, {"ACK"}, buf)>>)

RecvLeavesRsr(n) ==
    /\ ~polling
    /\ n \in 1 .. reg.rxRsr
    /\ rx' = SubSeq(rx, n + 1, Len(rx))
    /\ UNCHANGED <<cb, reg, arp, await, polling, toPeer>>

RecvOneShort(n) ==
    /\ ~polling
    /\ n \in 1 .. reg.rxRsr
    /\ rx' = SubSeq(rx, n, Len(rx))
    /\ reg' = [reg EXCEPT !.rxRsr = Len(rx) - n + 1]
    /\ UNCHANGED <<cb, arp, await, polling, toPeer>>

CloseKeepsCb ==
    /\ ~polling
    /\ reg' = [reg EXCEPT !.sr = "CLOSED", !.rxRsr = 0, !.txFsr = 0]
    /\ rx' = <<>>
    /\ await' = FALSE
    /\ UNCHANGED <<cb, arp, polling, toPeer>>

ListenSkipsHandshake(seg) ==
    /\ cb.active /\ "RST" \notin seg.flags
    /\ cb.state = "LISTEN"
    /\ IF "SYN" \in seg.flags
       THEN /\ reg' = stack_tcp_state(reg, "ESTABLISHED")
            /\ cb' = [cb EXCEPT !.state = "ESTABLISHED", !.rcvNxt = Plus(seg.seq, 1)]
       ELSE UNCHANGED <<cb, reg>>
    /\ UNCHANGED toPeer

RcvAfterHighest(seg) ==
    IF seg.data = <<>> THEN cb.rcvNxt ELSE Plus(seg.seq, Len(seg.data))

WaitPastZero ==
    /\ cb.active /\ cb.retxBuf # <<>>
    /\ cb' = [cb EXCEPT !.retxTimer = @ - 1]
    /\ UNCHANGED <<reg, toPeer>>

GiveUpKeepsCb ==
    /\ cb.active /\ cb.retxBuf # <<>>
    /\ cb.retxCount + 1 > RetxMax
    /\ cb' = [cb EXCEPT !.retxBuf = <<>>]
    /\ reg' = stack_tcp_state(reg, "CLOSED")
    /\ UNCHANGED toPeer

RetryUncounted ==
    /\ cb.active /\ cb.retxBuf # <<>>
    /\ cb.retxTimer <= 1 /\ cb.retxCount + 1 <= RetxMax
    /\ cb' = [cb EXCEPT !.retxTimer = RetxFrames]
    /\ Transmit(<<Packet(cb.retxSeq, cb.rcvNxt, {"ACK"}, cb.retxBuf)>>)
    /\ UNCHANGED reg

-----------------------------------------------------------------------------
(* Socket commands of the guest.  They run between two polls. *)

CmdOpen ==
    /\ ~polling
    /\ cb' = [ClearedCb EXCEPT !.active = TRUE, !.state = "INIT"]
    /\ reg' = [ClearedRegs EXCEPT !.sr = "INIT", !.txFsr = BufSize]
    /\ rx' = <<>>
    /\ await' = FALSE
    /\ UNCHANGED <<arp, polling, toPeer>>

(* LISTEN and CONNECT act on a socket in any state; the stack only asks    *)
(* whether the control block is in use.                                    *)
CmdListen ==
    /\ ~polling
    /\ cb' = IF cb.active THEN [cb EXCEPT !.state = "LISTEN"] ELSE cb
    /\ reg' = [reg EXCEPT !.sr = "LISTEN"]
    /\ UNCHANGED <<rx, arp, await, polling, toPeer>>

(* The SYN goes out at once or, with the next hop unresolved, is left to   *)
(* tcp_tick.                                                               *)
CmdConnect ==
    /\ ~polling
    /\ IF cb.active
       THEN \E isn \in Isns, ok \in TxResults :
              LET sent == arp /\ ok
              IN /\ cb' = [cb EXCEPT !.state = "SYNSENT", !.peerMacKnown = arp,
                                     !.sndUna = isn,
                                     !.sndNxt = IF sent THEN Plus(isn, 1) ELSE isn,
                                     !.rcvNxt = 0, !.retxBuf = <<>>,
                                     !.retxTimer = RetxFrames, !.retxCount = 0]
                 /\ IF sent THEN Transmit(<<Packet(isn, 0, {"SYN"}, <<>>)>>)
                            ELSE UNCHANGED toPeer
       ELSE UNCHANGED <<cb, toPeer>>
    /\ reg' = [reg EXCEPT !.sr = "SYNSENT"]
    /\ UNCHANGED <<rx, arp, await, polling>>

(* tcp_send: the segment is kept for retransmission whether or not it got  *)
(* out; only a successful write moves snd_nxt.                             *)
tcp_send(buf) ==
    \E ok \in TxResults :
      LET sent == Resolved /\ ok
      IN /\ cb' = [cb EXCEPT !.peerMacKnown = Resolved,
                             !.sndNxt = IF sent THEN Plus(@, Len(buf)) ELSE @,
                             !.retxBuf = buf, !.retxSeq = cb.sndNxt,
                             !.retxTimer = RetxFrames, !.retxCount = 0]
         /\ IF sent THEN Transmit(<<Packet(cb.sndNxt, cb.rcvNxt, {"ACK"}, buf)>>)
                    ELSE UNCHANGED toPeer

(* The driver saw the socket ESTABLISHED (it may have moved on since),     *)
(* writes n bytes to the free part of the TX ring and issues SEND.         *)
CmdSend(n) ==
    LET wr       == reg.txWr + n
        len      == wr - reg.txRd
        buf      == [i \in 1 .. AtMost(len, Mss) |-> reg.txRd + i]
        accepted == cb.active /\ cb.state = "ESTABLISHED"
    IN  /\ ~polling
        /\ reg.sr \in Streaming \cup {"CLOSED"}
        /\ WaitSendOk => ~await
        /\ n <= reg.txFsr
        /\ wr <= MaxBytes
        /\ len > 0
        /\ await' = TRUE
        /\ \/ /\ accepted
              /\ reg' = [reg EXCEPT !.txWr = wr, !.txFsr = BufSize - len]
              /\ tcp_send(buf)
           \/ /\ ~accepted               \* the stack refuses: the bytes are dropped
              /\ reg' = [reg EXCEPT !.txWr = wr, !.txRd = wr, !.txFsr = BufSize]
              /\ UNCHANGED <<cb, toPeer>>
        /\ UNCHANGED <<rx, arp, polling>>

(* The driver takes n of the received bytes: RX_RD, then RECV. *)
CmdRecv(n) ==
    /\ ~polling
    /\ n \in 1 .. reg.rxRsr
    /\ rx' = SubSeq(rx, n + 1, Len(rx))
    /\ reg' = [reg EXCEPT !.rxRsr = Len(rx) - n]
    /\ UNCHANGED <<cb, arp, await, polling, toPeer>>

CmdDiscon ==
    /\ ~polling
    /\ \/ /\ cb.active
          /\ cb.state \in {"ESTABLISHED", "CLOSE_WAIT"}
          /\ LET next == IF cb.state = "ESTABLISHED" THEN "FIN_WAIT" ELSE "LAST_ACK"
             IN  /\ reg' = stack_tcp_state(reg, next)
                 /\ \E ok \in TxResults :
                      LET sent == Resolved /\ ok
                      IN /\ cb' = [cb EXCEPT !.state = next, !.finSent = TRUE,
                                             !.peerMacKnown = Resolved,
                                             !.sndNxt = IF sent THEN Plus(@, 1) ELSE @]
                         /\ IF sent
                            THEN Transmit(<<Packet(cb.sndNxt, cb.rcvNxt, {"FIN", "ACK"}, <<>>)>>)
                            ELSE UNCHANGED toPeer
    /\ UNCHANGED <<rx, arp, await, polling>>

(* A hard close: RST to a known peer, the control block is dropped. *)
CmdClose ==
    /\ ~polling
    /\ cb' = IF cb.active THEN [cb EXCEPT !.active = FALSE, !.state = "CLOSED"] ELSE cb
    /\ reg' = [(IF cb.active THEN stack_tcp_state(reg, "CLOSED") ELSE reg)
               EXCEPT !.sr = "CLOSED", !.rxRsr = 0, !.txFsr = 0]
    /\ rx' = <<>>
    /\ await' = FALSE
    /\ IF cb.active /\ cb.peerMacKnown /\ cb.state # "CLOSED" /\ arp
       THEN Transmit(<<Packet(cb.sndNxt, 0, {"RST", "ACK"}, <<>>)>>)
       ELSE UNCHANGED toPeer
    /\ UNCHANGED <<arp, polling>>

(* Sn_IR is write-1-to-clear. *)
ClearIr(bits) ==
    /\ ~polling
    /\ bits # {}
    /\ reg' = [reg EXCEPT !.ir = @ \ bits]
    /\ await' = (await /\ "SEND_OK" \notin bits)
    /\ UNCHANGED <<cb, rx, arp, polling, toPeer>>

(* MR.RST: every register goes back to its default; the stack is not told. *)
SoftReset ==
    /\ ~polling
    /\ reg' = ClearedRegs
    /\ rx' = <<>>
    /\ await' = FALSE
    /\ UNCHANGED <<cb, arp, polling, toPeer>>

-----------------------------------------------------------------------------
(* n4c_stack_poll: frames, one RecvX step each, then tcp_tick. *)

(* tcp_find: an INIT socket has no peer yet and matches nothing. *)
Found == cb.active /\ cb.state # "INIT"

RecvStray(seg) ==
    /\ ~Found
    /\ IF "RST" \notin seg.flags /\ arp
       THEN Transmit(<<Packet(seg.ack, Plus(seg.seq, 1), {"RST", "ACK"}, <<>>)>>)
       ELSE UNCHANGED toPeer
    /\ UNCHANGED <<cb, reg>>

RecvRst(seg) ==
    /\ Found
    /\ "RST" \in seg.flags
    /\ cb' = [cb EXCEPT !.active = FALSE, !.state = "CLOSED"]
    /\ reg' = stack_tcp_state(reg, "CLOSED")
    /\ UNCHANGED toPeer

RecvListen(seg) ==
    /\ Found /\ "RST" \notin seg.flags
    /\ cb.state = "LISTEN"
    /\ IF "SYN" \in seg.flags
       THEN /\ reg' = stack_tcp_state(reg, "SYNRECV")
            /\ \E isn \in Isns, ok \in TxResults :
                 LET rcv == Plus(seg.seq, 1)
                 IN /\ cb' = [cb EXCEPT !.state = "SYNRECV", !.peerMacKnown = TRUE,
                                        !.rcvNxt = rcv, !.sndUna = isn,
                                        !.sndNxt = IF ok THEN Plus(isn, 1) ELSE isn]
                    /\ IF ok THEN Transmit(<<Packet(isn, rcv, {"SYN", "ACK"}, <<>>)>>)
                             ELSE UNCHANGED toPeer
       ELSE UNCHANGED <<cb, reg, toPeer>>

RecvSynSent(seg) ==
    LET rcv == Plus(seg.seq, 1)
        synAck == {"SYN", "ACK"} \subseteq seg.flags /\ seg.ack = cb.sndNxt
    IN  /\ Found /\ "RST" \notin seg.flags
        /\ cb.state = "SYNSENT"
        /\ \/ /\ synAck
              /\ cb' = [cb EXCEPT !.state = "ESTABLISHED", !.peerMacKnown = TRUE,
                                  !.rcvNxt = rcv, !.sndUna = seg.ack]
              /\ reg' = stack_tcp_state(reg, "ESTABLISHED")
              /\ Transmit(<<Packet(cb.sndNxt, rcv, {"ACK"}, <<>>)>>)
           \/ /\ ~synAck /\ "SYN" \in seg.flags        \* simultaneous open
              /\ reg' = stack_tcp_state(reg, "SYNRECV")
              /\ \E ok \in TxResults :
                   LET sent == Resolved /\ ok
                   IN /\ cb' = [cb EXCEPT !.state = "SYNRECV", !.rcvNxt = rcv,
                                          !.peerMacKnown = Resolved,
                                          !.sndNxt = IF sent THEN Plus(@, 1) ELSE @]
                      /\ IF sent
                         THEN Transmit(<<Packet(cb.sndNxt, rcv, {"SYN", "ACK"}, <<>>)>>)
                         ELSE UNCHANGED toPeer
           \/ "SYN" \notin seg.flags /\ UNCHANGED <<cb, reg, toPeer>>

RecvSynRecv(seg) ==
    /\ Found /\ "RST" \notin seg.flags
    /\ cb.state = "SYNRECV"
    /\ IF "ACK" \in seg.flags /\ seg.ack = cb.sndNxt
       THEN /\ cb' = [cb EXCEPT !.state = "ESTABLISHED", !.sndUna = seg.ack]
            /\ reg' = stack_tcp_state(reg, "ESTABLISHED")
       ELSE UNCHANGED <<cb, reg>>
    /\ UNCHANGED toPeer

(* How many of the segment's bytes go to the RX ring: in-order data, as    *)
(* far as the ring has room.                                               *)
Taken(seg) ==
    IF seg.seq = cb.rcvNxt THEN AtMost(Len(seg.data), BufSize - Len(rx)) ELSE 0

RcvAfterData(seg) == Plus(cb.rcvNxt, Taken(seg))

(* u32 comparison, without regard for the wrap of sequence numbers. *)
NewAck(seg) == "ACK" \in seg.flags /\ seg.ack > cb.sndUna

Releases(seg) ==
    /\ NewAck(seg)
    /\ cb.retxBuf # <<>>
    /\ seg.ack >= Plus(cb.retxSeq, Len(cb.retxBuf))

(* A segment of an open stream: in-order data goes to the RX ring as far   *)
(* as it has room, then the acknowledgement, then the FIN bit.             *)
RecvStream(seg) ==
    LET taken   == Taken(seg)
        rcv1    == RcvAfterData(seg)
        reAck   == seg.data # <<>> /\ (seg.seq = cb.rcvNxt => taken > 0)
        done    == Releases(seg)
        fin     == "FIN" \in seg.flags
        rcv2    == IF fin THEN Plus(rcv1, 1) ELSE rcv1
        finAcked == /\ cb.state = "LAST_ACK"
                    /\ cb.finSent /\ "ACK" \in seg.flags /\ seg.ack = cb.sndNxt
        next    == IF fin THEN IF cb.state \in {"ESTABLISHED", "CLOSE_WAIT"}
                               THEN "CLOSE_WAIT" ELSE "CLOSED"
                          ELSE IF finAcked THEN "CLOSED" ELSE cb.state
        acks    == (IF reAck THEN <<Packet(cb.sndNxt, rcv1, {"ACK"}, <<>>)>> ELSE <<>>)
                   \o (IF fin THEN <<Packet(cb.sndNxt, rcv2, {"ACK"}, <<>>)>> ELSE <<>>)
        reg1    == stack_tcp_data(reg, taken)
        reg2    == IF done THEN stack_tcp_ack(reg1, Len(cb.retxBuf)) ELSE reg1
        reg3    == IF fin /\ cb.state = "FIN_WAIT"
                   THEN stack_tcp_state(reg2, "TIME_WAIT") ELSE reg2
    IN  /\ Found /\ "RST" \notin seg.flags
        /\ cb.state \in Streaming
        /\ rx' = rx \o SubSeq(seg.data, 1, taken)
        /\ cb' = [cb EXCEPT !.rcvNxt = rcv2,
                            !.sndUna = IF NewAck(seg) THEN seg.ack ELSE @,
                            !.retxBuf = IF done THEN <<>> ELSE @,
                            !.retxCount = IF done THEN 0 ELSE @,
                            !.peerMacKnown = @ \/ (acks # <<>> /\ arp),
                            !.state = next, !.active = (next # "CLOSED")]
        /\ reg' = IF next # cb.state THEN stack_tcp_state(reg3, next) ELSE reg3
        /\ IF Resolved THEN Transmit(acks) ELSE UNCHANGED toPeer

handle_tcp(seg) ==
    /\ polling' = TRUE
    /\ \/ /\ \/ RecvStray(seg) \/ RecvRst(seg) \/ RecvListen(seg)
             \/ RecvSynSent(seg) \/ RecvSynRecv(seg)
          /\ UNCHANGED rx
       \/ RecvStream(seg)
    /\ UNCHANGED <<arp, await>>

(* An ARP reply drained by the poll fills the cache; entries also expire. *)
ArpLearn ==
    /\ ~arp /\ arp' = TRUE
    /\ polling' = TRUE
    /\ UNCHANGED <<cb, reg, rx, await, toPeer>>

ArpExpire ==
    /\ arp /\ arp' = FALSE
    /\ UNCHANGED <<cb, reg, rx, await, polling, toPeer>>

-----------------------------------------------------------------------------
(* tcp_tick: one tick of the retransmission timer ends every poll. *)

SynPending == cb.active /\ cb.state = "SYNSENT" /\ cb.sndNxt = cb.sndUna
DataPending == cb.active /\ cb.retxBuf # <<>>
Expires == cb.retxTimer <= 1
LastRetry == cb.retxCount + 1 > RetxMax

TickWait ==
    /\ SynPending \/ DataPending
    /\ ~Expires
    /\ cb' = [cb EXCEPT !.retxTimer = @ - 1]
    /\ UNCHANGED <<reg, toPeer>>

TickGiveUp ==
    /\ SynPending \/ DataPending
    /\ Expires /\ LastRetry
    /\ cb' = [cb EXCEPT !.active = FALSE, !.retxTimer = RetxFrames,
                        !.retxCount = @ + 1, !.retxBuf = <<>>]
    /\ reg' = stack_tcp_state(reg, "CLOSED")
    /\ UNCHANGED toPeer

(* The SYN is sent again; snd_nxt is pinned to snd_una + 1 either way. *)
TickSyn ==
    /\ SynPending
    /\ Expires /\ ~LastRetry
    /\ cb' = [cb EXCEPT !.retxTimer = RetxFrames, !.retxCount = @ + 1,
                        !.peerMacKnown = Resolved, !.sndNxt = Plus(cb.sndUna, 1)]
    /\ \E ok \in TxResults :
         IF Resolved /\ ok THEN Transmit(<<Packet(cb.sndNxt, cb.rcvNxt, {"SYN"}, <<>>)>>)
                           ELSE UNCHANGED toPeer
    /\ UNCHANGED reg

TickData ==
    /\ DataPending /\ ~SynPending
    /\ Expires /\ ~LastRetry
    /\ cb' = [cb EXCEPT !.retxTimer = RetxFrames, !.retxCount = @ + 1,
                        !.peerMacKnown = Resolved]
    /\ \E ok \in TxResults :
         IF Resolved /\ ok
         THEN Transmit(<<Packet(cb.retxSeq, cb.rcvNxt, {"ACK"}, cb.retxBuf)>>)
         ELSE UNCHANGED toPeer
    /\ UNCHANGED reg

TickIdle ==
    /\ ~SynPending /\ ~DataPending
    /\ UNCHANGED <<cb, reg, toPeer>>

tcp_tick ==
    /\ polling' = FALSE
    /\ TickWait \/ TickGiveUp \/ TickSyn \/ TickData \/ TickIdle
    /\ UNCHANGED <<rx, arp, await>>

-----------------------------------------------------------------------------
Guest ==
    \/ CmdOpen \/ CmdListen \/ CmdConnect \/ CmdDiscon \/ CmdClose
    \/ \E n \in 0 .. MaxBytes : CmdSend(n)
    \/ \E n \in 1 .. BufSize : CmdRecv(n)
    \/ \E bits \in SUBSET reg.ir : ClearIr(bits)

Next == \/ Guest
        \/ \E seg \in Segments : handle_tcp(seg)
        \/ ArpLearn \/ ArpExpire
        \/ tcp_tick

Spec == Init /\ [][Next]_vars

(* The same with a guest that may write MR.RST between two polls. *)
ResetSpec == Init /\ [][Next \/ SoftReset]_vars

-----------------------------------------------------------------------------
(* Properties *)

(* Every variable of the control block, the registers and the rings keeps  *)
(* its range: the structs of n4c_stack.c and the register file.            *)
TypeOK ==
    /\ cb \in TcpCb
    /\ reg \in SockRegs
    /\ rx \in Seq(Nat)
    /\ arp \in BOOLEAN /\ await \in BOOLEAN /\ polling \in BOOLEAN
    /\ toPeer \in Seq(Segment)

(* Sn_SR is the state of the control block as long as the stack owns the   *)
(* socket: no handler moves one without the other.                         *)
StatusMirrorsStack == cb.active => reg.sr = cb.state

(* RX_RSR, the count the driver reads, is the number of unread bytes in    *)
(* the ring, and the ring is never overfilled.                             *)
RxRingSound ==
    reg.rxRsr = Len(rx) /\ Len(rx) <= BufSize

(* TX_RD never passes TX_WR, whatever mix of refused SENDs, late           *)
(* acknowledgements and reopened sockets: the unacknowledged segment is    *)
(* always part of what the TX ring holds, and TX_FSR is the free space.    *)
TxRingSound ==
    cb.active => /\ Len(cb.retxBuf) <= reg.txWr - reg.txRd
                 /\ reg.txWr - reg.txRd <= BufSize
                 /\ reg.txFsr = BufSize - (reg.txWr - reg.txRd)

(* SEND_OK is never up while a segment is unacknowledged, and is only up   *)
(* for a driver that waits for it: no second SEND overwrites the           *)
(* retransmit buffer, no old SEND_OK answers a new SEND, and a buffer left *)
(* from one connection never reaches a next one begun with OPEN or CONNECT *)
(* (a LISTEN in mid-connection keeps it: n4c_stack_tcp_listen).            *)
SendOkMeansAcked ==
    cb.active => /\ cb.retxBuf # <<>> => /\ await /\ "SEND_OK" \notin reg.ir
                                         /\ cb.state \notin {"INIT", "SYNSENT"}
                 /\ "SEND_OK" \in reg.ir => await

(* The driver learns of a new connection exactly from a handshake, and CON *)
(* comes up with it: Sn_SR becomes ESTABLISHED only from SYNSENT or        *)
(* SYNRECV.                                                                *)
EstablishedByHandshake ==
    [][reg'.sr = "ESTABLISHED" /\ reg.sr # "ESTABLISHED"
        => /\ reg.sr \in {"SYNSENT", "SYNRECV"}
           /\ "CON" \in reg'.ir]_vars

(* A socket that reads CLOSED has no life of its own: whatever segment,    *)
(* timer or ARP answer comes, Sn_SR leaves CLOSED only by the driver's own *)
(* OPEN, LISTEN or CONNECT (the stack forgets a socket it reports closed). *)
ClosedStaysClosed ==
    [][reg.sr = "CLOSED" /\ reg'.sr # "CLOSED"
        => CmdOpen \/ CmdListen \/ CmdConnect]_vars
=============================================================================
