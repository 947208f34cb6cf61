---------------------------- MODULE N4cTcp_proofs ---------------------------
(***************************************************************************)
(* Proofs about the Net4CPC TCP socket of N4cTcp, for every ring size, MSS,*)
(* retry limit, sequence-number modulus and set of arriving segments.      *)
(***************************************************************************)
EXTENDS N4cTcp, TLAPS

(* Sequence-number arithmetic stays in range. *)
LEMMA PlusType == \A a \in Int : \A n \in Int : Plus(a, n) \in SeqNum
  BY NumAssumption DEF Plus, SeqNum

(* The smaller of two integers. *)
LEMMA AtMostType ==
  \A a, b \in Int : AtMost(a, b) \in {a, b} /\ AtMost(a, b) <= a /\ AtMost(a, b) <= b
  BY DEF AtMost

(* One segment is a sequence of segments. *)
LEMMA PacketType ==
  \A seq, ack \in SeqNum : \A flags \in SUBSET Flags : \A data \in Seq(Nat) :
    <<Packet(seq, ack, flags, data)>> \in Seq(Segment)
  <1> TAKE seq \in SeqNum, ack \in SeqNum
  <1> TAKE flags \in SUBSET Flags
  <1> TAKE data \in Seq(Nat)
  <1>1. Packet(seq, ack, flags, data) \in Segment
    BY DEF Packet, Segment
  <1> QED BY <1>1

(* An empty ring and an empty wire have their types.                       *)
LEMMA EmptySeq == <<>> \in Seq(Nat) /\ Len(<<>>) = 0 /\ <<>> \in Seq(Segment)
  OBVIOUS

(* Putting frames on the wire keeps it a sequence of segments. *)
LEMMA TransmitType ==
  ASSUME NEW segs \in Seq(Segment), toPeer \in Seq(Segment), Transmit(segs)
  PROVE  toPeer' \in Seq(Segment)
  <1> DEFINE all == toPeer \o segs
  <1>1. all \in Seq(Segment)
    OBVIOUS
  <1>2. AtMost(Len(all), WireCap) \in 0 .. Len(all)
    BY <1>1, AtMostType, NumAssumption
  <1>3. SubSeq(all, 1, AtMost(Len(all), WireCap)) \in Seq(Segment)
    BY <1>1, <1>2
  <1> QED BY <1>3 DEF Transmit

-----------------------------------------------------------------------------
(* The registers' callbacks keep the register types. *)

(* tcp_set_state reaches Sn_SR and Sn_IR only, and leaves SEND_OK alone.   *)
LEMMA StateCallbackType ==
  ASSUME NEW r \in SockRegs, NEW new \in SockStatus
  PROVE  /\ stack_tcp_state(r, new) \in SockRegs
         /\ stack_tcp_state(r, new).sr = new
         /\ stack_tcp_state(r, new).txRd = r.txRd
         /\ stack_tcp_state(r, new).txWr = r.txWr
         /\ stack_tcp_state(r, new).txFsr = r.txFsr
         /\ stack_tcp_state(r, new).rxRsr = r.rxRsr
         /\ "SEND_OK" \in stack_tcp_state(r, new).ir <=> "SEND_OK" \in r.ir
  <1> DEFINE ir == r.ir \cup (IF new = "ESTABLISHED" /\ r.sr # new THEN {"CON"} ELSE {})
                        \cup (IF new = "CLOSED" /\ r.sr # new THEN {"DISCON"} ELSE {})
  <1>1. ir \in SUBSET IrBits /\ ("SEND_OK" \in ir <=> "SEND_OK" \in r.ir)
    BY DEF SockRegs, IrBits
  <1>2. stack_tcp_state(r, new) = [r EXCEPT !.sr = new, !.ir = ir]
    BY DEF stack_tcp_state
  <1> HIDE DEF ir
  <1> QED BY <1>1, <1>2 DEF SockRegs

(* Data for the guest moves RX_RSR by its length and raises no SEND_OK.    *)
LEMMA DataCallbackType ==
  ASSUME NEW r \in SockRegs, NEW n \in Nat, rx \in Seq(Nat)
  PROVE  /\ stack_tcp_data(r, n) \in SockRegs
         /\ stack_tcp_data(r, n).sr = r.sr
         /\ stack_tcp_data(r, n).txRd = r.txRd
         /\ stack_tcp_data(r, n).txWr = r.txWr
         /\ stack_tcp_data(r, n).txFsr = r.txFsr
         /\ r.rxRsr = Len(rx) => stack_tcp_data(r, n).rxRsr = Len(rx) + n
         /\ "SEND_OK" \in stack_tcp_data(r, n).ir <=> "SEND_OK" \in r.ir
  <1> DEFINE ir == r.ir \cup {"RECV"}
             rsr == Len(rx) + n
  <1>1. ir \in SUBSET IrBits /\ ("SEND_OK" \in ir <=> "SEND_OK" \in r.ir)
    BY DEF SockRegs, IrBits
  <1>2. rsr \in Nat /\ Len(rx) \in Nat
    OBVIOUS
  <1>3. n # 0 => stack_tcp_data(r, n) = [r EXCEPT !.rxRsr = rsr, !.ir = ir]
    BY DEF stack_tcp_data
  <1>4. n = 0 => stack_tcp_data(r, n) = r
    BY DEF stack_tcp_data
  <1>5. n = 0 => rsr = Len(rx)
    BY <1>2
  <1> HIDE DEF ir, rsr
  <1>6. CASE n = 0
    <2>1. r.rxRsr = Len(rx) => r.rxRsr = rsr
      BY <1>5, <1>6
    <2> QED BY <1>4, <1>6, <2>1 DEF rsr
  <1>7. CASE n # 0
    <2>1. stack_tcp_data(r, n).rxRsr = Len(rx) + n
      BY <1>3, <1>7 DEF SockRegs, rsr
    <2> QED BY <1>1, <1>2, <1>3, <1>7, <2>1 DEF SockRegs
  <1> QED BY <1>6, <1>7

(* An acknowledgement moves TX_RD by its length and TX_FSR with it.        *)
LEMMA AckCallbackType ==
  ASSUME NEW r \in SockRegs, NEW n \in Nat
  PROVE  /\ stack_tcp_ack(r, n) \in SockRegs
         /\ stack_tcp_ack(r, n).sr = r.sr
         /\ stack_tcp_ack(r, n).txRd = r.txRd + n
         /\ stack_tcp_ack(r, n).txWr = r.txWr
         /\ stack_tcp_ack(r, n).txFsr = BufSize - (r.txWr - (r.txRd + n))
         /\ stack_tcp_ack(r, n).rxRsr = r.rxRsr
  <1> DEFINE ir == r.ir \cup {"SEND_OK"}
             rd == r.txRd + n
             fsr == BufSize - (r.txWr - rd)
  <1>1. ir \in SUBSET IrBits /\ rd \in Nat /\ fsr \in Int
    BY NumAssumption DEF SockRegs, IrBits
  <1>2. stack_tcp_ack(r, n) = [r EXCEPT !.txRd = rd, !.txFsr = fsr, !.ir = ir]
    BY DEF stack_tcp_ack
  <1>3. fsr = BufSize - (r.txWr - (r.txRd + n)) /\ rd = r.txRd + n
    OBVIOUS
  <1> HIDE DEF ir, rd, fsr
  <1>4. /\ stack_tcp_ack(r, n) \in SockRegs
        /\ stack_tcp_ack(r, n).sr = r.sr
        /\ stack_tcp_ack(r, n).txRd = rd
        /\ stack_tcp_ack(r, n).txWr = r.txWr
        /\ stack_tcp_ack(r, n).txFsr = fsr
        /\ stack_tcp_ack(r, n).rxRsr = r.rxRsr
    BY <1>1, <1>2 DEF SockRegs
  <1> QED BY <1>3, <1>4

-----------------------------------------------------------------------------
(* Types and the RX ring *)

TypeRx == TypeOK /\ RxRingSound

(* A control block and registers after memset have their types.            *)
LEMMA ClearedType == ClearedCb \in TcpCb /\ ClearedRegs \in SockRegs
  <1>1. 0 \in SeqNum
    BY NumAssumption DEF SeqNum
  <1> QED BY <1>1, EmptySeq DEF ClearedCb, ClearedRegs, TcpCb, SockRegs, SockStatus

(* The invariant holds after power-on.                                     *)
LEMMA InitTypeRx == Init => TypeRx
  <1> SUFFICES ASSUME Init PROVE TypeRx
    OBVIOUS
  <1>1. reg.rxRsr = 0
    BY DEF Init, ClearedRegs
  <1>2. Len(rx) = 0 /\ 0 <= BufSize
    BY EmptySeq, NumAssumption DEF Init
  <1> QED BY <1>1, <1>2, ClearedType, EmptySeq DEF Init, TypeRx, TypeOK, RxRingSound

(* What a SEND puts in the retransmit buffer: bytes, at most Mss of them. *)
LEMMA SendBuffer ==
  ASSUME TypeOK, NEW len \in Int, len > 0
  PROVE  LET buf == [i \in 1 .. AtMost(len, Mss) |-> reg.txRd + i]
         IN  buf \in Seq(Nat) /\ Len(buf) \in 1 .. len
  <1> DEFINE k == AtMost(len, Mss)
  <1>1. k \in Nat /\ k >= 1 /\ k <= len
    BY NumAssumption DEF AtMost
  <1>2. reg.txRd \in Nat
    BY DEF TypeOK, SockRegs
  <1> HIDE DEF k
  <1>3. [i \in 1 .. k |-> reg.txRd + i] \in Seq(Nat)
    BY <1>1, <1>2
  <1>4. Len([i \in 1 .. k |-> reg.txRd + i]) = k
    BY <1>1, <1>2
  <1> QED BY <1>1, <1>3, <1>4 DEF k

(* The commands of the driver, except SEND, keep types and RX ring.        *)
LEMMA CommandsTypeRx ==
  ASSUME TypeRx,
         \/ CmdOpen \/ CmdListen \/ CmdConnect \/ CmdDiscon \/ CmdClose \/ SoftReset
         \/ \E n \in 1 .. BufSize : CmdRecv(n)
         \/ \E bits \in SUBSET reg.ir : ClearIr(bits)
  PROVE  TypeRx'
  <1> USE DEF TypeRx, TypeOK, RxRingSound
  <1>1. CASE CmdOpen
    <2>1. cb' \in TcpCb
      BY <1>1, ClearedType DEF CmdOpen, TcpCb, SockStatus
    <2>2. reg' \in SockRegs /\ reg'.rxRsr = 0
      <3>1. BufSize \in Int /\ "INIT" \in SockStatus /\ ClearedRegs.rxRsr = 0
        BY NumAssumption DEF SockStatus, ClearedRegs
      <3>2. reg' = [ClearedRegs EXCEPT !.sr = "INIT", !.txFsr = BufSize]
        BY <1>1 DEF CmdOpen
      <3> QED BY <3>1, <3>2, ClearedType DEF SockRegs
    <2>3. rx' = <<>> /\ Len(rx') = 0 /\ 0 <= BufSize
      BY <1>1, EmptySeq, NumAssumption DEF CmdOpen
    <2> QED BY <1>1, <2>1, <2>2, <2>3, EmptySeq DEF CmdOpen
  <1>2. CASE CmdListen
    BY <1>2 DEF CmdListen, TcpCb, SockRegs, SockStatus
  <1>3. CASE CmdConnect
    <2>1. reg' \in SockRegs /\ reg'.rxRsr = reg.rxRsr
      BY <1>3 DEF CmdConnect, SockRegs, SockStatus
    <2>2. CASE ~cb.active
      BY <1>3, <2>1, <2>2 DEF CmdConnect
    <2>3. CASE cb.active
      <3>1. PICK isn \in Isns, ok \in TxResults :
               /\ cb' = [cb EXCEPT !.state = "SYNSENT", !.peerMacKnown = arp,
                                   !.sndUna = isn,
                                   !.sndNxt = IF arp /\ ok THEN Plus(isn, 1) ELSE isn,
                                   !.rcvNxt = 0, !.retxBuf = <<>>,
                                   !.retxTimer = RetxFrames, !.retxCount = 0]
               /\ IF arp /\ ok THEN Transmit(<<Packet(isn, 0, {"SYN"}, <<>>)>>)
                               ELSE UNCHANGED toPeer
        BY <1>3, <2>3 DEF CmdConnect
      <3>2. isn \in SeqNum /\ 0 \in SeqNum /\ Plus(isn, 1) \in SeqNum
        <4>1. isn \in SeqNum
          BY SetAssumption
        <4>2. isn \in Int /\ 0 \in SeqNum
          BY <4>1, NumAssumption DEF SeqNum
        <4> QED BY <4>1, <4>2, PlusType
      <3>3. cb' \in TcpCb
        <4>1. RetxFrames \in Nat /\ "SYNSENT" \in SockStatus
          BY NumAssumption DEF SockStatus
        <4> QED BY <3>1, <3>2, <4>1, EmptySeq DEF TcpCb
      <3>4. <<Packet(isn, 0, {"SYN"}, <<>>)>> \in Seq(Segment)
        BY <3>2, PacketType, EmptySeq DEF Flags
      <3>5. toPeer' \in Seq(Segment)
        BY <3>1, <3>4, TransmitType
      <3> QED BY <1>3, <2>1, <3>3, <3>5 DEF CmdConnect
    <2> QED BY <2>2, <2>3
  <1>4. CASE CmdDiscon
    <2> DEFINE next == IF cb.state = "ESTABLISHED" THEN "FIN_WAIT" ELSE "LAST_ACK"
    <2>1. next \in SockStatus
      BY DEF SockStatus
    <2>2. reg' \in SockRegs /\ reg'.rxRsr = reg.rxRsr
      <3>1. reg' = stack_tcp_state(reg, next) /\ reg \in SockRegs
        BY <1>4 DEF CmdDiscon
      <3> HIDE DEF next
      <3> QED BY <2>1, <3>1, StateCallbackType
    <2>3. PICK ok \in TxResults :
            /\ cb' = [cb EXCEPT !.state = next, !.finSent = TRUE,
                                !.peerMacKnown = Resolved,
                                !.sndNxt = IF Resolved /\ ok THEN Plus(@, 1) ELSE @]
            /\ IF Resolved /\ ok
               THEN Transmit(<<Packet(cb.sndNxt, cb.rcvNxt, {"FIN", "ACK"}, <<>>)>>)
               ELSE UNCHANGED toPeer
      BY <1>4 DEF CmdDiscon
    <2>4. cb.sndNxt \in SeqNum /\ cb.rcvNxt \in SeqNum /\ Plus(cb.sndNxt, 1) \in SeqNum
      BY PlusType DEF TcpCb, SeqNum
    <2>5. cb' \in TcpCb
      BY <2>1, <2>3, <2>4 DEF TcpCb, Resolved
    <2>6. <<Packet(cb.sndNxt, cb.rcvNxt, {"FIN", "ACK"}, <<>>)>> \in Seq(Segment)
      BY <2>4, PacketType, EmptySeq DEF Flags
    <2>7. toPeer' \in Seq(Segment)
      BY <2>3, <2>6, TransmitType
    <2> QED BY <1>4, <2>2, <2>5, <2>7 DEF CmdDiscon
  <1>5. CASE CmdClose
    <2>1. cb' \in TcpCb
      BY <1>5 DEF CmdClose, TcpCb, SockStatus
    <2>2. stack_tcp_state(reg, "CLOSED") \in SockRegs
      BY StateCallbackType DEF SockStatus
    <2>3. reg' \in SockRegs /\ reg'.rxRsr = 0
      <3> DEFINE r == IF cb.active THEN stack_tcp_state(reg, "CLOSED") ELSE reg
      <3>1. r \in SockRegs
        BY <2>2
      <3>2. reg' = [r EXCEPT !.sr = "CLOSED", !.rxRsr = 0, !.txFsr = 0]
        BY <1>5 DEF CmdClose
      <3>3. 0 \in Nat /\ 0 \in Int /\ "CLOSED" \in SockStatus
        BY DEF SockStatus
      <3> HIDE DEF r
      <3> QED BY <3>1, <3>2, <3>3 DEF SockRegs
    <2>4. <<Packet(cb.sndNxt, 0, {"RST", "ACK"}, <<>>)>> \in Seq(Segment)
      <3>1. cb.sndNxt \in SeqNum /\ 0 \in SeqNum
        BY NumAssumption DEF TcpCb, SeqNum
      <3> QED BY <3>1, PacketType, EmptySeq DEF Flags
    <2>5. toPeer' \in Seq(Segment)
      BY <1>5, <2>4, TransmitType DEF CmdClose
    <2>6. rx' = <<>> /\ Len(rx') = 0 /\ 0 <= BufSize
      BY <1>5, EmptySeq, NumAssumption DEF CmdClose
    <2> QED BY <1>5, <2>1, <2>3, <2>5, <2>6, EmptySeq DEF CmdClose
  <1>6. CASE SoftReset
    <2>1. reg'.rxRsr = 0
      BY <1>6 DEF SoftReset, ClearedRegs
    <2>2. rx' = <<>> /\ Len(rx') = 0 /\ 0 <= BufSize
      BY <1>6, EmptySeq, NumAssumption DEF SoftReset
    <2> QED BY <1>6, <2>1, <2>2, ClearedType, EmptySeq DEF SoftReset
  <1>7. CASE \E n \in 1 .. BufSize : CmdRecv(n)
    <2> PICK n \in 1 .. BufSize : CmdRecv(n)
      BY <1>7
    <2>1. n \in 1 .. Len(rx)
      BY DEF CmdRecv
    <2>2. rx' \in Seq(Nat) /\ Len(rx') = Len(rx) - n
      <3>1. rx' = SubSeq(rx, n + 1, Len(rx)) /\ rx \in Seq(Nat) /\ n + 1 \in 1 .. Len(rx) + 1
        BY <2>1 DEF CmdRecv
      <3> QED BY <2>1, <3>1
    <2>3. reg' \in SockRegs /\ reg'.rxRsr = Len(rx) - n
      <3>1. Len(rx) - n \in Nat
        BY <2>1
      <3>2. reg' = [reg EXCEPT !.rxRsr = Len(rx) - n]
        BY DEF CmdRecv
      <3> QED BY <3>1, <3>2 DEF SockRegs
    <2>4. Len(rx) - n <= BufSize
      BY <2>1, NumAssumption
    <2> QED BY <2>2, <2>3, <2>4 DEF CmdRecv
  <1>8. CASE \E bits \in SUBSET reg.ir : ClearIr(bits)
    BY <1>8 DEF ClearIr, SockRegs
  <1> QED BY <1>1, <1>2, <1>3, <1>4, <1>5, <1>6, <1>7, <1>8

(* SEND keeps types and RX ring.                                           *)
LEMMA SendTypeRx ==
  ASSUME TypeRx, NEW n \in Nat, CmdSend(n)
  PROVE  TypeRx'
  <1> USE DEF TypeRx, TypeOK, RxRingSound
  <1> DEFINE wr  == reg.txWr + n
             len == wr - reg.txRd
             buf == [i \in 1 .. AtMost(len, Mss) |-> reg.txRd + i]
  <1>1. wr \in Nat /\ len \in Int /\ len > 0 /\ BufSize \in Int /\ BufSize - len \in Int
    <2>1. reg.txWr \in Nat /\ reg.txRd \in Nat /\ BufSize \in Int
      BY NumAssumption DEF SockRegs
    <2>2. len > 0
      BY DEF CmdSend
    <2> QED BY <2>1, <2>2
  <1>2. buf \in Seq(Nat) /\ Len(buf) \in Int
    <2> HIDE DEF len
    <2>1. buf \in Seq(Nat) /\ Len(buf) \in 1 .. len
      BY <1>1, SendBuffer
    <2> HIDE DEF buf
    <2> QED BY <2>1, <1>1
  <1>3. /\ cb.sndNxt \in SeqNum /\ cb.rcvNxt \in SeqNum
        /\ Plus(cb.sndNxt, Len(buf)) \in SeqNum
    <2>1. cb.sndNxt \in SeqNum /\ cb.rcvNxt \in SeqNum
      BY DEF TcpCb
    <2>2. cb.sndNxt \in Int
      BY <2>1, NumAssumption DEF SeqNum
    <2> HIDE DEF buf
    <2>3. Plus(cb.sndNxt, Len(buf)) \in SeqNum
      BY <1>2, <2>2, PlusType
    <2> QED BY <2>1, <2>3
  <1>4. CASE cb.active /\ cb.state = "ESTABLISHED"
    <2>1. reg' = [reg EXCEPT !.txWr = wr, !.txFsr = BufSize - len]
      BY <1>4 DEF CmdSend
    <2>2. PICK ok \in TxResults :
            /\ cb' = [cb EXCEPT !.peerMacKnown = Resolved,
                                !.sndNxt = IF Resolved /\ ok THEN Plus(@, Len(buf)) ELSE @,
                                !.retxBuf = buf, !.retxSeq = cb.sndNxt,
                                !.retxTimer = RetxFrames, !.retxCount = 0]
            /\ IF Resolved /\ ok
               THEN Transmit(<<Packet(cb.sndNxt, cb.rcvNxt, {"ACK"}, buf)>>)
               ELSE UNCHANGED toPeer
      BY <1>4 DEF CmdSend, tcp_send
    <2>3. <<Packet(cb.sndNxt, cb.rcvNxt, {"ACK"}, buf)>> \in Seq(Segment)
      BY <1>2, <1>3, PacketType DEF Flags
    <2> HIDE DEF wr, len, buf
    <2>4. reg' \in SockRegs /\ reg'.rxRsr = reg.rxRsr
      BY <1>1, <2>1 DEF SockRegs
    <2>5. cb' \in TcpCb
      <3>1. RetxFrames \in Nat /\ 0 \in Nat /\ Resolved \in BOOLEAN
        BY NumAssumption DEF Resolved, TcpCb
      <3> QED BY <1>2, <1>3, <2>2, <3>1 DEF TcpCb
    <2>6. toPeer' \in Seq(Segment)
      BY <2>2, <2>3, TransmitType
    <2> QED BY <2>4, <2>5, <2>6 DEF CmdSend
  <1>5. CASE ~(cb.active /\ cb.state = "ESTABLISHED")
    <2>1. reg' = [reg EXCEPT !.txWr = wr, !.txRd = wr, !.txFsr = BufSize] /\ UNCHANGED <<cb, toPeer>>
      BY <1>5 DEF CmdSend
    <2> HIDE DEF wr, len, buf
    <2>2. reg' \in SockRegs /\ reg'.rxRsr = reg.rxRsr
      BY <1>1, <2>1 DEF SockRegs
    <2> QED BY <2>1, <2>2 DEF CmdSend
  <1> QED BY <1>4, <1>5

(* The bytes RecvStream takes, and the ring with them. *)
LEMMA StreamTaken ==
  ASSUME TypeRx, NEW seg \in Segment
  PROVE  /\ Taken(seg) \in Nat
         /\ Taken(seg) <= Len(seg.data)
         /\ Len(rx) + Taken(seg) <= BufSize
         /\ rx \o SubSeq(seg.data, 1, Taken(seg)) \in Seq(Nat)
         /\ Len(rx \o SubSeq(seg.data, 1, Taken(seg))) = Len(rx) + Taken(seg)
  <1>1. seg.data \in Seq(Nat) /\ Len(seg.data) \in Nat
    BY DEF Segment
  <1>2. rx \in Seq(Nat) /\ Len(rx) \in Nat /\ Len(rx) <= BufSize
    BY DEF TypeRx, TypeOK, RxRingSound
  <1>3. Taken(seg) \in Nat /\ Taken(seg) <= Len(seg.data) /\ Len(rx) + Taken(seg) <= BufSize
    BY <1>1, <1>2, NumAssumption DEF AtMost, Taken
  <1>4. SubSeq(seg.data, 1, Taken(seg)) \in Seq(Nat) /\ Len(SubSeq(seg.data, 1, Taken(seg))) = Taken(seg)
    BY <1>1, <1>3
  <1>5. /\ rx \o SubSeq(seg.data, 1, Taken(seg)) \in Seq(Nat)
        /\ Len(rx \o SubSeq(seg.data, 1, Taken(seg))) = Len(rx) + Taken(seg)
    BY <1>2, <1>4
  <1> QED BY <1>3, <1>5

(* A segment of an open connection keeps types and RX ring.                *)
LEMMA StreamTypeRx ==
  ASSUME TypeRx, NEW seg \in Segment, RecvStream(seg)
  PROVE  /\ cb' \in TcpCb /\ reg' \in SockRegs
         /\ rx' \in Seq(Nat) /\ toPeer' \in Seq(Segment)
         /\ RxRingSound'
  <1> USE DEF TypeRx, TypeOK
  <1> DEFINE
        taken   == Taken(seg)
        rcv1    == RcvAfterData(seg)
        reAck   == seg.data # <<>> /\ (seg.seq = cb.rcvNxt => taken > 0)
        done    == Releases(seg)
        fin     == "FIN" \in seg.flags
        rcv2    == IF fin THEN Plus(rcv1, 1) ELSE rcv1
        finAcked == /\ cb.state = "LAST_ACK"
                    /\ cb.finSent /\ "ACK" \in seg.flags /\ seg.ack = cb.sndNxt
        next    == IF fin THEN IF cb.state \in {"ESTABLISHED", "CLOSE_WAIT"}
                               THEN "CLOSE_WAIT" ELSE "CLOSED"
                          ELSE IF finAcked THEN "CLOSED" ELSE cb.state
        acks    == (IF reAck THEN <<Packet(cb.sndNxt, rcv1, {"ACK"}, <<>>)>> ELSE <<>>)
                   \o (IF fin THEN <<Packet(cb.sndNxt, rcv2, {"ACK"}, <<>>)>> ELSE <<>>)
        reg1    == stack_tcp_data(reg, taken)
        reg2    == IF done THEN stack_tcp_ack(reg1, Len(cb.retxBuf)) ELSE reg1
        reg3    == IF fin /\ cb.state = "FIN_WAIT"
                   THEN stack_tcp_state(reg2, "TIME_WAIT") ELSE reg2
  <1>1. /\ taken \in Nat /\ Len(rx) + taken <= BufSize
        /\ rx \o SubSeq(seg.data, 1, taken) \in Seq(Nat)
        /\ Len(rx \o SubSeq(seg.data, 1, taken)) = Len(rx) + taken
    BY StreamTaken
  <1>2. rx' = rx \o SubSeq(seg.data, 1, taken)
    BY DEF RecvStream
  <1>3. cb' = [cb EXCEPT !.rcvNxt = rcv2,
                         !.sndUna = IF NewAck(seg) THEN seg.ack ELSE @,
                         !.retxBuf = IF done THEN <<>> ELSE @,
                         !.retxCount = IF done THEN 0 ELSE @,
                         !.peerMacKnown = @ \/ (acks # <<>> /\ arp),
                         !.state = next, !.active = (next # "CLOSED")]
    BY DEF RecvStream
  <1>4. reg' = IF next # cb.state THEN stack_tcp_state(reg3, next) ELSE reg3
    BY DEF RecvStream
  <1>5. IF Resolved THEN Transmit(acks) ELSE UNCHANGED toPeer
    BY DEF RecvStream
  <1>6. /\ seg.ack \in SeqNum /\ cb.sndNxt \in SeqNum
        /\ cb.rcvNxt \in Int /\ Len(cb.retxBuf) \in Nat
    BY NumAssumption DEF Segment, TcpCb, SeqNum
  <1> HIDE DEF taken
  <1>7. rcv1 \in SeqNum /\ rcv1 \in Int
    <2>1. Taken(seg) \in Int
      BY StreamTaken
    <2>2. rcv1 \in SeqNum
      BY <1>6, <2>1, PlusType DEF RcvAfterData
    <2> HIDE DEF rcv1
    <2> QED BY <2>2, NumAssumption DEF SeqNum
  <1> HIDE DEF rcv1
  <1>8. rcv2 \in SeqNum
    BY <1>7, PlusType
  <1> HIDE DEF rcv2
  <1>9. next \in SockStatus
    BY DEF TcpCb, SockStatus
  <1>10. acks \in Seq(Segment)
    <2>1. /\ <<Packet(cb.sndNxt, rcv1, {"ACK"}, <<>>)>> \in Seq(Segment)
          /\ <<Packet(cb.sndNxt, rcv2, {"ACK"}, <<>>)>> \in Seq(Segment)
      BY <1>6, <1>7, <1>8, PacketType, EmptySeq DEF Flags
    <2> DEFINE a1 == IF reAck THEN <<Packet(cb.sndNxt, rcv1, {"ACK"}, <<>>)>> ELSE <<>>
               a2 == IF fin THEN <<Packet(cb.sndNxt, rcv2, {"ACK"}, <<>>)>> ELSE <<>>
    <2>2. a1 \in Seq(Segment) /\ a2 \in Seq(Segment)
      BY <2>1, EmptySeq
    <2> HIDE DEF a1, a2
    <2>3. a1 \o a2 \in Seq(Segment)
      BY <2>2
    <2> QED BY <2>3 DEF a1, a2
  <1>11. reg1 \in SockRegs /\ reg1.rxRsr = Len(rx) + taken
    BY <1>1, DataCallbackType DEF RxRingSound
  <1> HIDE DEF reg1
  <1>12. reg2 \in SockRegs /\ reg2.rxRsr = Len(rx) + taken
    BY <1>6, <1>11, AckCallbackType
  <1> HIDE DEF reg2
  <1>13. reg3 \in SockRegs /\ reg3.rxRsr = Len(rx) + taken
    BY <1>12, StateCallbackType DEF SockStatus
  <1> HIDE DEF reg3
  <1>14. reg' \in SockRegs /\ reg'.rxRsr = Len(rx) + taken
    <2> HIDE DEF next
    <2> QED BY <1>4, <1>9, <1>13, StateCallbackType
  <1>15. cb' \in TcpCb
    <2> DEFINE una == IF NewAck(seg) THEN seg.ack ELSE cb.sndUna
               buf == IF done THEN <<>> ELSE cb.retxBuf
               cnt == IF done THEN 0 ELSE cb.retxCount
               mac == cb.peerMacKnown \/ (acks # <<>> /\ arp)
               act == next # "CLOSED"
    <2>1. una \in SeqNum /\ buf \in Seq(Nat) /\ cnt \in Nat
      BY <1>6, EmptySeq DEF TcpCb
    <2>2. mac \in BOOLEAN /\ act \in BOOLEAN
      BY DEF TcpCb
    <2>3. cb' = [cb EXCEPT !.rcvNxt = rcv2, !.sndUna = una, !.retxBuf = buf,
                           !.retxCount = cnt, !.peerMacKnown = mac,
                           !.state = next, !.active = act]
      BY <1>3
    <2> HIDE DEF una, buf, cnt, mac, act, next
    <2> QED BY <1>8, <1>9, <2>1, <2>2, <2>3 DEF TcpCb
  <1>16. toPeer' \in Seq(Segment)
    <2> HIDE DEF acks
    <2> QED BY <1>5, <1>10, TransmitType
  <1> QED BY <1>1, <1>2, <1>14, <1>15, <1>16 DEF RxRingSound

(* The handlers that leave the RX ring alone. *)
LEMMA HandshakeTypeRx ==
  ASSUME TypeRx, NEW seg \in Segment,
         \/ RecvStray(seg) \/ RecvRst(seg) \/ RecvListen(seg)
         \/ RecvSynSent(seg) \/ RecvSynRecv(seg)
  PROVE  /\ cb' \in TcpCb /\ reg' \in SockRegs /\ toPeer' \in Seq(Segment)
         /\ reg'.rxRsr = reg.rxRsr
  <1> USE DEF TypeRx, TypeOK
  <1> DEFINE rcv == Plus(seg.seq, 1)
  <1>1. /\ seg.ack \in SeqNum /\ seg.seq \in SeqNum
        /\ cb.sndNxt \in SeqNum /\ cb.rcvNxt \in SeqNum
    BY DEF Segment, TcpCb
  <1>2. rcv \in SeqNum /\ Plus(cb.sndNxt, 1) \in SeqNum
    <2>1. seg.seq \in Int /\ cb.sndNxt \in Int
      BY <1>1, NumAssumption DEF SeqNum
    <2> QED BY <2>1, PlusType
  <1> HIDE DEF rcv
  <1>3. CASE RecvStray(seg)
    <2>1. <<Packet(seg.ack, rcv, {"RST", "ACK"}, <<>>)>> \in Seq(Segment)
      BY <1>1, <1>2, PacketType, EmptySeq DEF Flags
    <2>2. toPeer' \in Seq(Segment)
      BY <1>3, <2>1, TransmitType DEF RecvStray, rcv
    <2> QED BY <1>3, <2>2 DEF RecvStray
  <1>4. CASE RecvRst(seg)
    <2>1. "CLOSED" \in SockStatus
      BY DEF SockStatus
    <2>2. reg' \in SockRegs /\ reg'.rxRsr = reg.rxRsr
      BY <1>4, <2>1, StateCallbackType DEF RecvRst
    <2>3. cb' \in TcpCb
      BY <1>4, <2>1 DEF RecvRst, TcpCb
    <2> QED BY <1>4, <2>2, <2>3 DEF RecvRst
  <1>5. CASE RecvListen(seg)
    <2>1. CASE "SYN" \in seg.flags
      <3>1. reg' = stack_tcp_state(reg, "SYNRECV")
        BY <1>5, <2>1 DEF RecvListen
      <3>2. PICK isn \in Isns, ok \in TxResults :
              /\ cb' = [cb EXCEPT !.state = "SYNRECV", !.peerMacKnown = TRUE,
                                  !.rcvNxt = rcv, !.sndUna = isn,
                                  !.sndNxt = IF ok THEN Plus(isn, 1) ELSE isn]
              /\ IF ok THEN Transmit(<<Packet(isn, rcv, {"SYN", "ACK"}, <<>>)>>)
                       ELSE UNCHANGED toPeer
        BY <1>5, <2>1 DEF RecvListen, rcv
      <3>3. "SYNRECV" \in SockStatus
        BY DEF SockStatus
      <3>4. isn \in SeqNum /\ Plus(isn, 1) \in SeqNum
        <4>1. isn \in SeqNum
          BY SetAssumption
        <4>2. isn \in Int
          BY <4>1, NumAssumption DEF SeqNum
        <4> QED BY <4>1, <4>2, PlusType
      <3>5. cb' \in TcpCb
        BY <1>2, <3>2, <3>3, <3>4 DEF TcpCb
      <3>6. <<Packet(isn, rcv, {"SYN", "ACK"}, <<>>)>> \in Seq(Segment)
        BY <1>2, <3>4, PacketType, EmptySeq DEF Flags
      <3>7. toPeer' \in Seq(Segment)
        BY <3>2, <3>6, TransmitType
      <3> QED BY <3>1, <3>3, <3>5, <3>7, StateCallbackType
    <2>2. CASE "SYN" \notin seg.flags
      BY <1>5, <2>2 DEF RecvListen
    <2> QED BY <2>1, <2>2
  <1>6. CASE RecvSynSent(seg)
    <2>1. "ESTABLISHED" \in SockStatus /\ "SYNRECV" \in SockStatus
      BY DEF SockStatus
    <2>2. CASE /\ cb' = [cb EXCEPT !.state = "ESTABLISHED", !.peerMacKnown = TRUE,
                                   !.rcvNxt = rcv, !.sndUna = seg.ack]
               /\ reg' = stack_tcp_state(reg, "ESTABLISHED")
               /\ Transmit(<<Packet(cb.sndNxt, rcv, {"ACK"}, <<>>)>>)
      <3>1. cb' \in TcpCb
        BY <1>1, <1>2, <2>1, <2>2 DEF TcpCb
      <3>2. <<Packet(cb.sndNxt, rcv, {"ACK"}, <<>>)>> \in Seq(Segment)
        BY <1>1, <1>2, PacketType, EmptySeq DEF Flags
      <3> QED BY <2>1, <2>2, <3>1, <3>2, TransmitType, StateCallbackType
    <2>3. CASE /\ reg' = stack_tcp_state(reg, "SYNRECV")
               /\ \E ok \in TxResults :
                    LET sent == Resolved /\ ok
                    IN /\ cb' = [cb EXCEPT !.state = "SYNRECV", !.rcvNxt = rcv,
                                           !.peerMacKnown = Resolved,
                                           !.sndNxt = IF sent THEN Plus(@, 1) ELSE @]
                       /\ IF sent
                          THEN Transmit(<<Packet(cb.sndNxt, rcv, {"SYN", "ACK"}, <<>>)>>)
                          ELSE UNCHANGED toPeer
      <3>1. PICK ok \in TxResults :
              /\ cb' = [cb EXCEPT !.state = "SYNRECV", !.rcvNxt = rcv,
                                  !.peerMacKnown = Resolved,
                                  !.sndNxt = IF Resolved /\ ok THEN Plus(@, 1) ELSE @]
              /\ IF Resolved /\ ok
                 THEN Transmit(<<Packet(cb.sndNxt, rcv, {"SYN", "ACK"}, <<>>)>>)
                 ELSE UNCHANGED toPeer
        BY <2>3
      <3>2. cb' \in TcpCb
        BY <1>1, <1>2, <2>1, <3>1 DEF TcpCb, Resolved
      <3>3. <<Packet(cb.sndNxt, rcv, {"SYN", "ACK"}, <<>>)>> \in Seq(Segment)
        BY <1>1, <1>2, PacketType, EmptySeq DEF Flags
      <3>4. toPeer' \in Seq(Segment)
        BY <3>1, <3>3, TransmitType
      <3> QED BY <2>1, <2>3, <3>2, <3>4, StateCallbackType
    <2>4. CASE UNCHANGED <<cb, reg, toPeer>>
      BY <2>4
    <2> QED BY <1>6, <2>2, <2>3, <2>4 DEF RecvSynSent, rcv
  <1>7. CASE RecvSynRecv(seg)
    <2>1. "ESTABLISHED" \in SockStatus
      BY DEF SockStatus
    <2>2. \/ cb' = cb
          \/ cb' = [cb EXCEPT !.state = "ESTABLISHED", !.sndUna = seg.ack]
      BY <1>7 DEF RecvSynRecv
    <2>3. cb' \in TcpCb
      BY <1>1, <2>1, <2>2 DEF TcpCb
    <2> QED BY <1>7, <2>1, <2>3, StateCallbackType DEF RecvSynRecv
  <1> QED BY <1>3, <1>4, <1>5, <1>6, <1>7

(* Whatever segment arrives, its handler keeps types and RX ring.          *)
LEMMA HandlerTypeRx ==
  ASSUME TypeRx, NEW seg \in Segment, handle_tcp(seg)
  PROVE  TypeRx'
  <1>1. seg \in Segment
    OBVIOUS
  <1>2. CASE RecvStream(seg)
    BY <1>1, <1>2, StreamTypeRx DEF handle_tcp, TypeRx, TypeOK
  <1>3. CASE ~RecvStream(seg)
    <2>1. /\ \/ RecvStray(seg) \/ RecvRst(seg) \/ RecvListen(seg)
             \/ RecvSynSent(seg) \/ RecvSynRecv(seg)
          /\ rx' = rx
      BY <1>3 DEF handle_tcp
    <2> QED BY <1>1, <2>1, HandshakeTypeRx DEF handle_tcp, TypeRx, TypeOK, RxRingSound
  <1> QED BY <1>2, <1>3

(* tcp_tick keeps types and RX ring.                                       *)
LEMMA TickTypeRx ==
  ASSUME TypeRx, tcp_tick
  PROVE  TypeRx'
  <1> USE DEF TypeRx, TypeOK
  <1>1. /\ cb.retxCount + 1 \in Nat /\ RetxFrames \in Nat /\ Resolved \in BOOLEAN
        /\ cb.retxTimer \in Nat
    BY NumAssumption DEF TcpCb, Resolved
  <1>2. /\ cb.sndNxt \in SeqNum /\ cb.rcvNxt \in SeqNum /\ cb.retxSeq \in SeqNum
        /\ cb.retxBuf \in Seq(Nat) /\ Plus(cb.sndUna, 1) \in SeqNum
    <2>1. cb.sndUna \in Int
      BY NumAssumption DEF TcpCb, SeqNum
    <2> QED BY <2>1, PlusType DEF TcpCb
  <1>3. /\ cb' \in TcpCb /\ reg' \in SockRegs /\ toPeer' \in Seq(Segment)
        /\ reg'.rxRsr = reg.rxRsr
    <2>1. CASE TickWait
      <3>1. cb.retxTimer - 1 \in Nat
        BY <1>1, <2>1 DEF TickWait, Expires
      <3> QED BY <2>1, <3>1 DEF TickWait, TcpCb
    <2>2. CASE TickGiveUp
      <3>1. cb' \in TcpCb
        BY <1>1, <2>2, EmptySeq DEF TickGiveUp, TcpCb
      <3>2. "CLOSED" \in SockStatus
        BY DEF SockStatus
      <3> QED BY <2>2, <3>1, <3>2, StateCallbackType DEF TickGiveUp
    <2>3. CASE TickSyn
      <3>1. cb' \in TcpCb
        BY <1>1, <1>2, <2>3 DEF TickSyn, TcpCb
      <3>2. <<Packet(cb.sndNxt, cb.rcvNxt, {"SYN"}, <<>>)>> \in Seq(Segment)
        BY <1>2, PacketType, EmptySeq DEF Flags
      <3>3. toPeer' \in Seq(Segment)
        BY <2>3, <3>2, TransmitType DEF TickSyn
      <3> QED BY <2>3, <3>1, <3>3 DEF TickSyn
    <2>4. CASE TickData
      <3>1. cb' \in TcpCb
        BY <1>1, <2>4 DEF TickData, TcpCb
      <3>2. <<Packet(cb.retxSeq, cb.rcvNxt, {"ACK"}, cb.retxBuf)>> \in Seq(Segment)
        BY <1>2, PacketType DEF Flags
      <3>3. toPeer' \in Seq(Segment)
        BY <2>4, <3>2, TransmitType DEF TickData
      <3> QED BY <2>4, <3>1, <3>3 DEF TickData
    <2>5. CASE TickIdle
      BY <2>5 DEF TickIdle
    <2> QED BY <2>1, <2>2, <2>3, <2>4, <2>5 DEF tcp_tick
  <1> QED BY <1>3 DEF tcp_tick, RxRingSound

(* Every step keeps types and RX ring, MR.RST included.                    *)
LEMMA NextTypeRx == TypeRx /\ [Next \/ SoftReset]_vars => TypeRx'
  <1> SUFFICES ASSUME TypeRx, [Next \/ SoftReset]_vars PROVE TypeRx'
    OBVIOUS
  <1>1. ASSUME NEW n \in 0 .. MaxBytes, CmdSend(n) PROVE TypeRx'
    <2>1. n \in Nat
      BY NumAssumption
    <2> QED BY <1>1, <2>1, SendTypeRx
  <1>2. ASSUME NEW seg \in Segments, handle_tcp(seg) PROVE TypeRx'
    BY <1>2, HandlerTypeRx, SetAssumption
  <1>3. CASE tcp_tick
    BY <1>3, TickTypeRx
  <1>4. CASE ArpLearn \/ ArpExpire
    BY <1>4 DEF ArpLearn, ArpExpire, TypeRx, TypeOK, RxRingSound
  <1>5. CASE UNCHANGED vars
    BY <1>5 DEF vars, TypeRx, TypeOK, RxRingSound
  <1> QED BY <1>1, <1>2, <1>3, <1>4, <1>5, CommandsTypeRx DEF Next, Guest

(* Every variable keeps its range, and RX_RSR counts the bytes of a ring   *)
(* that is never overfilled, for every ring size and any segments: data is *)
(* cut to the free space before it is copied and counted.  MR.RST included.*)
THEOREM TypesAndRxRing == ResetSpec => [](TypeOK /\ RxRingSound)
  <1>1. ResetSpec => []TypeRx
    BY InitTypeRx, NextTypeRx, PTL DEF ResetSpec
  <1> QED BY <1>1, PTL DEF TypeRx

(* The same without MR.RST. *)
THEOREM TypesAndRxRingNoReset == Spec => [](TypeOK /\ RxRingSound)
  <1>1. TypeRx /\ [Next]_vars => TypeRx'
    BY NextTypeRx
  <1>2. Spec => []TypeRx
    BY <1>1, InitTypeRx, PTL DEF Spec
  <1> QED BY <1>2, PTL DEF TypeRx

(* Without MR.RST every variable keeps its range, whatever segments,       *)
(* commands and timeouts the socket meets.                                 *)
COROLLARY TypesSound == Spec => []TypeOK
  <1> QED BY TypesAndRxRingNoReset, PTL

-----------------------------------------------------------------------------
(* What the two kinds of handler do to the state, the registers and the    *)
(* retransmit buffer, in the terms of the properties.                      *)

StatusInv == TypeRx /\ StatusMirrorsStack

(* The buffer is untouched, or released with its bytes given back.         *)
KeepsBuffer ==
  /\ cb'.retxBuf = cb.retxBuf
  /\ reg'.txRd = reg.txRd /\ reg'.txFsr = reg.txFsr
  /\ "SEND_OK" \in reg'.ir <=> "SEND_OK" \in reg.ir
ReleasesBuffer ==
  /\ cb.retxBuf # <<>> /\ cb'.retxBuf = <<>>
  /\ reg'.txRd = reg.txRd + Len(cb.retxBuf)
  /\ reg'.txFsr = BufSize - (reg.txWr - reg'.txRd)

(* A segment of an open connection: Sn_SR follows the state, the buffer    *)
(* stays or is released.                                                   *)
LEMMA StreamEffect ==
  ASSUME StatusInv, NEW seg \in Segment, RecvStream(seg)
  PROVE  /\ cb.active /\ cb.state \in Streaming
         /\ reg'.sr = cb'.state /\ reg'.txWr = reg.txWr
         /\ cb'.active => cb'.state \in Streaming
         /\ cb'.state = "ESTABLISHED" => cb.state = "ESTABLISHED"
         /\ KeepsBuffer \/ ReleasesBuffer
  <1> USE DEF StatusInv, TypeRx, TypeOK
  <1> DEFINE
        taken   == Taken(seg)
        rcv1    == RcvAfterData(seg)
        reAck   == seg.data # <<>> /\ (seg.seq = cb.rcvNxt => taken > 0)
        done    == Releases(seg)
        fin     == "FIN" \in seg.flags
        rcv2    == IF fin THEN Plus(rcv1, 1) ELSE rcv1
        finAcked == /\ cb.state = "LAST_ACK"
                    /\ cb.finSent /\ "ACK" \in seg.flags /\ seg.ack = cb.sndNxt
        next    == IF fin THEN IF cb.state \in {"ESTABLISHED", "CLOSE_WAIT"}
                               THEN "CLOSE_WAIT" ELSE "CLOSED"
                          ELSE IF finAcked THEN "CLOSED" ELSE cb.state
        acks    == (IF reAck THEN <<Packet(cb.sndNxt, rcv1, {"ACK"}, <<>>)>> ELSE <<>>)
                   \o (IF fin THEN <<Packet(cb.sndNxt, rcv2, {"ACK"}, <<>>)>> ELSE <<>>)
        reg1    == stack_tcp_data(reg, taken)
        reg2    == IF done THEN stack_tcp_ack(reg1, Len(cb.retxBuf)) ELSE reg1
        reg3    == IF fin /\ cb.state = "FIN_WAIT"
                   THEN stack_tcp_state(reg2, "TIME_WAIT") ELSE reg2
  <1>1. cb.active /\ cb.state \in Streaming
    BY DEF RecvStream, Found
  <1>2. cb' = [cb EXCEPT !.rcvNxt = rcv2,
                         !.sndUna = IF NewAck(seg) THEN seg.ack ELSE @,
                         !.retxBuf = IF done THEN <<>> ELSE @,
                         !.retxCount = IF done THEN 0 ELSE @,
                         !.peerMacKnown = @ \/ (acks # <<>> /\ arp),
                         !.state = next, !.active = (next # "CLOSED")]
    BY DEF RecvStream
  <1>3. reg' = IF next # cb.state THEN stack_tcp_state(reg3, next) ELSE reg3
    BY DEF RecvStream
  <1>4. taken \in Nat /\ Len(cb.retxBuf) \in Nat
    BY StreamTaken DEF TcpCb
  <1> HIDE DEF taken, rcv1, rcv2, acks
  <1>5. /\ cb'.state = next /\ cb'.active = (next # "CLOSED")
        /\ cb'.retxBuf = IF done THEN <<>> ELSE cb.retxBuf
    <2> DEFINE una == IF NewAck(seg) THEN seg.ack ELSE cb.sndUna
               buf == IF done THEN <<>> ELSE cb.retxBuf
               cnt == IF done THEN 0 ELSE cb.retxCount
               mac == cb.peerMacKnown \/ (acks # <<>> /\ arp)
               act == next # "CLOSED"
    <2>1. cb' = [cb EXCEPT !.rcvNxt = rcv2, !.sndUna = una, !.retxBuf = buf,
                           !.retxCount = cnt, !.peerMacKnown = mac,
                           !.state = next, !.active = act]
      BY <1>2
    <2> HIDE DEF una, buf, cnt, mac, act, next
    <2>2. cb'.state = next /\ cb'.active = act /\ cb'.retxBuf = buf
      BY <2>1 DEF TcpCb
    <2> QED BY <2>2 DEF act, buf
  <1>6. next \in Streaming \cup {"CLOSED"} /\ next \in SockStatus
    BY <1>1 DEF Streaming, SockStatus
  <1>7. next = "ESTABLISHED" => cb.state = "ESTABLISHED"
    OBVIOUS
  <1>8. /\ reg1 \in SockRegs /\ reg1.sr = reg.sr
        /\ reg1.txRd = reg.txRd /\ reg1.txWr = reg.txWr /\ reg1.txFsr = reg.txFsr
        /\ "SEND_OK" \in reg1.ir <=> "SEND_OK" \in reg.ir
    BY <1>4, DataCallbackType
  <1> HIDE DEF reg1
  <1>9. /\ reg2 \in SockRegs /\ reg2.sr = reg.sr /\ reg2.txWr = reg.txWr
        /\ done => /\ reg2.txRd = reg.txRd + Len(cb.retxBuf)
                   /\ reg2.txFsr = BufSize - (reg.txWr - (reg.txRd + Len(cb.retxBuf)))
        /\ ~done => /\ reg2.txRd = reg.txRd /\ reg2.txFsr = reg.txFsr
                    /\ "SEND_OK" \in reg2.ir <=> "SEND_OK" \in reg.ir
    <2> HIDE DEF done
    <2>1. CASE done
      <3>1. reg2 = stack_tcp_ack(reg1, Len(cb.retxBuf))
        BY <2>1
      <3> HIDE DEF reg2
      <3>2. /\ reg2 \in SockRegs /\ reg2.sr = reg1.sr /\ reg2.txWr = reg1.txWr
            /\ reg2.txRd = reg1.txRd + Len(cb.retxBuf)
            /\ reg2.txFsr = BufSize - (reg1.txWr - (reg1.txRd + Len(cb.retxBuf)))
        BY <1>4, <1>8, <3>1, AckCallbackType
      <3> QED BY <1>8, <2>1, <3>2
    <2>2. CASE ~done
      BY <1>8, <2>2
    <2> QED BY <2>1, <2>2
  <1> HIDE DEF reg2
  <1>10. /\ reg3 \in SockRegs /\ reg3.txWr = reg2.txWr
         /\ reg3.txRd = reg2.txRd /\ reg3.txFsr = reg2.txFsr
         /\ "SEND_OK" \in reg3.ir <=> "SEND_OK" \in reg2.ir
         /\ next = cb.state => reg3.sr = reg.sr
    <2>1. "TIME_WAIT" \in SockStatus
      BY DEF SockStatus
    <2>2. next = cb.state => ~(fin /\ cb.state = "FIN_WAIT")
      BY <1>1
    <2> HIDE DEF next, fin
    <2> QED BY <1>9, <2>1, <2>2, StateCallbackType
  <1> HIDE DEF reg3
  <1>11. /\ reg'.txWr = reg.txWr
         /\ reg'.txRd = reg2.txRd /\ reg'.txFsr = reg2.txFsr
         /\ "SEND_OK" \in reg'.ir <=> "SEND_OK" \in reg2.ir
         /\ next # cb.state => reg'.sr = next
         /\ next = cb.state => reg'.sr = reg.sr
    <2> HIDE DEF next
    <2> QED BY <1>3, <1>6, <1>9, <1>10, StateCallbackType
  <1>12. reg.sr = cb.state
    BY <1>1 DEF StatusMirrorsStack
  <1>13. CASE done
    <2>1. cb.retxBuf # <<>>
      BY <1>13 DEF Releases
    <2> HIDE DEF done, next
    <2>2. ReleasesBuffer
      BY <1>5, <1>9, <1>11, <1>13, <2>1 DEF ReleasesBuffer
    <2> QED BY <1>1, <1>5, <1>6, <1>7, <1>11, <1>12, <2>2
  <1>14. CASE ~done
    <2> HIDE DEF done, next
    <2>1. KeepsBuffer
      BY <1>5, <1>9, <1>11, <1>14 DEF KeepsBuffer
    <2> QED BY <1>1, <1>5, <1>6, <1>7, <1>11, <1>12, <2>1
  <1> QED BY <1>13, <1>14

(* The other segments: the buffer stays, Sn_SR follows a live control      *)
(* block.                                                                  *)
LEMMA HandshakeEffect ==
  ASSUME StatusInv, NEW seg \in Segment,
         \/ RecvStray(seg) \/ RecvRst(seg) \/ RecvListen(seg)
         \/ RecvSynSent(seg) \/ RecvSynRecv(seg)
  PROVE  /\ KeepsBuffer
         /\ reg'.txWr = reg.txWr
         /\ cb'.active => cb.active /\ reg'.sr = cb'.state
         /\ cb'.active /\ cb.state \in Streaming => cb'.state \in Streaming
         /\ \/ reg' = reg
            \/ reg'.sr = "CLOSED"
            \/ reg'.sr = "SYNRECV" /\ reg.sr \in {"LISTEN", "SYNSENT"}
            \/ /\ reg' = stack_tcp_state(reg, "ESTABLISHED")
               /\ reg.sr \in {"SYNSENT", "SYNRECV"}
  <1> USE DEF StatusInv, TypeRx, TypeOK, StatusMirrorsStack
  <1>1. ASSUME NEW new \in SockStatus,
               reg' = stack_tcp_state(reg, new), cb'.retxBuf = cb.retxBuf
        PROVE  KeepsBuffer /\ reg'.txWr = reg.txWr /\ reg'.sr = new
    BY <1>1, StateCallbackType DEF KeepsBuffer
  <1>2. {"CLOSED", "SYNRECV", "ESTABLISHED"} \subseteq SockStatus
    BY DEF SockStatus
  <1>3. CASE UNCHANGED <<cb, reg>>
    BY <1>3 DEF KeepsBuffer
  <1>4. CASE RecvStray(seg)
    BY <1>3, <1>4 DEF RecvStray
  <1>5. CASE RecvRst(seg)
    <2>1. cb'.retxBuf = cb.retxBuf /\ ~cb'.active /\ reg' = stack_tcp_state(reg, "CLOSED")
      BY <1>5 DEF RecvRst, TcpCb
    <2> QED BY <1>1, <1>2, <2>1
  <1>6. CASE RecvListen(seg) /\ ~UNCHANGED <<cb, reg>>
    <2>1. cb.active /\ cb.state = "LISTEN" /\ reg' = stack_tcp_state(reg, "SYNRECV")
      BY <1>6 DEF RecvListen, Found
    <2>2. PICK isn \in Isns, ok \in TxResults :
            cb' = [cb EXCEPT !.state = "SYNRECV", !.peerMacKnown = TRUE,
                             !.rcvNxt = Plus(seg.seq, 1), !.sndUna = isn,
                             !.sndNxt = IF ok THEN Plus(isn, 1) ELSE isn]
      BY <1>6 DEF RecvListen
    <2>3. cb'.retxBuf = cb.retxBuf /\ cb'.state = "SYNRECV"
      BY <2>2 DEF TcpCb
    <2> QED BY <1>1, <1>2, <2>1, <2>3 DEF Streaming
  <1>7. CASE RecvSynSent(seg) /\ ~UNCHANGED <<cb, reg>>
    <2>1. cb.active /\ cb.state = "SYNSENT"
      BY <1>7 DEF RecvSynSent, Found
    <2>2. CASE /\ cb' = [cb EXCEPT !.state = "ESTABLISHED", !.peerMacKnown = TRUE,
                                   !.rcvNxt = Plus(seg.seq, 1), !.sndUna = seg.ack]
               /\ reg' = stack_tcp_state(reg, "ESTABLISHED")
      <3>1. cb'.retxBuf = cb.retxBuf /\ cb'.state = "ESTABLISHED"
        BY <2>2 DEF TcpCb
      <3> QED BY <1>1, <1>2, <2>1, <2>2, <3>1 DEF Streaming
    <2>3. CASE /\ reg' = stack_tcp_state(reg, "SYNRECV")
               /\ \E ok \in TxResults :
                    LET sent == Resolved /\ ok
                    IN cb' = [cb EXCEPT !.state = "SYNRECV",
                                        !.rcvNxt = Plus(seg.seq, 1),
                                        !.peerMacKnown = Resolved,
                                        !.sndNxt = IF sent THEN Plus(@, 1) ELSE @]
      <3>1. cb'.retxBuf = cb.retxBuf /\ cb'.state = "SYNRECV"
        BY <2>3 DEF TcpCb
      <3> QED BY <1>1, <1>2, <2>1, <2>3, <3>1 DEF Streaming
    <2> QED BY <1>7, <2>2, <2>3 DEF RecvSynSent
  <1>8. CASE RecvSynRecv(seg) /\ ~UNCHANGED <<cb, reg>>
    <2>1. /\ cb.active /\ cb.state = "SYNRECV"
          /\ reg' = stack_tcp_state(reg, "ESTABLISHED")
      BY <1>8 DEF RecvSynRecv, Found
    <2>2. cb'.retxBuf = cb.retxBuf /\ cb'.state = "ESTABLISHED"
      BY <1>8 DEF RecvSynRecv, TcpCb
    <2> QED BY <1>1, <1>2, <2>1, <2>2 DEF Streaming
  <1> QED BY <1>3, <1>4, <1>5, <1>6, <1>7, <1>8

-----------------------------------------------------------------------------
(* Sn_SR mirrors the stack *)

(* The commands move Sn_SR and the state together.                         *)
LEMMA CommandsStatus ==
  ASSUME StatusInv, Guest
  PROVE  StatusMirrorsStack'
  <1> USE DEF StatusInv, TypeRx, TypeOK, StatusMirrorsStack
  <1>1. CASE CmdOpen
    BY <1>1 DEF CmdOpen, ClearedCb, ClearedRegs
  <1>2. CASE CmdListen
    BY <1>2 DEF CmdListen, TcpCb, SockRegs
  <1>3. CASE CmdConnect
    BY <1>3 DEF CmdConnect, TcpCb, SockRegs
  <1>4. CASE CmdDiscon
    <2> DEFINE next == IF cb.state = "ESTABLISHED" THEN "FIN_WAIT" ELSE "LAST_ACK"
    <2>1. next \in SockStatus
      BY DEF SockStatus
    <2>2. reg' = stack_tcp_state(reg, next) /\ cb'.state = next
      BY <1>4 DEF CmdDiscon, TcpCb
    <2> HIDE DEF next
    <2> QED BY <2>1, <2>2, StateCallbackType
  <1>5. CASE CmdClose
    BY <1>5 DEF CmdClose, TcpCb
  <1>6. CASE \E n \in 0 .. MaxBytes : CmdSend(n)
    <2> PICK n \in 0 .. MaxBytes : CmdSend(n)
      BY <1>6
    <2>1. reg'.sr = reg.sr
      BY DEF CmdSend, SockRegs
    <2>2. cb'.state = cb.state /\ cb'.active = cb.active
      BY DEF CmdSend, tcp_send, TcpCb
    <2> QED BY <2>1, <2>2
  <1>7. CASE \E n \in 1 .. BufSize : CmdRecv(n)
    BY <1>7 DEF CmdRecv, SockRegs
  <1>8. CASE \E bits \in SUBSET reg.ir : ClearIr(bits)
    BY <1>8 DEF ClearIr, SockRegs
  <1> QED BY <1>1, <1>2, <1>3, <1>4, <1>5, <1>6, <1>7, <1>8 DEF Guest

(* The handlers move Sn_SR and the state together.                         *)
LEMMA HandlerStatus ==
  ASSUME StatusInv, NEW seg \in Segment, handle_tcp(seg)
  PROVE  StatusMirrorsStack'
  <1>1. seg \in Segment
    OBVIOUS
  <1>2. CASE RecvStream(seg)
    BY <1>1, <1>2, StreamEffect DEF StatusMirrorsStack
  <1>3. CASE ~RecvStream(seg)
    BY <1>1, <1>3, HandshakeEffect DEF handle_tcp, StatusMirrorsStack
  <1> QED BY <1>2, <1>3

(* So does tcp_tick.                                                       *)
LEMMA TickStatus ==
  ASSUME StatusInv, tcp_tick
  PROVE  StatusMirrorsStack'
  <1> USE DEF StatusInv, TypeRx, TypeOK, StatusMirrorsStack
  <1>1. CASE TickGiveUp
    BY <1>1 DEF TickGiveUp, TcpCb
  <1>2. CASE TickWait \/ TickSyn \/ TickData \/ TickIdle
    BY <1>2 DEF TickWait, TickSyn, TickData, TickIdle, TcpCb
  <1> QED BY <1>1, <1>2 DEF tcp_tick

(* Every step keeps Sn_SR the state of a live control block.               *)
LEMMA NextStatus == StatusInv /\ [Next]_vars => StatusInv'
  <1> SUFFICES ASSUME StatusInv, [Next]_vars PROVE StatusMirrorsStack'
    BY NextTypeRx DEF StatusInv
  <1>1. CASE Guest
    BY <1>1, CommandsStatus
  <1>2. ASSUME NEW seg \in Segments, handle_tcp(seg) PROVE StatusMirrorsStack'
    BY <1>2, HandlerStatus, SetAssumption
  <1>3. CASE tcp_tick
    BY <1>3, TickStatus
  <1>4. CASE ArpLearn \/ ArpExpire \/ UNCHANGED vars
    BY <1>4 DEF ArpLearn, ArpExpire, vars, StatusInv, StatusMirrorsStack
  <1> QED BY <1>1, <1>2, <1>3, <1>4 DEF Next

(* After power-on no control block is live.                                *)
LEMMA InitStatus == Init => StatusInv
  BY InitTypeRx DEF StatusInv, StatusMirrorsStack, Init, ClearedCb

(* As long as the guest does not write MR.RST, the state the driver reads  *)
(* in Sn_SR is the state the stack acts on: every handler, command and     *)
(* timeout moves both or none.                                             *)
THEOREM StatusMirrors == Spec => []StatusMirrorsStack
  <1>1. StatusInv /\ [Next]_vars => StatusInv'
    BY NextStatus
  <1>2. StatusInv => StatusMirrorsStack
    BY DEF StatusInv
  <1> QED BY <1>1, <1>2, InitStatus, PTL DEF Spec

-----------------------------------------------------------------------------
(* One outstanding segment and the TX ring, for a driver that waits for    *)
(* SEND_OK.  The two properties are inductive together: an acknowledgement *)
(* gives back exactly the retransmit buffer, which the ring still holds,   *)
(* and a SEND starts from an empty one.                                    *)

SendInv == StatusInv /\ TxRingSound /\ SendOkMeansAcked

(* The types of the numbers the TX ring is about.                          *)
LEMMA RegNumbers ==
  ASSUME TypeOK
  PROVE  /\ reg.txRd \in Nat /\ reg.txWr \in Nat /\ reg.txFsr \in Int
         /\ BufSize \in Nat /\ Len(cb.retxBuf) \in Nat
         /\ reg.ir \subseteq IrBits
  BY NumAssumption DEF TypeOK, SockRegs, TcpCb

(* The commands keep at most one segment out, if the driver waits for      *)
(* SEND_OK.                                                                *)
LEMMA CommandsSend ==
  ASSUME SendInv, Guest, WaitSendOk
  PROVE  TxRingSound' /\ SendOkMeansAcked'
  <1> USE DEF SendInv, StatusInv, TypeRx, TypeOK, TxRingSound, SendOkMeansAcked
  <1>0. /\ reg.txRd \in Nat /\ reg.txWr \in Nat /\ reg.txFsr \in Int
        /\ BufSize \in Nat /\ Len(cb.retxBuf) \in Nat
    BY RegNumbers
  <1>1. CASE CmdOpen
    <2>1. /\ cb'.retxBuf = <<>> /\ reg'.txRd = 0 /\ reg'.txWr = 0
          /\ reg'.txFsr = BufSize /\ reg'.ir = {}
      BY <1>1 DEF CmdOpen, ClearedCb, ClearedRegs
    <2> QED BY <1>0, <2>1, EmptySeq
  <1>2. CASE CmdListen
    <2>1. /\ cb'.active = cb.active /\ cb'.retxBuf = cb.retxBuf
          /\ reg'.txRd = reg.txRd /\ reg'.txWr = reg.txWr
          /\ reg'.txFsr = reg.txFsr /\ reg'.ir = reg.ir /\ await' = await
      BY <1>2 DEF CmdListen, TcpCb, SockRegs
    <2>2. cb'.active => cb'.state = "LISTEN"
      BY <1>2 DEF CmdListen, TcpCb
    <2> QED BY <1>0, <2>1, <2>2
  <1>3. CASE CmdConnect
    <2>1. /\ reg'.txRd = reg.txRd /\ reg'.txWr = reg.txWr
          /\ reg'.txFsr = reg.txFsr /\ reg'.ir = reg.ir /\ await' = await
      BY <1>3 DEF CmdConnect, SockRegs
    <2>2. cb'.active = cb.active /\ (cb.active => cb'.retxBuf = <<>>)
      BY <1>3 DEF CmdConnect, TcpCb
    <2>3. cb.active => 0 <= reg.txWr - reg.txRd
      BY <1>0
    <2>4. cb'.active => Len(cb'.retxBuf) = 0
      BY <2>2, EmptySeq
    <2> QED BY <1>0, <2>1, <2>2, <2>3, <2>4
  <1>4. CASE CmdDiscon
    <2> DEFINE next == IF cb.state = "ESTABLISHED" THEN "FIN_WAIT" ELSE "LAST_ACK"
    <2>1. next \in SockStatus /\ next \in Streaming
      BY DEF SockStatus, Streaming
    <2>2. /\ reg' = stack_tcp_state(reg, next) /\ cb'.state = next /\ await' = await
          /\ cb'.retxBuf = cb.retxBuf /\ cb'.active = cb.active
      BY <1>4 DEF CmdDiscon, TcpCb
    <2> HIDE DEF next
    <2>3. /\ reg'.txRd = reg.txRd /\ reg'.txWr = reg.txWr /\ reg'.txFsr = reg.txFsr
          /\ "SEND_OK" \in reg'.ir <=> "SEND_OK" \in reg.ir
      BY <2>1, <2>2, StateCallbackType
    <2>4. next \notin {"INIT", "SYNSENT"}
      BY DEF next
    <2> QED BY <1>0, <2>1, <2>2, <2>3, <2>4
  <1>5. CASE CmdClose
    <2>1. ~cb'.active
      BY <1>5 DEF CmdClose, TcpCb
    <2> QED BY <2>1
  <1>6. CASE \E n \in 0 .. MaxBytes : CmdSend(n)
    <2> PICK n \in 0 .. MaxBytes : CmdSend(n)
      BY <1>6
    <2> DEFINE wr  == reg.txWr + n
               len == wr - reg.txRd
               buf == [i \in 1 .. AtMost(len, Mss) |-> reg.txRd + i]
    <2>1. /\ n \in Nat /\ wr \in Nat /\ len \in Int /\ len > 0
          /\ n <= reg.txFsr /\ ~await /\ await'
      <3>1. len > 0 /\ n <= reg.txFsr /\ ~await /\ await'
        BY DEF CmdSend
      <3>2. n \in Nat
        BY NumAssumption
      <3>3. wr \in Nat /\ len \in Int
        BY <1>0, <3>2
      <3> HIDE DEF wr, len
      <3> QED BY <3>1, <3>2, <3>3
    <2>2. Len(buf) \in Int /\ Len(buf) <= len
      <3> HIDE DEF len
      <3>1. Len(buf) \in 1 .. len
        BY <2>1, SendBuffer
      <3> HIDE DEF buf
      <3> QED BY <2>1, <3>1
    <2>3. CASE cb.active /\ cb.state = "ESTABLISHED"
      <3>1. reg' = [reg EXCEPT !.txWr = wr, !.txFsr = BufSize - len]
        BY <2>3 DEF CmdSend
      <3>2. cb'.retxBuf = buf /\ cb'.state = cb.state
        BY <2>3 DEF CmdSend, tcp_send, TcpCb
      <3> HIDE DEF buf
      <3>3. reg'.txWr = wr /\ reg'.txRd = reg.txRd /\ reg'.txFsr = BufSize - len
        BY <3>1 DEF SockRegs
      <3>4. "SEND_OK" \notin reg'.ir
        BY <2>1, <2>3, <3>1 DEF SockRegs
      <3>5. len <= BufSize
        <4>1. reg.txFsr = BufSize - (reg.txWr - reg.txRd)
          BY <2>3
        <4>2. len = (reg.txWr + n) - reg.txRd
          OBVIOUS
        <4> HIDE DEF wr, len
        <4> QED BY <1>0, <2>1, <4>1, <4>2
      <3> QED BY <1>0, <2>1, <2>2, <2>3, <3>2, <3>3, <3>4, <3>5 DEF Streaming
    <2>4. CASE ~(cb.active /\ cb.state = "ESTABLISHED")
      <3>1. /\ reg' = [reg EXCEPT !.txWr = wr, !.txRd = wr, !.txFsr = BufSize]
            /\ cb' = cb
        BY <2>4 DEF CmdSend
      <3>2. /\ reg'.txWr = wr /\ reg'.txRd = wr /\ reg'.txFsr = BufSize
            /\ reg'.ir = reg.ir
        BY <3>1 DEF SockRegs
      <3>3. cb.active => cb.retxBuf = <<>>
        BY <2>1
      <3> HIDE DEF wr
      <3> QED BY <1>0, <2>1, <3>1, <3>2, <3>3, EmptySeq
    <2> QED BY <2>3, <2>4
  <1>7. CASE \E n \in 1 .. BufSize : CmdRecv(n)
    <2>1. /\ cb' = cb /\ await' = await
          /\ reg'.txRd = reg.txRd /\ reg'.txWr = reg.txWr
          /\ reg'.txFsr = reg.txFsr /\ reg'.ir = reg.ir
      BY <1>7 DEF CmdRecv, SockRegs
    <2> QED BY <1>0, <2>1
  <1>8. CASE \E bits \in SUBSET reg.ir : ClearIr(bits)
    <2> PICK bits \in SUBSET reg.ir : ClearIr(bits)
      BY <1>8
    <2>1. /\ cb' = cb /\ await' = (await /\ "SEND_OK" \notin bits)
          /\ reg'.txRd = reg.txRd /\ reg'.txWr = reg.txWr
          /\ reg'.txFsr = reg.txFsr /\ reg'.ir = reg.ir \ bits
      BY DEF ClearIr, SockRegs
    <2> QED BY <1>0, <2>1
  <1> QED BY <1>1, <1>2, <1>3, <1>4, <1>5, <1>6, <1>7, <1>8 DEF Guest

(* A handler keeps the buffer or releases it and says SEND_OK.             *)
LEMMA HandlerSend ==
  ASSUME SendInv, NEW seg \in Segment, handle_tcp(seg)
  PROVE  TxRingSound' /\ SendOkMeansAcked'
  <1> USE DEF SendInv, StatusInv, TypeRx, TypeOK, TxRingSound, SendOkMeansAcked
  <1>0. /\ reg.txRd \in Nat /\ reg.txWr \in Nat /\ reg.txFsr \in Int
        /\ BufSize \in Nat /\ Len(cb.retxBuf) \in Nat /\ await' = await
        /\ seg \in Segment
    BY RegNumbers DEF handle_tcp
  <1>1. /\ cb'.active => cb.active
        /\ cb'.active /\ cb.state \in Streaming => cb'.state \in Streaming
        /\ reg'.txWr = reg.txWr
        /\ KeepsBuffer \/ ReleasesBuffer
    BY <1>0, StreamEffect, HandshakeEffect DEF handle_tcp
  <1>4. cb'.active /\ cb'.state \in {"INIT", "SYNSENT"} => cb.state = cb'.state
    <2>1. CASE RecvStream(seg)
      BY <1>0, <2>1, StreamEffect DEF Streaming
    <2>2. CASE ~RecvStream(seg)
      <3>1. /\ cb'.active => cb.active /\ reg'.sr = cb'.state
            /\ \/ reg' = reg
               \/ reg'.sr = "CLOSED"
               \/ reg'.sr = "SYNRECV" /\ reg.sr \in {"LISTEN", "SYNSENT"}
               \/ reg' = stack_tcp_state(reg, "ESTABLISHED")
        BY <1>0, <2>2, HandshakeEffect DEF handle_tcp
      <3>2. reg' = stack_tcp_state(reg, "ESTABLISHED") => reg'.sr = "ESTABLISHED"
        BY DEF stack_tcp_state, SockRegs
      <3> QED BY <3>1, <3>2 DEF StatusMirrorsStack
    <2> QED BY <2>1, <2>2
  <1>2. CASE KeepsBuffer
    BY <1>0, <1>1, <1>2, <1>4 DEF KeepsBuffer
  <1>3. CASE ReleasesBuffer
    <2>1. /\ cb'.retxBuf = <<>> /\ Len(cb'.retxBuf) = 0
          /\ reg'.txRd = reg.txRd + Len(cb.retxBuf)
          /\ reg'.txFsr = BufSize - (reg.txWr - reg'.txRd)
          /\ cb.retxBuf # <<>>
      BY <1>3, EmptySeq DEF ReleasesBuffer
    <2>2. cb'.active => /\ Len(cb.retxBuf) <= reg.txWr - reg.txRd
                        /\ reg.txWr - reg.txRd <= BufSize
                        /\ await
      BY <1>1, <2>1
    <2>3. cb'.active => /\ 0 <= reg'.txWr - reg'.txRd
                        /\ reg'.txWr - reg'.txRd <= BufSize
      BY <1>0, <1>1, <2>1, <2>2
    <2> QED BY <1>0, <1>1, <2>1, <2>2, <2>3
  <1> QED BY <1>1, <1>2, <1>3

(* tcp_tick sends the buffer again or drops the connection.                *)
LEMMA TickSend ==
  ASSUME SendInv, tcp_tick
  PROVE  TxRingSound' /\ SendOkMeansAcked'
  <1> USE DEF SendInv, StatusInv, TypeRx, TypeOK, TxRingSound, SendOkMeansAcked
  <1>1. CASE TickGiveUp
    BY <1>1 DEF TickGiveUp, TcpCb
  <1>2. CASE TickWait \/ TickSyn \/ TickData \/ TickIdle
    <2>1. /\ cb'.active = cb.active /\ cb'.state = cb.state
          /\ cb'.retxBuf = cb.retxBuf /\ reg' = reg /\ await' = await
      BY <1>2 DEF tcp_tick, TickWait, TickSyn, TickData, TickIdle, TcpCb
    <2> QED BY <2>1
  <1> QED BY <1>1, <1>2 DEF tcp_tick

(* Every step keeps the TX ring sound and SEND_OK true.                    *)
LEMMA NextSend ==
  ASSUME WaitSendOk
  PROVE  SendInv /\ [Next]_vars => SendInv'
  <1> SUFFICES ASSUME SendInv, [Next]_vars PROVE TxRingSound' /\ SendOkMeansAcked'
    BY NextStatus DEF SendInv
  <1>1. CASE Guest
    BY <1>1, CommandsSend
  <1>2. ASSUME NEW seg \in Segments, handle_tcp(seg)
        PROVE  TxRingSound' /\ SendOkMeansAcked'
    BY <1>2, HandlerSend, SetAssumption
  <1>3. CASE tcp_tick
    BY <1>3, TickSend
  <1>4. CASE ArpLearn \/ ArpExpire \/ UNCHANGED vars
    BY <1>4 DEF ArpLearn, ArpExpire, vars, SendInv, TxRingSound, SendOkMeansAcked
  <1> QED BY <1>1, <1>2, <1>3, <1>4 DEF Next

(* After power-on there is nothing to send.                                *)
LEMMA InitSend == Init => SendInv
  BY InitStatus DEF SendInv, TxRingSound, SendOkMeansAcked, Init, ClearedCb

(* With a driver that waits for SEND_OK: TX_RD never passes TX_WR, TX_FSR  *)
(* is the ring's free space, the ring holds the unacknowledged segment,    *)
(* and a second SEND or a stale SEND_OK never meets an outstanding one.    *)
THEOREM OneOutstandingSegment ==
  ASSUME WaitSendOk
  PROVE  Spec => [](TxRingSound /\ SendOkMeansAcked)
  <1>1. SendInv /\ [Next]_vars => SendInv'
    BY NextSend
  <1>2. SendInv => TxRingSound /\ SendOkMeansAcked
    BY DEF SendInv
  <1> QED BY <1>1, <1>2, InitSend, PTL DEF Spec

(* With such a driver, between SEND and SEND_OK exactly one segment is     *)
(* outstanding, and SEND_OK tells that it was acknowledged.                *)
COROLLARY SendOkSound ==
  ASSUME WaitSendOk
  PROVE  Spec => []SendOkMeansAcked
  <1> QED BY OneOutstandingSegment, PTL

-----------------------------------------------------------------------------
(* The life cycle of Sn_SR *)

(* The driver's own OPEN, LISTEN and CONNECT, and a socket that leaves     *)
(* CLOSED by nothing else                                                  *)
DriverOpens == CmdOpen \/ CmdListen \/ CmdConnect
KeepsClosed == reg.sr = "CLOSED" /\ reg'.sr # "CLOSED" => DriverOpens

(* Of the commands only those three take a socket out of CLOSED, and none  *)
(* establishes.                                                            *)
LEMMA CommandsLife ==
  ASSUME StatusInv, Guest
  PROVE  /\ KeepsClosed
         /\ reg'.sr = "ESTABLISHED" => reg.sr = "ESTABLISHED"
  <1> USE DEF StatusInv, TypeRx, TypeOK, StatusMirrorsStack, KeepsClosed
  <1>0. CASE DriverOpens
    <2>1. reg'.sr \in {"INIT", "LISTEN", "SYNSENT"}
      BY <1>0 DEF DriverOpens, CmdOpen, CmdListen, CmdConnect, ClearedRegs, SockRegs
    <2> QED BY <1>0, <2>1
  <1>3. CASE CmdDiscon
    <2> DEFINE next == IF cb.state = "ESTABLISHED" THEN "FIN_WAIT" ELSE "LAST_ACK"
    <2>1. next \in SockStatus
      BY DEF SockStatus
    <2>2. /\ cb.active /\ cb.state \in {"ESTABLISHED", "CLOSE_WAIT"}
          /\ reg' = stack_tcp_state(reg, next)
      BY <1>3 DEF CmdDiscon
    <2>3. next # "ESTABLISHED"
      OBVIOUS
    <2> HIDE DEF next
    <2>4. reg'.sr = next
      BY <2>1, <2>2, StateCallbackType
    <2> QED BY <2>2, <2>3, <2>4
  <1>4. CASE CmdClose
    <2>1. reg'.sr = "CLOSED"
      <3>1. "CLOSED" \in SockStatus /\ reg \in SockRegs
        BY DEF SockStatus
      <3> DEFINE r == IF cb.active THEN stack_tcp_state(reg, "CLOSED") ELSE reg
      <3>2. r \in SockRegs
        BY <3>1, StateCallbackType
      <3>3. reg' = [r EXCEPT !.sr = "CLOSED", !.rxRsr = 0, !.txFsr = 0]
        BY <1>4 DEF CmdClose
      <3> HIDE DEF r
      <3> QED BY <3>2, <3>3 DEF SockRegs
    <2> QED BY <2>1
  <1>5. CASE \/ \E n \in 0 .. MaxBytes : CmdSend(n)
             \/ \E n \in 1 .. BufSize : CmdRecv(n)
             \/ \E bits \in SUBSET reg.ir : ClearIr(bits)
    <2>1. reg'.sr = reg.sr
      BY <1>5 DEF CmdSend, CmdRecv, ClearIr, SockRegs
    <2> QED BY <2>1
  <1> QED BY <1>0, <1>3, <1>4, <1>5 DEF Guest, DriverOpens

(* No step takes a socket out of CLOSED but those commands; only a         *)
(* handshake establishes.                                                  *)
LEMMA NextLife ==
  ASSUME StatusInv, [Next]_vars
  PROVE  /\ KeepsClosed
         /\ reg'.sr = "ESTABLISHED" /\ reg.sr # "ESTABLISHED" =>
              reg.sr \in {"SYNSENT", "SYNRECV"} /\ "CON" \in reg'.ir
  <1> USE DEF StatusInv, TypeRx, TypeOK, KeepsClosed
  <1>1. CASE Guest
    BY <1>1, CommandsLife
  <1>2. ASSUME NEW seg \in Segments, handle_tcp(seg)
        PROVE  /\ KeepsClosed
               /\ reg'.sr = "ESTABLISHED" /\ reg.sr # "ESTABLISHED" =>
                    reg.sr \in {"SYNSENT", "SYNRECV"} /\ "CON" \in reg'.ir
    <2>1. seg \in Segment
      BY SetAssumption
    <2>2. CASE RecvStream(seg)
      <3>1. /\ cb.active /\ cb.state \in Streaming /\ reg'.sr = cb'.state
            /\ cb'.state = "ESTABLISHED" => cb.state = "ESTABLISHED"
        BY <2>1, <2>2, StreamEffect
      <3> QED BY <3>1 DEF StatusMirrorsStack, Streaming
    <2>3. CASE ~RecvStream(seg)
      <3>1. \/ reg' = reg
            \/ reg'.sr = "CLOSED"
            \/ reg'.sr = "SYNRECV" /\ reg.sr \in {"LISTEN", "SYNSENT"}
            \/ /\ reg' = stack_tcp_state(reg, "ESTABLISHED")
               /\ reg.sr \in {"SYNSENT", "SYNRECV"}
        BY <1>2, <2>1, <2>3, HandshakeEffect DEF handle_tcp
      <3>2. ASSUME reg' = stack_tcp_state(reg, "ESTABLISHED"), reg.sr # "ESTABLISHED"
            PROVE  "CON" \in reg'.ir
        BY <3>2 DEF stack_tcp_state, SockRegs
      <3> QED BY <3>1, <3>2
    <2> QED BY <2>2, <2>3
  <1>3. CASE tcp_tick
    <2>1. CASE TickGiveUp
      <3>1. "CLOSED" \in SockStatus
        BY DEF SockStatus
      <3>2. reg'.sr = "CLOSED"
        BY <2>1, <3>1, StateCallbackType DEF TickGiveUp
      <3> QED BY <3>2
    <2>2. CASE ~TickGiveUp
      BY <1>3, <2>2 DEF tcp_tick, TickWait, TickSyn, TickData, TickIdle
    <2> QED BY <2>1, <2>2
  <1>4. CASE ArpLearn \/ ArpExpire \/ UNCHANGED vars
    BY <1>4 DEF ArpLearn, ArpExpire, vars
  <1> QED BY <1>1, <1>2, <1>3, <1>4 DEF Next

(* No segment and no timeout takes a socket out of CLOSED, and one becomes *)
(* ESTABLISHED only through a handshake that raises CON, as long as the    *)
(* guest does not write MR.RST.                                            *)
THEOREM SocketLifeCycle == Spec => ClosedStaysClosed /\ EstablishedByHandshake
  <1>1. StatusInv /\ [Next]_vars => StatusInv'
    BY NextStatus
  <1>2. ASSUME StatusInv, [Next]_vars
        PROVE  [reg.sr = "CLOSED" /\ reg'.sr # "CLOSED"
                 => CmdOpen \/ CmdListen \/ CmdConnect]_vars
    BY <1>2, NextLife DEF KeepsClosed, DriverOpens
  <1>3. ASSUME StatusInv, [Next]_vars
        PROVE  [reg'.sr = "ESTABLISHED" /\ reg.sr # "ESTABLISHED"
                 => /\ reg.sr \in {"SYNSENT", "SYNRECV"}
                    /\ "CON" \in reg'.ir]_vars
    BY <1>3, NextLife
  <1> QED BY <1>1, <1>2, <1>3, InitStatus, PTL
          DEF Spec, ClosedStaysClosed, EstablishedByHandshake

(* ESTABLISHED is only reached from a handshake, which raises CON.         *)
COROLLARY Handshakes == Spec => EstablishedByHandshake
  <1> QED BY SocketLifeCycle, PTL
=============================================================================
