------------------------------- MODULE N4cLink ------------------------------
(***************************************************************************)
(* A connection of the Net4CPC board end to end: the guest socket of       *)
(* N4cTcp, a standards-following TCP peer on the host's network and the    *)
(* wire between them, which may lose, duplicate and reorder segments.      *)
(* One connection is followed, from a socket just OPENed; the driver is    *)
(* taken not to issue LISTEN or CONNECT a second time in the middle of it. *)
(*                                                                         *)
(* The peer is external: it is modelled from what n4c_stack.c expects of   *)
(* it (it acknowledges cumulatively, retransmits what is not acknowledged, *)
(* trims data it already has).  Its stream is the bytes 1 .. peerBytes;    *)
(* offset 0 of its sequence space is its SYN, offset i its byte i.         *)
(***************************************************************************)
EXTENDS N4cTcp

CONSTANTS
    PeerIsn,       \* the peer's initial sequence number
    MaxFins,       \* bound: FINs the peer or the wire's copying puts in flight
    Trials         \* the experiments, one of which a behaviour runs

(* opener: who opens; guestBytes, peerBytes: bounds on what each side      *)
(* sends; finWaits: does the peer hold its FIN until all its data is       *)
(* acknowledged; mayDie: may it reset or vanish; arpStable: is the next    *)
(* hop resolved from the start, and stays so; faults: what the wire does.  *)
Trial == [opener : {"guest", "peer"}, guestBytes : Nat, peerBytes : Nat,
          finWaits : BOOLEAN, mayDie : BOOLEAN, arpStable : BOOLEAN,
          faults : SUBSET {"lose", "dup", "reorder"}]

ASSUME LinkAssumption ==
    /\ PeerIsn \in SeqNum /\ MaxFins \in Nat
    /\ Trials \subseteq Trial

VARIABLES
    peer,      \* the peer's control block
    peerGot,   \* bytes the peer's application received
    toGuest,   \* segments in flight to the guest
    got,       \* bytes the driver has taken out of the RX ring
    trial      \* the experiment: chosen at first, never changed

linkVars == <<vars, peer, peerGot, toGuest, got, trial>>

PeerStates == {"listen", "connect", "synsent", "synrcvd", "estab", "dead"}
PeerCb == [st : PeerStates, una : Nat, nxt : Nat, finAt : Nat, fins : Nat,
           rcvNxt : SeqNum, finRcvd : BOOLEAN]

PeerSeq(off) == Plus(PeerIsn, off)
PeerOff(ack) == (ack - PeerIsn) % SeqMod
Later(a, b) == IF a > b THEN a ELSE b

LinkInit ==
    /\ cb = [ClearedCb EXCEPT !.active = TRUE, !.state = "INIT"]
    /\ reg = [ClearedRegs EXCEPT !.sr = "INIT", !.txFsr = BufSize]
    /\ rx = <<>> /\ toPeer = <<>> /\ toGuest = <<>>
    /\ trial \in Trials
    /\ arp \in BOOLEAN /\ (trial.arpStable => arp)
    /\ await = FALSE /\ polling = FALSE
    /\ peer = [st |-> IF trial.opener = "guest" THEN "listen" ELSE "connect",
               una |-> 0, nxt |-> 0, finAt |-> 0, fins |-> 0,
               rcvNxt |-> 0, finRcvd |-> FALSE]
    /\ peerGot = <<>> /\ got = <<>>

-----------------------------------------------------------------------------
(* The wire *)

InFlight(wire) == IF "reorder" \in trial.faults THEN DOMAIN wire
                  ELSE {i \in {1} : wire # <<>>}
Without(wire, i) == SubSeq(wire, 1, i - 1) \o SubSeq(wire, i + 1, Len(wire))
Received(wire, i) ==
    {Without(wire, i)}
    \cup {w \in {wire} : "dup" \in trial.faults /\ "FIN" \notin wire[i].flags}

PeerTransmits(segs) ==
    toGuest' = LET all == toGuest \o segs
               IN  SubSeq(all, 1, AtMost(Len(all), WireCap))

WireLoses ==
    /\ "lose" \in trial.faults
    /\ \/ \E i \in DOMAIN toPeer  : toPeer' = Without(toPeer, i) /\ UNCHANGED toGuest
       \/ \E i \in DOMAIN toGuest : toGuest' = Without(toGuest, i) /\ UNCHANGED toPeer
    /\ UNCHANGED <<cb, reg, rx, arp, await, polling, peer, peerGot, got>>

-----------------------------------------------------------------------------
(* The peer *)

Ack(p) == Packet(PeerSeq(p.nxt), p.rcvNxt, {"ACK"}, <<>>)

(* SYN, or SYN+ACK, first transmission and retransmission *)
PeerSyn ==
    /\ peer.st \in {"connect", "synsent", "synrcvd"}
    /\ peer' = [peer EXCEPT !.st = IF @ = "connect" THEN "synsent" ELSE @, !.nxt = 1]
    /\ PeerTransmits(<<Packet(PeerIsn, peer.rcvNxt,
                              IF peer.st = "synrcvd" THEN {"SYN", "ACK"} ELSE {"SYN"},
                              <<>>)>>)

(* up to Mss bytes from any offset not yet acknowledged: new or again *)
PeerData ==
    /\ peer.st = "estab"
    /\ \E off \in peer.una .. peer.nxt, n \in 1 .. Mss :
         /\ off >= 1
         /\ off + n - 1 <= IF peer.finAt = 0 THEN trial.peerBytes ELSE peer.finAt - 1
         /\ peer' = [peer EXCEPT !.nxt = Later(@, off + n)]
         /\ PeerTransmits(<<Packet(PeerSeq(off), peer.rcvNxt, {"ACK"},
                                   [i \in 1 .. n |-> off + i - 1])>>)

(* FIN, first or again, and the copies the wire makes of it *)
PeerFin ==
    /\ peer.st = "estab"
    /\ peer.fins < MaxFins
    /\ peer.finAt = 0 /\ trial.finWaits => peer.una = peer.nxt
    /\ LET at == IF peer.finAt = 0 THEN peer.nxt ELSE peer.finAt
       IN  /\ peer' = [peer EXCEPT !.finAt = at, !.nxt = at + 1, !.fins = @ + 1]
           /\ PeerTransmits(<<Packet(PeerSeq(at), peer.rcvNxt, {"FIN", "ACK"}, <<>>)>>)

PeerSends == (PeerSyn \/ PeerData \/ PeerFin) /\ UNCHANGED peerGot

PeerDies ==
    /\ trial.mayDie
    /\ peer.st # "dead"
    /\ peer' = [peer EXCEPT !.st = "dead"]
    /\ \/ UNCHANGED toGuest
       \/ PeerTransmits(<<Packet(PeerSeq(peer.nxt), peer.rcvNxt, {"RST", "ACK"}, <<>>)>>)
    /\ UNCHANGED peerGot

(* A segment of an open connection: acknowledgement, then the part of the  *)
(* data not received before, then FIN; anything that occupies sequence     *)
(* numbers is acknowledged.                                                *)
PeerStream(seg) ==
    LET off    == PeerOff(seg.ack)
        acked  == "ACK" \in seg.flags /\ off \in peer.una + 1 .. peer.nxt
        old    == (peer.rcvNxt - seg.seq) % SeqMod      \* bytes seen before
        fresh  == ~peer.finRcvd /\ old < Len(seg.data)
        rcv1   == IF fresh THEN Plus(seg.seq, Len(seg.data)) ELSE peer.rcvNxt
        fin    == "FIN" \in seg.flags /\ rcv1 = Plus(seg.seq, Len(seg.data))
        after  == [peer EXCEPT !.una = IF acked THEN off ELSE @,
                               !.rcvNxt = IF fin THEN Plus(rcv1, 1) ELSE rcv1,
                               !.finRcvd = @ \/ fin]
    IN  /\ peer' = after
        /\ peerGot' = IF fresh THEN peerGot \o SubSeq(seg.data, old + 1, Len(seg.data))
                               ELSE peerGot
        /\ IF seg.data # <<>> \/ seg.flags # {"ACK"}
           THEN PeerTransmits(<<Ack(after)>>) ELSE UNCHANGED toGuest

OpensPeer(seg)   == peer.st \in {"listen", "synrcvd"} /\ seg.flags = {"SYN"}
AnswersPeer(seg) == /\ peer.st = "synsent" /\ seg.flags = {"SYN", "ACK"}
                    /\ PeerOff(seg.ack) = 1
CompletesPeer(seg) == /\ peer.st = "synrcvd" /\ "ACK" \in seg.flags
                      /\ PeerOff(seg.ack) = 1

PeerHandshake(seg) ==
    /\ UNCHANGED peerGot
    /\ \/ /\ OpensPeer(seg)
          /\ peer' = [peer EXCEPT !.st = "synrcvd", !.nxt = 1, !.rcvNxt = Plus(seg.seq, 1)]
          /\ PeerTransmits(<<Packet(PeerIsn, Plus(seg.seq, 1), {"SYN", "ACK"}, <<>>)>>)
       \/ /\ AnswersPeer(seg)
          /\ peer' = [peer EXCEPT !.st = "estab", !.una = 1, !.rcvNxt = Plus(seg.seq, 1)]
          /\ PeerTransmits(<<Ack(peer')>>)
       \/ /\ CompletesPeer(seg)
          /\ peer' = [peer EXCEPT !.st = "estab", !.una = 1]
          /\ UNCHANGED toGuest

PeerReset(seg) ==
    /\ peer' = [peer EXCEPT !.st = IF @ = "listen" THEN @ ELSE "dead"]
    /\ UNCHANGED <<peerGot, toGuest>>

PeerReceives ==
    \E i \in InFlight(toPeer) :
      LET seg == toPeer[i]
          handshake == OpensPeer(seg) \/ AnswersPeer(seg) \/ CompletesPeer(seg)
      IN  /\ toPeer' \in Received(toPeer, i)
          /\ \/ "RST" \in seg.flags /\ PeerReset(seg)
             \/ /\ "RST" \notin seg.flags
                /\ \/ PeerHandshake(seg)
                   \/ peer.st = "estab" /\ PeerStream(seg)
                   \/ /\ peer.st # "estab" /\ ~handshake
                      /\ UNCHANGED <<peer, peerGot, toGuest>>

-----------------------------------------------------------------------------
(* The guest's side of the link *)

(* The driver LISTENs or CONNECTs once, on the socket it just opened.      *)
GuestCommand ==
    /\ \/ reg.sr = "INIT" /\ (CmdListen \/ CmdConnect)
       \/ CmdDiscon \/ CmdClose
       \/ \E n \in 0 .. MaxBytes :
            reg.txWr + n <= trial.guestBytes /\ CmdSend(n)
       \/ ClearIr(reg.ir \cap {"SEND_OK"})
    /\ UNCHANGED got

GuestReads == \E n \in 1 .. BufSize : CmdRecv(n) /\ got' = got \o SubSeq(rx, 1, n)

GuestReceives ==
    /\ \E i \in InFlight(toGuest) :
         /\ handle_tcp(toGuest[i])
         /\ toGuest' \in Received(toGuest, i)
    /\ UNCHANGED <<peer, peerGot, got, trial>>

GuestTick == tcp_tick /\ UNCHANGED <<peer, peerGot, toGuest, got, trial>>
GuestArp  == /\ ArpLearn \/ (~trial.arpStable /\ ArpExpire)
             /\ UNCHANGED <<peer, peerGot, toGuest, got>>

(* Followed until the stack drops the control block. *)
LinkNext ==
    /\ cb.active
    /\ UNCHANGED trial
    /\ \/ (GuestCommand \/ GuestReads) /\ UNCHANGED <<peer, peerGot, toGuest>>
       \/ GuestReceives \/ GuestTick \/ GuestArp
       \/ (PeerSends \/ PeerDies) /\ UNCHANGED <<vars, got>>
       \/ PeerReceives /\ UNCHANGED <<cb, reg, rx, arp, await, polling, got>>
       \/ WireLoses

LinkSpec == LinkInit /\ [][LinkNext]_linkVars

-----------------------------------------------------------------------------
(* Properties *)

(* The peer never believes a byte arrived that the guest did not put in    *)
(* its RX ring: acknowledgements do not run ahead of delivery.             *)
AckedBytesDelivered ==
    LET last == IF peer.finAt = 0 THEN peer.una ELSE AtMost(peer.una, peer.finAt)
    IN  cb.active => last <= Len(got) + Len(rx) + 1

(* TX_RD only moves over bytes the peer has: while the connection is       *)
(* ESTABLISHED, space given back to the driver (TX_FSR, SEND_OK) is never  *)
(* the space of a byte that may still have to be retransmitted.            *)
FreedBytesArrived ==
    cb.active /\ cb.state = "ESTABLISHED" => reg.txRd <= Len(peerGot)

(* Only bytes the peer has are freed and, with both ends open, each        *)
(* expects exactly a sequence number the other has sent or is about to     *)
(* send.                                                                   *)
EndsInStep ==
    /\ FreedBytesArrived
    /\ cb.active /\ cb.state = "ESTABLISHED" /\ peer.st = "estab" =>
           /\ PeerOff(cb.rcvNxt) \in peer.una .. peer.nxt
           /\ (cb.sndNxt - peer.rcvNxt) % SeqMod <= (cb.sndNxt - cb.sndUna) % SeqMod

-----------------------------------------------------------------------------
(* Each direction of the connection implements a reliable byte pipe.       *)

PeerWritten == IF peer.finAt # 0 THEN peer.finAt - 1
               ELSE IF peer.nxt = 0 THEN 0 ELSE peer.nxt - 1

OutPipe == INSTANCE BytePipe WITH written <- reg.txWr, delivered <- peerGot
InPipe  == INSTANCE BytePipe WITH written <- PeerWritten, delivered <- got

(* Guest to peer, bytes leave the TX ring and reach the peer's application *)
(* as from a pipe; peer to guest, the driver reads the peer's stream as    *)
(* from another.                                                           *)
ImplementsPipes == OutPipe!Spec /\ InPipe!Spec

-----------------------------------------------------------------------------
(* Liveness.  The main loop polls the board once per emulated frame, so    *)
(* tcp_tick and the handling of a queued segment are never put off for     *)
(* ever; a segment still in flight is delivered, the peer acknowledges and *)
(* retransmits.                                                            *)

TickFair == LinkSpec /\ WF_linkVars(GuestTick)

LinkFair ==
    /\ TickFair
    /\ WF_linkVars(GuestReceives)
    /\ WF_linkVars(PeerReceives /\ UNCHANGED <<cb, reg, rx, arp, await, polling, got, trial>>)

(* A transmitted segment does not stay outstanding: it is acknowledged, or *)
(* the retry limit drops the connection.  On a wire that delivers, with a  *)
(* resolved next hop and a peer that answers, a connection attempt ends.   *)
Delivers == trial.faults = {} /\ ~trial.mayDie
Connecting == cb.active /\ cb.state = "SYNSENT"
AttemptsResolve ==
    /\ DataPending ~> ~DataPending
    /\ (Connecting /\ Delivers) ~> ~Connecting

(* On such a wire, a byte handed to the socket with SEND reaches the peer  *)
(* unless the connection goes down.                                        *)
SentArrives ==
    \A k \in 1 .. MaxBytes :
      (cb.active /\ cb.state = "ESTABLISHED" /\ k <= reg.txWr /\ Delivers)
        ~> (Len(peerGot) >= k \/ cb.state # "ESTABLISHED" \/ ~cb.active)

(* The hazard of a SYN: lost, or never sent, it must still be given up.    *)
SynResolves == Connecting ~> ~Connecting
=============================================================================
