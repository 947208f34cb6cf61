---------------------------- MODULE N4cLink_proofs --------------------------
(***************************************************************************)
(* Proofs about a Net4CPC connection end to end, as N4cLink models it:     *)
(* whatever the wire loses, repeats and reorders, each direction is a      *)
(* reliable byte pipe, no byte is acknowledged or given back before it     *)
(* arrived, and the two ends stay in step.                                 *)
(***************************************************************************)
EXTENDS N4cLink, N4cTcp_proofs, NatFacts, FiniteSetTheorems

(* What the code relies on without checking: no sequence number of the     *)
(* connection passes the modulus, a write to the TAP succeeds, the driver  *)
(* waits for SEND_OK and the peer's FIN does not overtake its data.        *)
NoWrap ==
  \A t \in Trials :
    /\ PeerIsn + t.peerBytes + MaxFins + 2 < SeqMod
    /\ \A isn \in Isns \cup {0} : isn + t.guestBytes + 3 < SeqMod

Orderly ==
  /\ NoWrap
  /\ TxMayFail = FALSE
  /\ WaitSendOk
  /\ \A t \in Trials : t.finWaits

-----------------------------------------------------------------------------
(* Sequences of bytes and segments *)

(* s holds the bytes of a stream that follow its first k. *)
Run(s, k) == \A i \in 1 .. Len(s) : s[i] = k + i

(* The segment is on the wire. *)
Carries(wire, g) == \E i \in 1 .. Len(wire) : wire[i] = g

(* The places of a wire that hold a FIN. *)
FinsOn(wire) == {i \in 1 .. Len(wire) : "FIN" \in wire[i].flags}

One(p) == IF p THEN 1 ELSE 0

(* Consecutive bytes after consecutive bytes are consecutive. *)
LEMMA RunConcat ==
  ASSUME NEW s \in Seq(Nat), NEW t \in Seq(Nat), NEW k \in Nat,
         Run(s, k), Run(t, k + Len(s))
  PROVE  /\ s \o t \in Seq(Nat) /\ Len(s \o t) = Len(s) + Len(t)
         /\ Run(s \o t, k)
  BY DEF Run

(* So is a part of them. *)
LEMMA RunPart ==
  ASSUME NEW s \in Seq(Nat), NEW k \in Nat, Run(s, k),
         NEW m \in 0 .. Len(s), NEW n \in m .. Len(s)
  PROVE  /\ SubSeq(s, m + 1, n) \in Seq(Nat) /\ Len(SubSeq(s, m + 1, n)) = n - m
         /\ Run(SubSeq(s, m + 1, n), k + m)
  <1>1. SubSeq(s, m + 1, n) \in Seq(Nat) /\ Len(SubSeq(s, m + 1, n)) = n - m
    OBVIOUS
  <1>2. \A i \in 1 .. n - m : SubSeq(s, m + 1, n)[i] = s[m + i]
    BY SMTT(20)
  <1> QED BY <1>1, <1>2 DEF Run

(* Consecutive bytes are the numbers of their places. *)
LEMMA RunIsInterval ==
  ASSUME NEW s \in Seq(Nat), Run(s, 0)
  PROVE  s = [i \in 1 .. Len(s) |-> i]
  <1>1. \A i \in 1 .. Len(s) : s[i] = i
    BY DEF Run
  <1> QED BY <1>1

(* A wire after a frame is lost or delivered: nothing new, and a FIN less  *)
(* if it was one.                                                          *)
LEMMA WithoutFacts ==
  ASSUME NEW w \in Seq(Segment), NEW i \in 1 .. Len(w)
  PROVE  /\ Without(w, i) \in Seq(Segment)
         /\ Len(Without(w, i)) = Len(w) - 1
         /\ \A j \in 1 .. Len(w) - 1 : Without(w, i)[j] = w[IF j < i THEN j ELSE j + 1]
  <1> DEFINE a == SubSeq(w, 1, i - 1)
             c == SubSeq(w, i + 1, Len(w))
  <1>1. /\ a \in Seq(Segment) /\ Len(a) = i - 1
        /\ \A j \in 1 .. i - 1 : a[j] = w[j]
    OBVIOUS
  <1>2. /\ c \in Seq(Segment) /\ Len(c) = Len(w) - i
        /\ \A j \in 1 .. Len(w) - i : c[j] = w[i + j]
    OBVIOUS
  <1> HIDE DEF a, c
  <1>3. a \o c \in Seq(Segment) /\ Len(a \o c) = Len(w) - 1
    <2>1. a \in Seq(Segment) /\ c \in Seq(Segment)
      BY <1>1, <1>2
    <2>2. a \o c \in Seq(Segment) /\ Len(a \o c) = Len(a) + Len(c)
      BY <2>1
    <2> QED BY <1>1, <1>2, <2>2
  <1>4. ASSUME NEW j \in 1 .. Len(w) - 1
        PROVE  (a \o c)[j] = w[IF j < i THEN j ELSE j + 1]
    <2>1. CASE j < i
      <3>1. (a \o c)[j] = a[j]
        BY <1>1, <1>2, <2>1
      <3> QED BY <1>1, <2>1, <3>1
    <2>2. CASE ~(j < i)
      <3>1. (a \o c)[j] = c[j - (i - 1)]
        BY <1>1, <1>2, <2>2
      <3>2. j - (i - 1) \in 1 .. Len(w) - i /\ i + (j - (i - 1)) = j + 1
        BY <2>2
      <3>3. c[j - (i - 1)] = w[i + (j - (i - 1))]
        BY <1>2, <3>2
      <3> QED BY <2>2, <3>1, <3>2, <3>3
    <2> QED BY <2>1, <2>2
  <1>5. Without(w, i) = a \o c
    BY DEF Without, a, c
  <1> QED BY <1>3, <1>4, <1>5

(* FINs on a wire are finitely many. *)
LEMMA FinsFinite ==
  ASSUME NEW w \in Seq(Segment)
  PROVE  IsFiniteSet(FinsOn(w)) /\ Cardinality(FinsOn(w)) \in Nat
  <1>1. IsFiniteSet(1 .. Len(w))
    BY FS_Interval
  <1>2. FinsOn(w) \in SUBSET (1 .. Len(w))
    BY DEF FinsOn
  <1> QED BY <1>1, <1>2, FS_Subset, FS_CardinalityType
(* Taking a frame off a wire takes its FIN off. *)
LEMMA WithoutFins ==
  ASSUME NEW w \in Seq(Segment), NEW i \in 1 .. Len(w)
  PROVE  Cardinality(FinsOn(Without(w, i))) + One("FIN" \in w[i].flags)
           <= Cardinality(FinsOn(w))
  <1> DEFINE rest == Without(w, i)
             S == FinsOn(rest)
             T == FinsOn(w) \ {i}
             f == [j \in S |-> IF j < i THEN j ELSE j + 1]
  <1>1. /\ rest \in Seq(Segment) /\ Len(rest) = Len(w) - 1 /\ Len(w) \in Nat
        /\ \A j \in 1 .. Len(w) - 1 : rest[j] = w[IF j < i THEN j ELSE j + 1]
    BY WithoutFacts
  <1>2. /\ IsFiniteSet(FinsOn(w)) /\ Cardinality(FinsOn(w)) \in Nat
        /\ Cardinality(S) \in Nat
    BY <1>1, FinsFinite
  <1>3. /\ IsFiniteSet(T)
        /\ Cardinality(T) = IF i \in FinsOn(w) THEN Cardinality(FinsOn(w)) - 1
                                               ELSE Cardinality(FinsOn(w))
    BY <1>2, FS_RemoveElement
  <1>4. i \in FinsOn(w) <=> "FIN" \in w[i].flags
    BY DEF FinsOn
  <1> HIDE DEF rest
  <1>5. ASSUME NEW j \in S
        PROVE  j \in Int /\ f[j] \in T /\ f[j] = IF j < i THEN j ELSE j + 1
    <2>1. j \in 1 .. Len(w) - 1 /\ "FIN" \in rest[j].flags
      BY <1>1 DEF FinsOn
    <2>2. rest[j] = w[f[j]] /\ f[j] = IF j < i THEN j ELSE j + 1
      BY <1>1, <2>1
    <2>3. f[j] \in 1 .. Len(w) /\ f[j] # i
      BY <2>1, <2>2, <1>1
    <2> HIDE DEF f
    <2> QED BY <2>1, <2>2, <2>3 DEF FinsOn
  <1>6. f \in Injection(S, T)
    <2>1. f \in [S -> T]
      BY <1>5
    <2>2. ASSUME NEW j \in S, NEW k \in S, f[j] = f[k] PROVE j = k
      <3> HIDE DEF f, S, T
      <3>1. i \in Int /\ j \in Int /\ k \in Int
        BY <1>1, <1>5
      <3>2. (j < i /\ f[j] = j) \/ (j >= i /\ f[j] = j + 1)
        BY <1>5, <3>1
      <3>3. (k < i /\ f[k] = k) \/ (k >= i /\ f[k] = k + 1)
        BY <1>5, <3>1
      <3> QED BY <2>2, <3>1, <3>2, <3>3
    <2> HIDE DEF f, S, T
    <2> QED BY <2>1, <2>2 DEF Injection, IsInjective
  <1>7. Cardinality(S) <= Cardinality(T)
    <2> HIDE DEF f, S, T
    <2> QED BY <1>3, <1>6, FS_Injection
  <1> HIDE DEF S, T
  <1>8. Cardinality(S) + One(i \in FinsOn(w)) <= Cardinality(FinsOn(w))
    BY <1>2, <1>3, <1>7 DEF One
  <1> QED BY <1>4, <1>8 DEF S, rest, One

(* A frame handled, by either end: it leaves the wire, or stays for a copy *)
(* if it is not a FIN.                                                     *)
LEMMA ReceivedFacts ==
  ASSUME NEW w \in Seq(Segment), NEW i \in 1 .. Len(w), NEW r \in Received(w, i)
  PROVE  /\ r \in Seq(Segment)
         /\ \A g : Carries(r, g) => Carries(w, g)
         /\ Cardinality(FinsOn(r)) + One("FIN" \in w[i].flags)
              <= Cardinality(FinsOn(w))
  <1>1. CASE r = Without(w, i)
    <2>1. /\ r \in Seq(Segment) /\ Len(r) = Len(w) - 1 /\ Len(w) \in Nat
          /\ \A j \in 1 .. Len(w) - 1 : r[j] = w[IF j < i THEN j ELSE j + 1]
      BY <1>1, WithoutFacts
    <2>2. ASSUME NEW g, Carries(r, g) PROVE Carries(w, g)
      <3>1. PICK j \in 1 .. Len(w) - 1 : r[j] = g
        BY <2>1, <2>2 DEF Carries
      <3>2. (IF j < i THEN j ELSE j + 1) \in 1 .. Len(w)
        BY <2>1
      <3> QED BY <2>1, <3>1, <3>2 DEF Carries
    <2> QED BY <1>1, <2>1, <2>2, WithoutFins
  <1>2. CASE r # Without(w, i)
    <2>1. r = w /\ "FIN" \notin w[i].flags
      BY <1>2 DEF Received
    <2>2. Cardinality(FinsOn(w)) \in Nat
      BY FinsFinite
    <2> QED BY <2>1, <2>2 DEF One
  <1> QED BY <1>1, <1>2

(* The first n frames. *)
LEMMA PrefixFacts ==
  ASSUME NEW s \in Seq(Segment), NEW n \in 0 .. Len(s)
  PROVE  /\ SubSeq(s, 1, n) \in Seq(Segment) /\ Len(SubSeq(s, 1, n)) = n
         /\ \A j \in 1 .. n : SubSeq(s, 1, n)[j] = s[j]
  OBVIOUS

(* Frames put on a wire of bounded capacity: nothing else appears.         *)
LEMMA AppendFacts ==
  ASSUME NEW w \in Seq(Segment), NEW segs \in Seq(Segment), NEW r,
         r = LET all == w \o segs IN SubSeq(all, 1, AtMost(Len(all), WireCap))
  PROVE  /\ r \in Seq(Segment)
         /\ \A g : Carries(r, g) => Carries(w, g) \/ Carries(segs, g)
  <1> DEFINE all == w \o segs
             n == AtMost(Len(all), WireCap)
  <1>1. /\ all \in Seq(Segment) /\ Len(all) = Len(w) + Len(segs)
        /\ \A j \in 1 .. Len(all) : all[j] = IF j <= Len(w) THEN w[j] ELSE segs[j - Len(w)]
    OBVIOUS
  <1>2. Len(w) \in Nat /\ Len(segs) \in Nat /\ n \in 0 .. Len(all)
    BY <1>1, AtMostType, NumAssumption
  <1>3. r = SubSeq(all, 1, n)
    OBVIOUS
  <1> HIDE DEF all, n
  <1>4. /\ r \in Seq(Segment) /\ Len(r) = n
        /\ \A j \in 1 .. n : r[j] = all[j]
    <2>1. all \in Seq(Segment) /\ n \in 0 .. Len(all)
      BY <1>1, <1>2
    <2> QED BY <1>3, <2>1, PrefixFacts
  <1>5. ASSUME NEW g, Carries(r, g) PROVE Carries(w, g) \/ Carries(segs, g)
    <2>1. PICK j \in 1 .. n : r[j] = g
      BY <1>4, <1>5 DEF Carries
    <2>2. g = all[j] /\ j \in 1 .. Len(all)
      BY <1>1, <1>2, <1>4, <2>1
    <2>3. CASE j <= Len(w)
      BY <1>1, <1>2, <2>2, <2>3 DEF Carries
    <2>4. CASE ~(j <= Len(w))
      <3>1. g = segs[j - Len(w)] /\ j - Len(w) \in 1 .. Len(segs)
        BY <1>1, <1>2, <2>2, <2>4
      <3> QED BY <3>1 DEF Carries
    <2> QED BY <2>3, <2>4
  <1> QED BY <1>4, <1>5

(* One frame more is at most one FIN more. *)
LEMMA AppendFins ==
  ASSUME NEW w \in Seq(Segment), NEW g \in Segment, NEW r,
         r = LET all == w \o <<g>> IN SubSeq(all, 1, AtMost(Len(all), WireCap))
  PROVE  Cardinality(FinsOn(r)) <= Cardinality(FinsOn(w)) + One("FIN" \in g.flags)
  <1> DEFINE all == w \o <<g>>
             n == AtMost(Len(all), WireCap)
             m == Len(w) + 1
  <1>1. /\ all \in Seq(Segment) /\ Len(all) = m /\ Len(w) \in Nat
        /\ \A j \in 1 .. Len(w) : all[j] = w[j]
        /\ all[m] = g
    OBVIOUS
  <1>2. n \in 0 .. m
    BY <1>1, AtMostType, NumAssumption
  <1>3. r = SubSeq(all, 1, n)
    OBVIOUS
  <1> HIDE DEF all, n
  <1>4. Len(r) = n /\ \A j \in 1 .. n : r[j] = all[j]
    <2>1. all \in Seq(Segment) /\ n \in 0 .. Len(all)
      BY <1>1, <1>2
    <2> QED BY <1>3, <2>1, PrefixFacts
  <1>5. /\ IsFiniteSet(FinsOn(w)) /\ Cardinality(FinsOn(w)) \in Nat
    BY FinsFinite
  <1>6. ASSUME NEW j \in FinsOn(r)
        PROVE  j \in FinsOn(w) \/ (j = m /\ "FIN" \in g.flags)
    <2>1. j \in 1 .. n /\ "FIN" \in all[j].flags
      BY <1>4 DEF FinsOn
    <2>2. j \in 1 .. Len(w) \/ j = m
      BY <1>1, <1>2, <2>1
    <2> HIDE DEF m
    <2>3. CASE j = m
      BY <1>1, <2>1, <2>3
    <2>4. CASE j \in 1 .. Len(w)
      <3>1. "FIN" \in w[j].flags
        BY <1>1, <2>1, <2>4
      <3>2. j \in FinsOn(w)
        BY <2>4, <3>1, Zenon DEF FinsOn
      <3> QED BY <3>2
    <2> QED BY <2>2, <2>3, <2>4
  <1>7. CASE "FIN" \in g.flags
    <2>1. FinsOn(r) \in SUBSET (FinsOn(w) \cup {m})
      BY <1>6
    <2>2. /\ IsFiniteSet(FinsOn(w) \cup {m})
          /\ Cardinality(FinsOn(w) \cup {m}) \in
               {Cardinality(FinsOn(w)), Cardinality(FinsOn(w)) + 1}
      BY <1>5, FS_AddElement
    <2>3. /\ Cardinality(FinsOn(r)) <= Cardinality(FinsOn(w) \cup {m})
          /\ IsFiniteSet(FinsOn(r))
      BY <2>1, <2>2, FS_Subset
    <2>4. Cardinality(FinsOn(r)) \in Nat
      BY <2>3, FS_CardinalityType
    <2> QED BY <1>5, <1>7, <2>2, <2>3, <2>4 DEF One
  <1>8. CASE "FIN" \notin g.flags
    <2>1. FinsOn(r) \in SUBSET FinsOn(w)
      BY <1>6, <1>8
    <2>2. Cardinality(FinsOn(r)) <= Cardinality(FinsOn(w)) /\ IsFiniteSet(FinsOn(r))
      BY <1>5, <2>1, FS_Subset
    <2> QED BY <1>5, <1>8, <2>2 DEF One
  <1> QED BY <1>7, <1>8
-----------------------------------------------------------------------------
(* The invariant.  Flow(b) describes a live connection of which the guest's*)
(* first byte has, or will have, sequence number b.                        *)

(* Bytes the guest has received, taken by the driver or not.               *)
Arrived == Len(got) + Len(rx)

(* The peer knows the guest's initial sequence number. *)
Heard == peer.rcvNxt # 0

(* The guest has the peer's initial sequence number. *)
Opened == cb.state \in Streaming \cup {"SYNRECV"}

(* The guest was told of the peer's FIN. *)
SawFin == cb.state \in {"CLOSE_WAIT", "LAST_ACK"}

(* Nothing that the guest sent can open a connection.                      *)
Silent == \/ cb.state \in {"INIT", "LISTEN"}
          \/ (cb.state = "SYNSENT" /\ cb.sndNxt = cb.sndUna)
          \/ (cb.state = "SYNRECV" /\ ~cb.peerMacKnown)

(* The guest's stream fits below the modulus. *)
Fits(b) == b > 0 /\ b + trial.guestBytes + 1 < SeqMod

(* Before the stream is open nothing was written, sent or received.        *)
Quiet ==
  cb.state \notin Streaming =>
    /\ reg.txWr = 0 /\ reg.txRd = 0 /\ ~cb.finSent /\ cb.retxBuf = <<>>
    /\ Len(got) = 0 /\ Len(rx) = 0

(* The handshake, as the guest sees it. *)
Opening(b) ==
  /\ cb.state \in {"INIT", "LISTEN", "SYNSENT", "SYNRECV"} \cup Streaming
  /\ Silent => ~Heard
  /\ cb.state = "SYNSENT" =>
       /\ cb.sndUna \in Isns /\ b = cb.sndUna + 1
       /\ cb.sndNxt \in {cb.sndUna, b}
       /\ trial.opener = "peer" => ~Heard
  /\ cb.state = "SYNRECV" =>
       /\ trial.opener = "peer"
       /\ cb.peerMacKnown => cb.sndNxt = b
  /\ cb.state \in Streaming => Heard /\ cb.peerMacKnown

(* The handshake, as the peer sees it. *)
PeerSide ==
  /\ peer.st \in {"listen", "synrcvd"} => trial.opener = "guest"
  /\ peer.st \in {"connect", "synsent"} => trial.opener = "peer"
  /\ peer.st \in {"listen", "connect", "synsent"} => ~Heard
  /\ peer.st \in {"listen", "connect"} => peer.nxt = 0
  /\ peer.st \in {"synsent", "synrcvd"} => peer.nxt = 1
  /\ peer.st \in {"listen", "connect", "synsent", "synrcvd"} =>
       peer.una = 0 /\ peer.finAt = 0
  /\ peer.st = "synrcvd" => Heard /\ Len(peerGot) = 0 /\ ~peer.finRcvd
  /\ peer.st = "estab" => Heard /\ peer.una >= 1 /\ Opened
  /\ peer.una <= peer.nxt
  /\ ~Heard => Len(peerGot) = 0 /\ ~peer.finRcvd

(* Guest to peer: what the peer has is a prefix of what was sent, and only *)
(* what it has is given back to the driver.                                *)
OutFlow(b) ==
  /\ Heard => peer.rcvNxt = b + Len(peerGot) + One(peer.finRcvd)
  /\ Run(peerGot, 0)
  /\ peer.finRcvd => cb.finSent /\ peer.rcvNxt = cb.sndNxt
  /\ Len(peerGot) <= reg.txWr /\ reg.txWr <= trial.guestBytes
  /\ cb.state \in Streaming =>
       /\ b <= cb.sndUna /\ cb.sndUna <= peer.rcvNxt
       /\ b + Len(peerGot) <= cb.sndNxt
       /\ cb.sndNxt <= b + reg.txWr + One(cb.finSent)
  /\ cb.finSent => cb.state \in {"FIN_WAIT", "LAST_ACK"}
  /\ cb.state = "ESTABLISHED" =>
       /\ reg.txRd <= Len(peerGot)
       /\ cb.sndNxt = b + reg.txRd + Len(cb.retxBuf)
       /\ cb.retxBuf # <<>> => cb.retxSeq = b + reg.txRd

(* Bytes sent, or kept, at a sequence number: those of the guest's stream, *)
(* and none beyond the next the peer waits for.                            *)
OutBytes(b, seq, data) ==
  /\ b <= seq /\ seq <= b + Len(peerGot)
  /\ Run(data, seq - b)
  /\ seq + Len(data) <= cb.sndNxt
  /\ seq + Len(data) <= b + reg.txWr

Kept(b) == cb.retxBuf # <<>> => OutBytes(b, cb.retxSeq, cb.retxBuf)

(* Segments to the peer. *)
OutSeg(b, g) ==
  \/ "RST" \in g.flags
  \/ /\ g.flags = {"SYN"} /\ g.data = <<>>
     /\ trial.opener = "guest" => g.seq + 1 = b /\ ~Silent
  \/ /\ g.flags = {"SYN", "ACK"} /\ g.data = <<>>
     /\ trial.opener = "peer" /\ Opened /\ ~Silent
     /\ g.seq + 1 = b /\ g.ack = PeerIsn + 1
  \/ /\ g.flags \in {{"ACK"}, {"FIN", "ACK"}}
     /\ cb.state \in Streaming
     /\ ~SawFin => PeerIsn + 1 <= g.ack /\ g.ack <= cb.rcvNxt
     /\ "FIN" \in g.flags => g.data = <<>> /\ cb.finSent /\ g.seq + 1 = cb.sndNxt
     /\ g.data # <<>> => OutBytes(b, g.seq, g.data)

OutWire(b) == \A g \in Segment : Carries(toPeer, g) => OutSeg(b, g)

(* Peer to guest: the guest has a prefix of what the peer sent, the peer   *)
(* believes no more to have arrived, and its FIN, if any, comes after all. *)
InFlow ==
  /\ Run(got, 0) /\ Run(rx, Len(got))
  /\ Opened /\ ~SawFin => /\ cb.rcvNxt = PeerIsn + 1 + Arrived
                          /\ Arrived + 1 <= peer.nxt
  /\ SawFin => peer.finAt # 0 /\ cb.rcvNxt >= PeerIsn + 2 + Arrived
  /\ ~SawFin => peer.una <= Arrived + 1
  /\ peer.finAt = 0 => peer.nxt <= trial.peerBytes + 1
  /\ peer.finAt # 0 => /\ peer.finAt = Arrived + 1 /\ peer.nxt = peer.finAt + 1
                       /\ peer.finAt <= trial.peerBytes + 1

(* FINs the guest counted: each moves RCV.NXT, the first and any other.    *)
Counted == IF Opened THEN cb.rcvNxt - (PeerIsn + 1 + Arrived) ELSE 0

(* The FINs the guest counted and those in flight are among those sent.    *)
FinBudget ==
  /\ peer.fins <= MaxFins
  /\ Cardinality(FinsOn(toGuest)) + Counted <= peer.fins

(* Bytes of the peer's stream at a sequence number. *)
InBytes(seq, data) ==
  /\ PeerIsn + 1 <= seq
  /\ Run(data, seq - (PeerIsn + 1))
  /\ seq + Len(data) <= PeerIsn + peer.nxt
  /\ peer.finAt # 0 => seq + Len(data) <= PeerIsn + peer.finAt

(* Segments to the guest. *)
InSeg(b, g) ==
  \/ "RST" \in g.flags
  \/ /\ g.flags = {"SYN"} /\ g.data = <<>> /\ g.seq = PeerIsn
     /\ trial.opener = "peer" /\ peer.nxt >= 1
  \/ /\ g.flags = {"SYN", "ACK"} /\ g.data = <<>> /\ g.seq = PeerIsn /\ g.ack = b
     /\ trial.opener = "guest" /\ peer.nxt >= 1 /\ Heard
  \/ /\ g.flags \in {{"ACK"}, {"FIN", "ACK"}}
     /\ Heard /\ Opened /\ b <= g.ack /\ g.ack <= peer.rcvNxt
     /\ "FIN" \in g.flags => g.data = <<>> /\ peer.finAt # 0
     /\ g.data # <<>> => InBytes(g.seq, g.data)

InWire(b) == \A g \in Segment : Carries(toGuest, g) => InSeg(b, g)

Flow(b) ==
  /\ Fits(b) /\ Quiet /\ Opening(b) /\ PeerSide
  /\ OutFlow(b) /\ Kept(b) /\ OutWire(b)
  /\ InFlow /\ FinBudget /\ InWire(b)

LinkTypes ==
  /\ SendInv
  /\ peer \in PeerCb /\ peerGot \in Seq(Nat) /\ got \in Seq(Nat)
  /\ toGuest \in Seq(Segment) /\ trial \in Trials

(* Nothing is followed once the stack dropped the control block.           *)
LinkInv == LinkTypes /\ (cb.active => \E b \in Nat : Flow(b))

-----------------------------------------------------------------------------
(* Types *)

(* The numbers of a connection are numbers. *)
Numbers ==
  /\ SeqMod \in Nat /\ SeqMod > 0 /\ PeerIsn \in Nat /\ PeerIsn < SeqMod
  /\ BufSize \in Nat /\ Mss \in Nat /\ MaxFins \in Nat
  /\ cb.sndUna \in Nat /\ cb.sndNxt \in Nat /\ cb.rcvNxt \in Nat
  /\ cb.retxSeq \in Nat /\ cb.retxBuf \in Seq(Nat) /\ Len(cb.retxBuf) \in Nat
  /\ reg.txRd \in Nat /\ reg.txWr \in Nat
  /\ rx \in Seq(Nat) /\ Len(rx) \in Nat /\ got \in Seq(Nat) /\ Len(got) \in Nat
  /\ Arrived \in Nat
  /\ peerGot \in Seq(Nat) /\ Len(peerGot) \in Nat
  /\ peer.una \in Nat /\ peer.nxt \in Nat /\ peer.finAt \in Nat
  /\ peer.fins \in Nat /\ peer.rcvNxt \in Nat
  /\ trial.guestBytes \in Nat /\ trial.peerBytes \in Nat
  /\ trial.opener \in {"guest", "peer"}
  /\ peer.finRcvd \in BOOLEAN /\ cb.finSent \in BOOLEAN
  /\ cb.peerMacKnown \in BOOLEAN /\ peer.st \in PeerStates

LEMMA LinkNumbers == LinkTypes => Numbers
  <1> SUFFICES ASSUME LinkTypes PROVE Numbers
    OBVIOUS
  <1> USE DEF LinkTypes, SendInv, StatusInv, TypeRx, TypeOK
  <1>1. /\ SeqMod \in Nat /\ SeqMod > 0 /\ BufSize \in Nat /\ Mss \in Nat
        /\ PeerIsn \in SeqNum /\ MaxFins \in Nat /\ Trials \subseteq Trial
    BY NumAssumption, LinkAssumption
  <1>2. \A n \in SeqNum : n \in Nat /\ n < SeqMod
    BY <1>1 DEF SeqNum
  <1>3. /\ cb.sndUna \in SeqNum /\ cb.sndNxt \in SeqNum /\ cb.rcvNxt \in SeqNum
        /\ cb.retxSeq \in SeqNum /\ cb.retxBuf \in Seq(Nat)
        /\ cb.finSent \in BOOLEAN /\ cb.peerMacKnown \in BOOLEAN
    BY DEF TcpCb
  <1>4. /\ peer.una \in Nat /\ peer.nxt \in Nat /\ peer.finAt \in Nat
        /\ peer.fins \in Nat /\ peer.rcvNxt \in SeqNum
        /\ peer.finRcvd \in BOOLEAN /\ peer.st \in PeerStates
    BY DEF PeerCb
  <1>5. /\ trial.guestBytes \in Nat /\ trial.peerBytes \in Nat
        /\ trial.opener \in {"guest", "peer"}
    BY <1>1 DEF Trial
  <1>6. reg.txRd \in Nat /\ reg.txWr \in Nat
    BY DEF SockRegs
  <1>7. /\ Len(rx) \in Nat /\ Len(got) \in Nat /\ Len(peerGot) \in Nat
        /\ Len(cb.retxBuf) \in Nat
    BY <1>3
  <1>8. Arrived \in Nat
    BY <1>7 DEF Arrived
  <1>9. PeerIsn \in Nat /\ PeerIsn < SeqMod /\ peer.rcvNxt \in Nat
    BY <1>1, <1>2, <1>4
  <1>10. /\ cb.sndUna \in Nat /\ cb.sndNxt \in Nat /\ cb.rcvNxt \in Nat
         /\ cb.retxSeq \in Nat
    BY <1>2, <1>3
  <1>11. rx \in Seq(Nat) /\ got \in Seq(Nat) /\ peerGot \in Seq(Nat)
    OBVIOUS
  <1> QED BY <1>1, <1>3, <1>4, <1>5, <1>6, <1>7, <1>8, <1>9, <1>10, <1>11 DEF Numbers

(* Before a step and after it. *)
LEMMA LinkNumbersNext == LinkTypes' => Numbers'
  BY LinkNumbers, PTL

(* So are those of a segment. *)
LEMMA SegmentNumbers ==
  ASSUME NEW g \in Segment
  PROVE  /\ g.seq \in Nat /\ g.ack \in Nat /\ g.data \in Seq(Nat) /\ Len(g.data) \in Nat
         /\ g.seq < SeqMod /\ g.ack < SeqMod
         /\ g.flags \in SUBSET Flags
         /\ (g.data = <<>> => Len(g.data) = 0) /\ (g.data # <<>> => Len(g.data) > 0)
  <1>1. /\ g.seq \in SeqNum /\ g.ack \in SeqNum /\ g.data \in Seq(Nat)
        /\ g.flags \in SUBSET Flags
    BY DEF Segment
  <1>2. \A n \in SeqNum : n \in Nat /\ n < SeqMod
    BY NumAssumption DEF SeqNum
  <1>3. Len(g.data) \in Nat /\ (g.data # <<>> => Len(g.data) > 0)
    BY <1>1
  <1> QED BY <1>1, <1>2, <1>3, EmptySeq

(* Sequence numbers below the modulus are plain numbers. *)
LEMMA NoWrapPlus ==
  ASSUME NEW a \in Nat, NEW n \in Nat, a + n < SeqMod
  PROVE  Plus(a, n) = a + n
  BY NumAssumption, ModSmall DEF Plus

LEMMA NoWrapLess ==
  ASSUME NEW a \in Nat, NEW c \in Nat, c <= a, a < SeqMod
  PROVE  (a - c) % SeqMod = a - c
  <1>1. a - c \in 0 .. SeqMod - 1
    BY NumAssumption
  <1> QED BY <1>1, NumAssumption, ModSmall
-----------------------------------------------------------------------------
(* What is true of a segment in flight stays true while the connection     *)
(* goes on.                                                                *)

OutGrows ==
  /\ trial' = trial
  /\ Silent' => Silent
  /\ Opened => Opened'
  /\ cb.state \in Streaming =>
       /\ cb'.state \in Streaming
       /\ SawFin => SawFin'
       /\ cb.rcvNxt <= cb'.rcvNxt \/ SawFin'
       /\ cb.finSent => cb'.finSent /\ cb'.sndNxt = cb.sndNxt
       /\ cb.sndNxt <= cb'.sndNxt
  /\ Len(peerGot) <= Len(peerGot')
  /\ reg.txWr <= reg'.txWr

InGrows ==
  /\ trial' = trial
  /\ Heard => Heard' /\ peer.rcvNxt <= peer'.rcvNxt
  /\ Opened => Opened'
  /\ peer.nxt <= peer'.nxt
  /\ peer.finAt # 0 => peer'.finAt = peer.finAt
  /\ peer.finAt = 0 /\ peer'.finAt # 0 => peer'.finAt >= peer.nxt

(* Bytes kept at both ends as long as the streams only grow. *)
LEMMA OutBytesKept ==
  ASSUME Numbers, Numbers', NEW b \in Nat, NEW seq \in Nat, NEW data \in Seq(Nat),
         OutBytes(b, seq, data), cb.sndNxt <= cb'.sndNxt,
         Len(peerGot) <= Len(peerGot'), reg.txWr <= reg'.txWr
  PROVE  OutBytes(b, seq, data)'
  <1>1. /\ Len(peerGot) \in Nat /\ Len(peerGot') \in Nat /\ cb.sndNxt \in Nat
        /\ cb'.sndNxt \in Nat /\ reg.txWr \in Nat /\ reg'.txWr \in Nat
        /\ Len(data) \in Nat
    BY DEF Numbers
  <1> QED BY <1>1, SMTT(20) DEF OutBytes, Run

LEMMA InBytesKept ==
  ASSUME Numbers, Numbers', NEW seq \in Nat, NEW data \in Seq(Nat),
         InBytes(seq, data), peer.nxt <= peer'.nxt,
         peer.finAt # 0 => peer'.finAt = peer.finAt,
         peer.finAt = 0 /\ peer'.finAt # 0 => peer'.finAt >= peer.nxt
  PROVE  InBytes(seq, data)'
  <1>1. /\ peer.nxt \in Nat /\ peer'.nxt \in Nat /\ peer.finAt \in Nat
        /\ peer'.finAt \in Nat /\ PeerIsn \in Nat /\ Len(data) \in Nat
    BY DEF Numbers
  <1> QED BY <1>1 DEF InBytes, Run

(* Segments to the peer. *)
LEMMA OutSegKept ==
  ASSUME Numbers, Numbers', NEW b \in Nat, NEW g \in Segment, OutSeg(b, g), OutGrows
  PROVE  OutSeg(b, g)'
  <1> USE DEF OutGrows
  <1>1. CASE "RST" \in g.flags
    BY <1>1 DEF OutSeg
  <1>2. CASE /\ g.flags = {"SYN"} /\ g.data = <<>>
             /\ trial.opener = "guest" => g.seq + 1 = b /\ ~Silent
    BY <1>2 DEF OutSeg
  <1>3. CASE /\ g.flags = {"SYN", "ACK"} /\ g.data = <<>>
             /\ trial.opener = "peer" /\ Opened /\ ~Silent
             /\ g.seq + 1 = b /\ g.ack = PeerIsn + 1
    BY <1>3 DEF OutSeg
  <1>4. CASE /\ g.flags \in {{"ACK"}, {"FIN", "ACK"}}
             /\ cb.state \in Streaming
             /\ ~SawFin => PeerIsn + 1 <= g.ack /\ g.ack <= cb.rcvNxt
             /\ "FIN" \in g.flags => g.data = <<>> /\ cb.finSent /\ g.seq + 1 = cb.sndNxt
             /\ g.data # <<>> => OutBytes(b, g.seq, g.data)
    <2>1. cb'.state \in Streaming
      BY <1>4
    <2>2. ~SawFin' => PeerIsn + 1 <= g.ack /\ g.ack <= cb'.rcvNxt
      <3>1. g.ack \in Nat /\ cb.rcvNxt \in Nat /\ cb'.rcvNxt \in Nat
        BY SegmentNumbers DEF Numbers
      <3>2. ASSUME ~SawFin' PROVE ~SawFin /\ cb.rcvNxt <= cb'.rcvNxt
        BY <1>4, <3>2
      <3> QED BY <1>4, <3>1, <3>2
    <2>3. "FIN" \in g.flags => g.data = <<>> /\ cb'.finSent /\ g.seq + 1 = cb'.sndNxt
      BY <1>4
    <2>4. g.data # <<>> => OutBytes(b, g.seq, g.data)'
      BY <1>4, SegmentNumbers, OutBytesKept
    <2> QED BY <1>4, <2>1, <2>2, <2>3, <2>4 DEF OutSeg
  <1> QED BY <1>1, <1>2, <1>3, <1>4 DEF OutSeg

(* Segments to the guest. *)
LEMMA InSegKept ==
  ASSUME Numbers, Numbers', NEW b \in Nat, NEW g \in Segment, InSeg(b, g), InGrows
  PROVE  InSeg(b, g)'
  <1> USE DEF InGrows
  <1>0. /\ g.ack \in Nat /\ peer.rcvNxt \in Nat /\ peer'.rcvNxt \in Nat
        /\ peer.nxt \in Nat /\ peer'.nxt \in Nat
    BY SegmentNumbers DEF Numbers
  <1>1. CASE "RST" \in g.flags
    BY <1>1 DEF InSeg
  <1>2. CASE /\ g.flags = {"SYN"} /\ g.data = <<>> /\ g.seq = PeerIsn
             /\ trial.opener = "peer" /\ peer.nxt >= 1
    BY <1>0, <1>2 DEF InSeg
  <1>3. CASE /\ g.flags = {"SYN", "ACK"} /\ g.data = <<>> /\ g.seq = PeerIsn /\ g.ack = b
             /\ trial.opener = "guest" /\ peer.nxt >= 1 /\ Heard
    BY <1>0, <1>3 DEF InSeg
  <1>4. CASE /\ g.flags \in {{"ACK"}, {"FIN", "ACK"}}
             /\ Heard /\ Opened /\ b <= g.ack /\ g.ack <= peer.rcvNxt
             /\ "FIN" \in g.flags => g.data = <<>> /\ peer.finAt # 0
             /\ g.data # <<>> => InBytes(g.seq, g.data)
    <2>1. Heard' /\ Opened' /\ b <= g.ack /\ g.ack <= peer'.rcvNxt
      BY <1>0, <1>4
    <2>2. "FIN" \in g.flags => g.data = <<>> /\ peer'.finAt # 0
      BY <1>4
    <2>3. g.data # <<>> => InBytes(g.seq, g.data)'
      BY <1>4, SegmentNumbers, InBytesKept
    <2> QED BY <1>4, <2>1, <2>2, <2>3 DEF InSeg
  <1> QED BY <1>1, <1>2, <1>3, <1>4 DEF InSeg

(* A wire carries what it carried and what was put on it.                  *)
LEMMA OutWireKept ==
  ASSUME Numbers, Numbers', NEW b \in Nat, OutWire(b), OutGrows,
         \A g \in Segment : Carries(toPeer', g) => Carries(toPeer, g) \/ OutSeg(b, g)'
  PROVE  OutWire(b)'
  <1>1. ASSUME NEW g \in Segment, Carries(toPeer', g) PROVE OutSeg(b, g)'
    BY <1>1, OutSegKept DEF OutWire
  <1>2. \A g \in Segment : Carries(toPeer, g)' <=> Carries(toPeer', g)
    BY DEF Carries
  <1> QED BY <1>1, <1>2 DEF OutWire

LEMMA InWireKept ==
  ASSUME Numbers, Numbers', NEW b \in Nat, InWire(b), InGrows,
         \A g \in Segment : Carries(toGuest', g) => Carries(toGuest, g) \/ InSeg(b, g)'
  PROVE  InWire(b)'
  <1>1. ASSUME NEW g \in Segment, Carries(toGuest', g) PROVE InSeg(b, g)'
    BY <1>1, InSegKept DEF InWire
  <1>2. \A g \in Segment : Carries(toGuest, g)' <=> Carries(toGuest', g)
    BY DEF Carries
  <1> QED BY <1>1, <1>2 DEF InWire
-----------------------------------------------------------------------------
(* What the peer's steps and the wire do *)

(* A packet is a segment with the fields it is given.                      *)
LEMMA PacketFields ==
  ASSUME NEW seq \in SeqNum, NEW ack \in SeqNum, NEW flags \in SUBSET Flags,
         NEW data \in Seq(Nat)
  PROVE  /\ Packet(seq, ack, flags, data) \in Segment
         /\ Packet(seq, ack, flags, data).seq = seq
         /\ Packet(seq, ack, flags, data).ack = ack
         /\ Packet(seq, ack, flags, data).flags = flags
         /\ Packet(seq, ack, flags, data).data = data
  BY DEF Packet, Segment

(* One without data. *)
LEMMA EmptyPacket ==
  \A seq, ack \in SeqNum : \A flags \in SUBSET Flags :
    /\ Packet(seq, ack, flags, <<>>) \in Segment
    /\ Packet(seq, ack, flags, <<>>).seq = seq
    /\ Packet(seq, ack, flags, <<>>).ack = ack
    /\ Packet(seq, ack, flags, <<>>).flags = flags
    /\ Packet(seq, ack, flags, <<>>).data = <<>>
  BY EmptySeq DEF Packet, Segment

(* A frame the peer sends is the only new one.                             *)
LEMMA ToGuestAdds ==
  ASSUME toGuest \in Seq(Segment), NEW g \in Segment, PeerTransmits(<<g>>)
  PROVE  /\ toGuest' \in Seq(Segment)
         /\ \A h : Carries(toGuest', h) => Carries(toGuest, h) \/ h = g
         /\ Cardinality(FinsOn(toGuest')) <=
              Cardinality(FinsOn(toGuest)) + One("FIN" \in g.flags)
  <1>1. toGuest' = LET all == toGuest \o <<g>>
                   IN  SubSeq(all, 1, AtMost(Len(all), WireCap))
    BY DEF PeerTransmits
  <1>2. <<g>> \in Seq(Segment) /\ \A h : Carries(<<g>>, h) => h = g
    BY DEF Carries
  <1>3. /\ toGuest' \in Seq(Segment)
        /\ \A h : Carries(toGuest', h) => Carries(toGuest, h) \/ Carries(<<g>>, h)
    BY <1>1, <1>2, AppendFacts
  <1>4. Cardinality(FinsOn(toGuest')) <=
              Cardinality(FinsOn(toGuest)) + One("FIN" \in g.flags)
    BY <1>1, AppendFins
  <1> QED BY <1>2, <1>3, <1>4

(* So is a frame the guest sends. *)
LEMMA ToPeerAdds ==
  ASSUME toPeer \in Seq(Segment), NEW segs \in Seq(Segment), Transmit(segs)
  PROVE  /\ toPeer' \in Seq(Segment)
         /\ \A h : Carries(toPeer', h) => Carries(toPeer, h) \/ Carries(segs, h)
  <1>1. toPeer' = LET all == toPeer \o segs
                  IN  SubSeq(all, 1, AtMost(Len(all), WireCap))
    BY DEF Transmit
  <1> QED BY <1>1, AppendFacts

(* One frame. *)
LEMMA CarriesOne == \A g, h : Carries(<<g>>, h) => h = g
  BY DEF Carries

(* A sequence number of the peer. *)
LEMMA PeerSeqType == \A off \in Nat : PeerSeq(off) \in SeqNum
  <1>1. PeerIsn \in Int
    BY NumAssumption, LinkAssumption DEF SeqNum
  <1> QED BY <1>1, PlusType DEF PeerSeq

(* The peer opens, or opens again. *)
LEMMA PeerSynEffect ==
  ASSUME LinkTypes, PeerSyn
  PROVE  /\ peer' = [peer EXCEPT !.st = IF peer.st = "connect" THEN "synsent" ELSE peer.st,
                                 !.nxt = 1]
         /\ peer' \in PeerCb
         /\ \E g \in Segment :
              /\ PeerTransmits(<<g>>)
              /\ g.seq = PeerIsn /\ g.ack = peer.rcvNxt /\ g.data = <<>>
              /\ g.flags = IF peer.st = "synrcvd" THEN {"SYN", "ACK"} ELSE {"SYN"}
  <1> DEFINE fl == IF peer.st = "synrcvd" THEN {"SYN", "ACK"} ELSE {"SYN"}
             g == Packet(PeerIsn, peer.rcvNxt, fl, <<>>)
             st1 == IF peer.st = "connect" THEN "synsent" ELSE peer.st
  <1>1. /\ PeerIsn \in SeqNum /\ peer.rcvNxt \in SeqNum /\ fl \in SUBSET Flags
        /\ peer \in PeerCb
    BY LinkAssumption DEF LinkTypes, PeerCb, Flags
  <1>2. peer' = [peer EXCEPT !.st = st1, !.nxt = 1] /\ PeerTransmits(<<g>>)
    BY DEF PeerSyn
  <1>3. st1 \in PeerStates /\ 1 \in Nat
    BY <1>1 DEF PeerCb, PeerStates
  <1> HIDE DEF fl
  <1>4. /\ g \in Segment /\ g.seq = PeerIsn /\ g.ack = peer.rcvNxt /\ g.data = <<>>
        /\ g.flags = fl
    BY <1>1, EmptyPacket
  <1> HIDE DEF g, st1
  <1>5. peer' \in PeerCb
    BY <1>1, <1>2, <1>3 DEF PeerCb
  <1> QED BY <1>2, <1>4, <1>5 DEF fl, st1

(* The peer sends bytes of its stream, new ones or again. *)
LEMMA PeerDataEffect ==
  ASSUME LinkTypes, PeerData
  PROVE  \E off \in Nat, n \in Nat, g \in Segment :
           /\ off >= 1 /\ peer.una <= off /\ off <= peer.nxt /\ n >= 1
           /\ off + n - 1 <= IF peer.finAt = 0 THEN trial.peerBytes ELSE peer.finAt - 1
           /\ peer' = [peer EXCEPT !.nxt = Later(peer.nxt, off + n)]
           /\ peer' \in PeerCb
           /\ PeerTransmits(<<g>>)
           /\ g.seq = PeerSeq(off) /\ g.ack = peer.rcvNxt /\ g.flags = {"ACK"}
           /\ Len(g.data) = n /\ Run(g.data, off - 1)
  <1>1. /\ peer \in PeerCb /\ peer.una \in Nat /\ peer.nxt \in Nat
        /\ peer.rcvNxt \in SeqNum /\ Mss \in Nat
    BY NumAssumption DEF LinkTypes, PeerCb
  <1>2. PICK off \in peer.una .. peer.nxt, n \in 1 .. Mss :
          /\ off >= 1
          /\ off + n - 1 <= IF peer.finAt = 0 THEN trial.peerBytes ELSE peer.finAt - 1
          /\ peer' = [peer EXCEPT !.nxt = Later(@, off + n)]
          /\ PeerTransmits(<<Packet(PeerSeq(off), peer.rcvNxt, {"ACK"},
                                    [i \in 1 .. n |-> off + i - 1])>>)
    BY DEF PeerData
  <1>3. off \in Nat /\ n \in Nat /\ n >= 1 /\ peer.una <= off /\ off <= peer.nxt
    BY <1>1
  <1> DEFINE data == [i \in 1 .. n |-> off + i - 1]
             g == Packet(PeerSeq(off), peer.rcvNxt, {"ACK"}, data)
             top == Later(peer.nxt, off + n)
  <1>4. data \in Seq(Nat) /\ Len(data) = n /\ \A i \in 1 .. n : data[i] = off + i - 1
    BY <1>2, <1>3, SMTT(20)
  <1> HIDE DEF data
  <1>5. Run(data, off - 1)
    BY <1>3, <1>4 DEF Run
  <1>6. /\ g \in Segment /\ g.seq = PeerSeq(off) /\ g.ack = peer.rcvNxt
        /\ g.flags = {"ACK"} /\ g.data = data
    <2>1. PeerSeq(off) \in SeqNum /\ {"ACK"} \in SUBSET Flags
      BY <1>3, PeerSeqType DEF Flags
    <2> QED BY <1>1, <1>4, <2>1, PacketFields
  <1>7. PeerTransmits(<<g>>)
    BY <1>2 DEF data
  <1>8. top \in Nat /\ peer' = [peer EXCEPT !.nxt = top]
    BY <1>1, <1>2, <1>3 DEF Later
  <1> HIDE DEF g, top
  <1>9. peer' \in PeerCb
    BY <1>1, <1>8 DEF PeerCb
  <1>10. peer' = [peer EXCEPT !.nxt = Later(peer.nxt, off + n)]
    BY <1>8 DEF top
  <1> QED BY <1>2, <1>3, <1>4, <1>5, <1>6, <1>7, <1>9, <1>10

(* The peer closes its half, or says so again. *)
LEMMA PeerFinEffect ==
  ASSUME LinkTypes, PeerFin
  PROVE  \E at \in Nat, g \in Segment :
           /\ at = IF peer.finAt = 0 THEN peer.nxt ELSE peer.finAt
           /\ peer' = [peer EXCEPT !.finAt = at, !.nxt = at + 1, !.fins = peer.fins + 1]
           /\ peer' \in PeerCb
           /\ PeerTransmits(<<g>>)
           /\ g.seq = PeerSeq(at) /\ g.ack = peer.rcvNxt /\ g.flags = {"FIN", "ACK"}
           /\ g.data = <<>>
  <1> DEFINE at == IF peer.finAt = 0 THEN peer.nxt ELSE peer.finAt
             g == Packet(PeerSeq(at), peer.rcvNxt, {"FIN", "ACK"}, <<>>)
             next == at + 1
             cnt == peer.fins + 1
  <1>1. /\ peer \in PeerCb /\ peer.finAt \in Nat /\ peer.nxt \in Nat
        /\ peer.rcvNxt \in SeqNum /\ peer.fins \in Nat
    BY DEF LinkTypes, PeerCb
  <1>2. at \in Nat /\ next \in Nat /\ cnt \in Nat
    BY <1>1
  <1>3. /\ peer' = [peer EXCEPT !.finAt = at, !.nxt = next, !.fins = cnt]
        /\ PeerTransmits(<<g>>)
    BY DEF PeerFin
  <1> HIDE DEF at
  <1>4. /\ g \in Segment /\ g.seq = PeerSeq(at) /\ g.ack = peer.rcvNxt
        /\ g.flags = {"FIN", "ACK"} /\ g.data = <<>>
    <2>1. PeerSeq(at) \in SeqNum /\ {"FIN", "ACK"} \in SUBSET Flags
      BY <1>2, PeerSeqType DEF Flags
    <2> QED BY <1>1, <2>1, EmptyPacket
  <1> HIDE DEF g, next, cnt
  <1>5. peer' \in PeerCb
    BY <1>1, <1>2, <1>3 DEF PeerCb
  <1> QED BY <1>2, <1>3, <1>4, <1>5 DEF at, next, cnt
(* The acknowledgement a peer p sends. *)
PureAck(p, g) ==
  /\ g.seq = PeerSeq(p.nxt) /\ g.ack = p.rcvNxt /\ g.flags = {"ACK"} /\ g.data = <<>>

LEMMA AckFields ==
  ASSUME NEW p \in PeerCb
  PROVE  Ack(p) \in Segment /\ PureAck(p, Ack(p))
  <1>1. p.nxt \in Nat /\ p.rcvNxt \in SeqNum /\ {"ACK"} \in SUBSET Flags
    BY DEF PeerCb, Flags
  <1>2. PeerSeq(p.nxt) \in SeqNum
    BY <1>1, PeerSeqType
  <1> QED BY <1>1, <1>2, EmptyPacket DEF Ack, PureAck

(* A segment of an open connection reaches the peer.                       *)
LEMMA PeerStreamEffect ==
  ASSUME LinkTypes, NEW seg \in Segment, PeerStream(seg)
  PROVE  LET off   == PeerOff(seg.ack)
             acked == "ACK" \in seg.flags /\ off \in peer.una + 1 .. peer.nxt
             old   == (peer.rcvNxt - seg.seq) % SeqMod
             fresh == ~peer.finRcvd /\ old < Len(seg.data)
             rcv1  == IF fresh THEN Plus(seg.seq, Len(seg.data)) ELSE peer.rcvNxt
             fin   == "FIN" \in seg.flags /\ rcv1 = Plus(seg.seq, Len(seg.data))
         IN  /\ peer'.st = peer.st /\ peer'.nxt = peer.nxt
             /\ peer'.finAt = peer.finAt /\ peer'.fins = peer.fins
             /\ peer'.una = IF acked THEN off ELSE peer.una
             /\ peer'.rcvNxt = IF fin THEN Plus(rcv1, 1) ELSE rcv1
             /\ peer'.finRcvd = (peer.finRcvd \/ fin)
             /\ fresh => /\ old \in 0 .. Len(seg.data)
                         /\ peerGot' = peerGot \o SubSeq(seg.data, old + 1, Len(seg.data))
             /\ ~fresh => peerGot' = peerGot
             /\ peer' \in PeerCb /\ peerGot' \in Seq(Nat)
             /\ \/ toGuest' = toGuest
                \/ \E g \in Segment : PeerTransmits(<<g>>) /\ PureAck(peer', g)
  <1> DEFINE off   == PeerOff(seg.ack)
             acked == "ACK" \in seg.flags /\ off \in peer.una + 1 .. peer.nxt
             old   == (peer.rcvNxt - seg.seq) % SeqMod
             fresh == ~peer.finRcvd /\ old < Len(seg.data)
             rcv1  == IF fresh THEN Plus(seg.seq, Len(seg.data)) ELSE peer.rcvNxt
             fin   == "FIN" \in seg.flags /\ rcv1 = Plus(seg.seq, Len(seg.data))
             una1  == IF acked THEN off ELSE peer.una
             rcv2  == IF fin THEN Plus(rcv1, 1) ELSE rcv1
             end   == peer.finRcvd \/ fin
  <1>1. /\ peer \in PeerCb /\ peer.una \in Nat /\ peer.nxt \in Nat
        /\ peer.rcvNxt \in SeqNum /\ peer.finRcvd \in BOOLEAN /\ peerGot \in Seq(Nat)
    BY DEF LinkTypes, PeerCb
  <1>2. /\ SeqMod \in Nat /\ SeqMod > 0 /\ peer.rcvNxt \in Int /\ PeerIsn \in Int
    BY <1>1, NumAssumption, LinkAssumption DEF SeqNum
  <1>3. /\ seg.seq \in Nat /\ seg.ack \in Nat /\ seg.data \in Seq(Nat)
        /\ Len(seg.data) \in Nat
    BY SegmentNumbers
  <1>4. off \in Int /\ old \in Nat
    BY <1>2, <1>3 DEF PeerOff
  <1>5. /\ peer' = [peer EXCEPT !.una = una1, !.rcvNxt = rcv2, !.finRcvd = end]
        /\ peerGot' = IF fresh THEN peerGot \o SubSeq(seg.data, old + 1, Len(seg.data))
                               ELSE peerGot
    BY DEF PeerStream
  <1>6. \/ toGuest' = toGuest
        \/ PeerTransmits(<<Ack([peer EXCEPT !.una = una1, !.rcvNxt = rcv2, !.finRcvd = end])>>)
    BY DEF PeerStream
  <1> HIDE DEF off, old
  <1>7. una1 \in Nat
    BY <1>1, <1>4
  <1> HIDE DEF acked
  <1>8. rcv1 \in SeqNum
    BY <1>1, <1>3, PlusType
  <1>9. fresh => /\ old \in 0 .. Len(seg.data)
                 /\ peerGot \o SubSeq(seg.data, old + 1, Len(seg.data)) \in Seq(Nat)
    <2>1. fresh => old \in 0 .. Len(seg.data)
      BY <1>3, <1>4
    <2>2. ASSUME old \in 0 .. Len(seg.data)
          PROVE  SubSeq(seg.data, old + 1, Len(seg.data)) \in Seq(Nat)
      BY <1>3, <2>2
    <2> QED BY <1>1, <2>1, <2>2
  <1> HIDE DEF fresh, rcv1
  <1>10. rcv2 \in SeqNum
    <2>1. rcv1 \in Int
      BY <1>2, <1>8 DEF SeqNum
    <2> QED BY <1>8, <2>1, PlusType
  <1>11. end \in BOOLEAN
    BY <1>1
  <1> HIDE DEF una1, rcv2, end
  <1>12. /\ peer' \in PeerCb
         /\ peer'.st = peer.st /\ peer'.nxt = peer.nxt
         /\ peer'.finAt = peer.finAt /\ peer'.fins = peer.fins
         /\ peer'.una = una1 /\ peer'.rcvNxt = rcv2 /\ peer'.finRcvd = end
    BY <1>1, <1>5, <1>7, <1>10, <1>11 DEF PeerCb
  <1>13. \/ toGuest' = toGuest
         \/ PeerTransmits(<<Ack(peer')>>)
    BY <1>5, <1>6
  <1>14. Ack(peer') \in Segment /\ PureAck(peer', Ack(peer'))
    BY <1>12, AckFields
  <1>15. \/ toGuest' = toGuest
         \/ \E g \in Segment : PeerTransmits(<<g>>) /\ PureAck(peer', g)
    BY <1>13, <1>14
  <1>16. /\ peerGot' \in Seq(Nat)
         /\ fresh => /\ old \in 0 .. Len(seg.data)
                     /\ peerGot' = peerGot \o SubSeq(seg.data, old + 1, Len(seg.data))
         /\ ~fresh => peerGot' = peerGot
    BY <1>1, <1>5, <1>9
  <1> QED BY <1>12, <1>15, <1>16 DEF off, acked, old, fresh, rcv1, fin, una1, rcv2, end

(* A handshake segment reaches the peer. *)
LEMMA PeerHandshakeEffect ==
  ASSUME LinkTypes, NEW seg \in Segment, PeerHandshake(seg)
  PROVE  /\ peer' \in PeerCb /\ peerGot' = peerGot
         /\ \/ /\ OpensPeer(seg)
               /\ peer' = [peer EXCEPT !.st = "synrcvd", !.nxt = 1,
                                       !.rcvNxt = Plus(seg.seq, 1)]
               /\ \E g \in Segment :
                    /\ PeerTransmits(<<g>>)
                    /\ g.seq = PeerIsn /\ g.ack = Plus(seg.seq, 1)
                    /\ g.flags = {"SYN", "ACK"} /\ g.data = <<>>
            \/ /\ AnswersPeer(seg)
               /\ peer' = [peer EXCEPT !.st = "estab", !.una = 1, !.rcvNxt = Plus(seg.seq, 1)]
               /\ \E g \in Segment : PeerTransmits(<<g>>) /\ PureAck(peer', g)
            \/ /\ CompletesPeer(seg)
               /\ peer' = [peer EXCEPT !.st = "estab", !.una = 1]
               /\ toGuest' = toGuest
  <1> DEFINE rcv == Plus(seg.seq, 1)
  <1>1. peer \in PeerCb /\ rcv \in SeqNum /\ PeerIsn \in SeqNum
    <2>1. seg.seq \in Int
      BY SegmentNumbers
    <2> QED BY <2>1, PlusType, LinkAssumption DEF LinkTypes
  <1> HIDE DEF rcv
  <1>2. {"synrcvd", "estab"} \subseteq PeerStates /\ 1 \in Nat
    BY DEF PeerStates
  <1>3. peerGot' = peerGot
    BY DEF PeerHandshake
  <1>4. CASE /\ OpensPeer(seg)
             /\ peer' = [peer EXCEPT !.st = "synrcvd", !.nxt = 1, !.rcvNxt = rcv]
             /\ PeerTransmits(<<Packet(PeerIsn, rcv, {"SYN", "ACK"}, <<>>)>>)
    <2>1. peer' \in PeerCb
      BY <1>1, <1>2, <1>4 DEF PeerCb
    <2> DEFINE g == Packet(PeerIsn, rcv, {"SYN", "ACK"}, <<>>)
    <2>2. /\ g \in Segment /\ g.seq = PeerIsn /\ g.ack = rcv
          /\ g.flags = {"SYN", "ACK"} /\ g.data = <<>>
      <3>1. {"SYN", "ACK"} \in SUBSET Flags
        BY DEF Flags
      <3> QED BY <1>1, <3>1, EmptyPacket
    <2>3. PeerTransmits(<<g>>)
      BY <1>4
    <2> HIDE DEF g
    <2> QED BY <1>3, <1>4, <2>1, <2>2, <2>3 DEF rcv
  <1>5. CASE /\ AnswersPeer(seg)
             /\ peer' = [peer EXCEPT !.st = "estab", !.una = 1, !.rcvNxt = rcv]
             /\ PeerTransmits(<<Ack(peer')>>)
    <2>1. peer' \in PeerCb
      BY <1>1, <1>2, <1>5 DEF PeerCb
    <2> QED BY <1>3, <1>5, <2>1, AckFields DEF rcv
  <1>6. CASE /\ CompletesPeer(seg)
             /\ peer' = [peer EXCEPT !.st = "estab", !.una = 1]
             /\ toGuest' = toGuest
    <2>1. peer' \in PeerCb
      BY <1>1, <1>2, <1>6 DEF PeerCb
    <2> QED BY <1>3, <1>6, <2>1
  <1> QED BY <1>4, <1>5, <1>6 DEF PeerHandshake, rcv

(* A frame of the wire to the peer is handled: it is a segment, and only   *)
(* what was on the wire stays on it.                                       *)
LEMMA FromToPeer ==
  ASSUME toPeer \in Seq(Segment), NEW i \in InFlight(toPeer), toPeer' \in Received(toPeer, i)
  PROVE  /\ toPeer[i] \in Segment /\ Carries(toPeer, toPeer[i])
         /\ toPeer' \in Seq(Segment)
         /\ \A g : Carries(toPeer', g) => Carries(toPeer, g)
  <1>1. i \in 1 .. Len(toPeer)
    BY DEF InFlight
  <1>2. toPeer[i] \in Segment /\ Carries(toPeer, toPeer[i])
    BY <1>1 DEF Carries
  <1> QED BY <1>1, <1>2, ReceivedFacts

LEMMA FromToGuest ==
  ASSUME toGuest \in Seq(Segment), NEW i \in InFlight(toGuest),
         toGuest' \in Received(toGuest, i)
  PROVE  /\ toGuest[i] \in Segment /\ Carries(toGuest, toGuest[i])
         /\ toGuest' \in Seq(Segment)
         /\ \A g : Carries(toGuest', g) => Carries(toGuest, g)
         /\ Cardinality(FinsOn(toGuest')) + One("FIN" \in toGuest[i].flags)
              <= Cardinality(FinsOn(toGuest))
  <1>1. i \in 1 .. Len(toGuest)
    BY DEF InFlight
  <1>2. toGuest[i] \in Segment /\ Carries(toGuest, toGuest[i])
    BY <1>1 DEF Carries
  <1> QED BY <1>1, <1>2, ReceivedFacts
-----------------------------------------------------------------------------
(* The peer's steps keep the invariant *)

GuestStands == UNCHANGED <<cb, reg, rx, got, trial>>

(* A step that leaves the peer's receive side alone keeps what is said of  *)
(* the bytes from the guest.                                               *)
LEMMA PeerKeepsOut ==
  ASSUME Numbers, Numbers', NEW b \in Nat, Flow(b), GuestStands,
         peer'.rcvNxt = peer.rcvNxt, peer'.finRcvd = peer.finRcvd, peerGot' = peerGot,
         \A g \in Segment : Carries(toPeer', g) => Carries(toPeer, g)
  PROVE  /\ Fits(b)' /\ Quiet' /\ Opening(b)'
         /\ OutFlow(b)' /\ Kept(b)' /\ OutWire(b)'
         /\ (Heard' <=> Heard) /\ (Opened' <=> Opened) /\ (SawFin' <=> SawFin)
  <1>1. (Heard' <=> Heard) /\ (Silent' <=> Silent)
    BY DEF GuestStands, Heard, Silent
  <1>2. (Opened' <=> Opened) /\ (SawFin' <=> SawFin)
    BY DEF GuestStands, Opened, SawFin
  <1>3. Fits(b)' /\ Quiet'
    BY DEF Flow, GuestStands, Fits, Quiet
  <1>4. Opening(b)'
    BY <1>1 DEF Flow, GuestStands, Opening
  <1>5. OutFlow(b)'
    BY <1>1 DEF Flow, GuestStands, OutFlow, Run
  <1>6. Kept(b)'
    BY DEF Flow, GuestStands, Kept, OutBytes, Run
  <1>7. OutGrows
    <2>1. /\ cb.rcvNxt \in Nat /\ cb.sndNxt \in Nat /\ Len(peerGot) \in Nat
          /\ reg.txWr \in Nat
      BY DEF Numbers
    <2> QED BY <1>1, <1>2, <2>1 DEF GuestStands, OutGrows
  <1>8. OutWire(b)'
    BY <1>7, OutWireKept DEF Flow
  <1> QED BY <1>1, <1>2, <1>3, <1>4, <1>5, <1>6, <1>8

(* FINs are counted. *)
LEMMA CountedType == Numbers => Counted \in Int
  <1> SUFFICES ASSUME Numbers PROVE Counted \in Int
    OBVIOUS
  <1>1. cb.rcvNxt \in Nat /\ PeerIsn \in Nat /\ Arrived \in Nat
    BY DEF Numbers
  <1> QED BY <1>1 DEF Counted

LEMMA CountedTypeNext == Numbers' => Counted' \in Int
  <1> SUFFICES ASSUME Numbers' PROVE Counted' \in Int
    OBVIOUS
  <1>1. cb'.rcvNxt \in Nat /\ PeerIsn \in Nat /\ Arrived' \in Nat
    BY DEF Numbers
  <1> QED BY <1>1 DEF Counted

(* No FIN is counted that was not sent.                                    *)
LEMMA FinBudgetKept ==
  ASSUME Numbers, Numbers', toGuest \in Seq(Segment), toGuest' \in Seq(Segment),
         FinBudget, peer'.fins <= MaxFins,
         Cardinality(FinsOn(toGuest')) + Counted' + peer.fins
           <= Cardinality(FinsOn(toGuest)) + Counted + peer'.fins
  PROVE  FinBudget'
  <1>1. /\ Cardinality(FinsOn(toGuest)) \in Nat
        /\ Cardinality(FinsOn(toGuest')) \in Nat
    BY FinsFinite
  <1>2. Counted \in Int /\ Counted' \in Int
    BY CountedType, CountedTypeNext
  <1>3. peer.fins \in Nat /\ peer'.fins \in Nat
    BY DEF Numbers
  <1>4. FinsOn(toGuest)' = FinsOn(toGuest')
    BY DEF FinsOn
  <1> QED BY <1>1, <1>2, <1>3, <1>4, SMTT(20) DEF FinBudget

(* The peer opens. *)
LEMMA PeerSynFlow ==
  ASSUME LinkTypes, Numbers, Numbers', NEW b \in Nat, Flow(b), GuestStands,
         PeerSyn, peerGot' = peerGot, toPeer' = toPeer
  PROVE  Flow(b)'
  <1>1. PICK g \in Segment :
          /\ PeerTransmits(<<g>>)
          /\ g.seq = PeerIsn /\ g.ack = peer.rcvNxt /\ g.data = <<>>
          /\ g.flags = IF peer.st = "synrcvd" THEN {"SYN", "ACK"} ELSE {"SYN"}
    BY PeerSynEffect
  <1>2. /\ peer.st \in {"connect", "synsent", "synrcvd"}
        /\ peer'.st = IF peer.st = "connect" THEN "synsent" ELSE peer.st
        /\ peer'.nxt = 1 /\ peer'.una = peer.una /\ peer'.finAt = peer.finAt
        /\ peer'.fins = peer.fins /\ peer'.rcvNxt = peer.rcvNxt
        /\ peer'.finRcvd = peer.finRcvd
    BY PeerSynEffect DEF PeerSyn, LinkTypes, PeerCb
  <1>3. /\ Fits(b)' /\ Quiet' /\ Opening(b)'
        /\ OutFlow(b)' /\ Kept(b)' /\ OutWire(b)'
        /\ (Heard' <=> Heard) /\ (Opened' <=> Opened) /\ (SawFin' <=> SawFin)
    BY <1>2, PeerKeepsOut
  <1>4. /\ peer.una = 0 /\ peer.finAt = 0 /\ peer.nxt <= 1
        /\ peer.st = "synrcvd" => trial.opener = "guest" /\ Heard /\ peer.rcvNxt = b
        /\ peer.st # "synrcvd" => trial.opener = "peer"
    <2>1. /\ peer.una = 0 /\ peer.finAt = 0 /\ peer.nxt <= 1
          /\ peer.st = "synrcvd" => /\ trial.opener = "guest" /\ Heard
                                    /\ Len(peerGot) = 0 /\ ~peer.finRcvd
          /\ peer.st # "synrcvd" => trial.opener = "peer"
      BY <1>2 DEF Flow, PeerSide
    <2>2. Heard => peer.rcvNxt = b + Len(peerGot) + One(peer.finRcvd)
      BY DEF Flow, OutFlow
    <2>3. peer.st = "synrcvd" => peer.rcvNxt = b
      BY <2>1, <2>2 DEF One
    <2> QED BY <2>1, <2>3
  <1>5. PeerSide'
    BY <1>2, <1>3, <1>4 DEF Flow, PeerSide, GuestStands
  <1>6. InFlow'
    BY <1>2, <1>3, <1>4 DEF Flow, InFlow, GuestStands, Numbers, Arrived, Run
  <1>7. /\ \A h : Carries(toGuest', h) => Carries(toGuest, h) \/ h = g
        /\ Cardinality(FinsOn(toGuest')) <= Cardinality(FinsOn(toGuest)) + 0
    <2>1. "FIN" \notin g.flags
      BY <1>1
    <2> QED BY <1>1, <2>1, ToGuestAdds DEF LinkTypes, One
  <1>8. FinBudget'
    <2>1. Counted' = Counted
      BY <1>3 DEF Counted, GuestStands, Arrived
    <2>2. /\ toGuest \in Seq(Segment) /\ toGuest' \in Seq(Segment)
          /\ peer.fins <= MaxFins
      BY <1>1, ToGuestAdds DEF LinkTypes, Flow, FinBudget
    <2>3. /\ Counted \in Int /\ peer.fins \in Nat
          /\ Cardinality(FinsOn(toGuest)) \in Nat /\ Cardinality(FinsOn(toGuest')) \in Nat
      BY <2>2, FinsFinite, CountedType DEF Numbers
    <2> QED BY <1>2, <1>7, <2>1, <2>2, <2>3, FinBudgetKept DEF Flow
  <1>9. InGrows
    BY <1>2, <1>3, <1>4 DEF InGrows, GuestStands, Numbers
  <1>10. InSeg(b, g)'
    BY <1>1, <1>2, <1>3, <1>4 DEF InSeg, GuestStands
  <1>11. InWire(b)'
    BY <1>7, <1>9, <1>10, InWireKept DEF Flow
  <1> QED BY <1>3, <1>5, <1>6, <1>8, <1>11 DEF Flow
(* The steps of the peer below leave what the guest sees alone.  The peer  *)
(* sends bytes of its stream.                                              *)
LEMMA PeerDataFlow ==
  ASSUME LinkTypes, Numbers, Numbers', NEW b \in Nat, Flow(b), GuestStands,
         PeerData, peerGot' = peerGot, toPeer' = toPeer, NoWrap
  PROVE  Flow(b)'
  <1>1. PICK off \in Nat, n \in Nat, g \in Segment :
           /\ off >= 1 /\ peer.una <= off /\ off <= peer.nxt /\ n >= 1
           /\ off + n - 1 <= IF peer.finAt = 0 THEN trial.peerBytes ELSE peer.finAt - 1
           /\ peer' = [peer EXCEPT !.nxt = Later(peer.nxt, off + n)]
           /\ PeerTransmits(<<g>>)
           /\ g.seq = PeerSeq(off) /\ g.ack = peer.rcvNxt /\ g.flags = {"ACK"}
           /\ Len(g.data) = n /\ Run(g.data, off - 1)
    BY PeerDataEffect
  <1>2. /\ peer'.st = peer.st /\ peer.st = "estab"
        /\ peer'.nxt = Later(peer.nxt, off + n) /\ peer'.una = peer.una
        /\ peer'.finAt = peer.finAt
        /\ peer'.fins = peer.fins /\ peer'.rcvNxt = peer.rcvNxt
        /\ peer'.finRcvd = peer.finRcvd
    BY <1>1 DEF PeerData, LinkTypes, PeerCb
  <1>3. /\ Fits(b)' /\ Quiet' /\ Opening(b)'
        /\ OutFlow(b)' /\ Kept(b)' /\ OutWire(b)'
        /\ (Heard' <=> Heard) /\ (Opened' <=> Opened) /\ (SawFin' <=> SawFin)
    BY <1>2, PeerKeepsOut
  <1>4. /\ peer.nxt \in Nat /\ peer'.nxt \in Nat /\ peer.una \in Nat /\ peer.finAt \in Nat
        /\ Arrived \in Nat /\ PeerIsn \in Nat /\ trial.peerBytes \in Nat
        /\ cb.rcvNxt \in Nat /\ peer.rcvNxt \in Nat /\ MaxFins \in Nat /\ SeqMod \in Nat
        /\ trial \in Trials
    BY DEF Numbers, LinkTypes
  <1>a. /\ off >= 1 /\ off <= peer.nxt /\ n >= 1
        /\ peer.finAt = 0 => off + n - 1 <= trial.peerBytes
        /\ peer.finAt # 0 => off + n - 1 <= peer.finAt - 1
    BY <1>1
  <1>b. /\ peer.finAt = 0 => peer.nxt <= trial.peerBytes + 1
        /\ peer.finAt # 0 => /\ peer.finAt = Arrived + 1 /\ peer.nxt = peer.finAt + 1
                             /\ peer.finAt <= trial.peerBytes + 1
    BY DEF Flow, InFlow
  <1>5. /\ peer.nxt <= peer'.nxt /\ off + n <= peer'.nxt
        /\ peer'.nxt \in {peer.nxt, off + n}
    BY <1>1, <1>2, <1>4, SMTT(20) DEF Later
  <1>6. /\ Heard /\ Opened /\ peer.una >= 1 /\ peer.una <= peer.nxt
    BY <1>2 DEF Flow, PeerSide
  <1>7. PeerSide'
    BY <1>2, <1>3, <1>4, <1>5, <1>6 DEF Flow, PeerSide, GuestStands
  <1>8. InFlow'
    <2>1. Arrived' = Arrived
      BY DEF GuestStands, Arrived
    <2>2. /\ peer.finAt = 0 => peer'.nxt <= trial.peerBytes + 1
          /\ peer.finAt # 0 => peer'.nxt = peer.nxt
      BY <1>a, <1>b, <1>4, <1>5
    <2>3. Run(got, 0)' /\ Run(rx, Len(got))'
      BY DEF Flow, InFlow, GuestStands, Run
    <2> QED BY <1>2, <1>3, <1>4, <1>5, <2>1, <2>2, <2>3 DEF Flow, InFlow, GuestStands
  <1>9. /\ toGuest \in Seq(Segment) /\ toGuest' \in Seq(Segment)
        /\ \A h : Carries(toGuest', h) => Carries(toGuest, h) \/ h = g
        /\ Cardinality(FinsOn(toGuest')) <= Cardinality(FinsOn(toGuest)) + 0
    <2>1. "FIN" \notin g.flags
      BY <1>1
    <2> QED BY <1>1, <2>1, ToGuestAdds DEF LinkTypes, One
  <1>10. FinBudget'
    <2>1. Counted' = Counted
      BY <1>3 DEF Counted, GuestStands, Arrived
    <2>2. peer.fins <= MaxFins
      BY DEF Flow, FinBudget
    <2>3. /\ Counted \in Int /\ peer.fins \in Nat
          /\ Cardinality(FinsOn(toGuest)) \in Nat /\ Cardinality(FinsOn(toGuest')) \in Nat
      BY <1>9, FinsFinite, CountedType DEF Numbers
    <2> QED BY <1>2, <1>9, <2>1, <2>2, <2>3, FinBudgetKept DEF Flow
  <1>11. InGrows
    BY <1>2, <1>3, <1>4, <1>5 DEF InGrows, GuestStands
  <1>12. off <= trial.peerBytes + 1
    BY <1>a, <1>b, <1>4
  <1>13. g.seq = PeerIsn + off
    <2>1. PeerIsn + off < SeqMod
      BY <1>4, <1>12 DEF NoWrap
    <2> QED BY <1>1, <1>4, <2>1, NoWrapPlus DEF PeerSeq
  <1>c. Len(g.data) = n
    BY <1>1
  <1>14. InBytes(g.seq, g.data)'
    <2>1. Run(g.data, off - 1)'
      BY <1>1 DEF Run
    <2>2. g.seq - (PeerIsn + 1) = off - 1
      BY <1>4, <1>13
    <2>3. peer'.finAt # 0 => g.seq + Len(g.data) <= PeerIsn + peer'.finAt
      BY <1>a, <1>2, <1>4, <1>13, <1>c
    <2> QED BY <1>1, <1>4, <1>5, <1>13, <2>1, <2>2, <2>3, SMTT(20) DEF InBytes
  <1>15. b <= g.ack /\ g.ack <= peer'.rcvNxt
    <2>1. peer.rcvNxt = b + Len(peerGot) + One(peer.finRcvd) /\ Len(peerGot) \in Nat
      BY <1>6 DEF Flow, OutFlow, Numbers
    <2>2. g.ack = peer.rcvNxt
      BY <1>1
    <2> QED BY <1>2, <1>4, <2>1, <2>2 DEF One
  <1>16. InSeg(b, g)'
    <2>1. "FIN" \notin g.flags /\ g.flags \in {{"ACK"}, {"FIN", "ACK"}}
      BY <1>1
    <2> QED BY <1>3, <1>6, <1>14, <1>15, <2>1 DEF InSeg
  <1>17. InWire(b)'
    BY <1>9, <1>11, <1>16, InWireKept DEF Flow
  <1> QED BY <1>3, <1>7, <1>8, <1>10, <1>17 DEF Flow

(* The peer closes its half: all its data had arrived.                     *)
LEMMA PeerFinFlow ==
  ASSUME LinkTypes, Numbers, Numbers', NEW b \in Nat, Flow(b), GuestStands,
         PeerFin, peerGot' = peerGot, toPeer' = toPeer, NoWrap, trial.finWaits
  PROVE  Flow(b)'
  <1>1. PICK at \in Nat, g \in Segment :
           /\ at = IF peer.finAt = 0 THEN peer.nxt ELSE peer.finAt
           /\ peer' = [peer EXCEPT !.finAt = at, !.nxt = at + 1, !.fins = peer.fins + 1]
           /\ PeerTransmits(<<g>>)
           /\ g.seq = PeerSeq(at) /\ g.ack = peer.rcvNxt /\ g.flags = {"FIN", "ACK"}
           /\ g.data = <<>>
    BY PeerFinEffect
  <1>2. /\ peer'.st = peer.st /\ peer.st = "estab" /\ peer.fins < MaxFins
        /\ peer'.nxt = at + 1 /\ peer'.una = peer.una
        /\ peer'.finAt = at
        /\ peer'.fins = peer.fins + 1 /\ peer'.rcvNxt = peer.rcvNxt
        /\ peer'.finRcvd = peer.finRcvd
    BY <1>1 DEF PeerFin, LinkTypes, PeerCb
  <1>3. /\ Fits(b)' /\ Quiet' /\ Opening(b)'
        /\ OutFlow(b)' /\ Kept(b)' /\ OutWire(b)'
        /\ (Heard' <=> Heard) /\ (Opened' <=> Opened) /\ (SawFin' <=> SawFin)
    BY <1>2, PeerKeepsOut
  <1>4. /\ peer.nxt \in Nat /\ peer'.nxt \in Nat /\ peer.una \in Nat /\ peer.finAt \in Nat
        /\ Arrived \in Nat /\ PeerIsn \in Nat /\ trial.peerBytes \in Nat
        /\ cb.rcvNxt \in Nat /\ peer.rcvNxt \in Nat /\ MaxFins \in Nat /\ SeqMod \in Nat
        /\ peer.fins \in Nat /\ trial \in Trials
    BY DEF Numbers, LinkTypes
  <1>5. /\ Heard /\ Opened /\ peer.una >= 1 /\ peer.una <= peer.nxt
    BY <1>2 DEF Flow, PeerSide
  <1>6. /\ at >= 1 /\ at = Arrived + 1 /\ at <= trial.peerBytes + 1
        /\ peer.nxt <= at + 1
        /\ peer.finAt # 0 => at = peer.finAt /\ peer.nxt = at + 1
        /\ peer.finAt = 0 => at = peer.nxt
    <2>1. CASE peer.finAt = 0
      <3>1. peer.una = peer.nxt
        BY <2>1 DEF PeerFin
      <3>2. ~SawFin
        BY <2>1 DEF Flow, InFlow
      <3>3. peer.una <= Arrived + 1 /\ Arrived + 1 <= peer.nxt /\ peer.nxt <= trial.peerBytes + 1
        BY <1>5, <2>1, <3>2 DEF Flow, InFlow
      <3> QED BY <1>1, <1>4, <1>5, <2>1, <3>1, <3>3
    <2>2. CASE peer.finAt # 0
      BY <1>1, <1>4, <1>5, <2>2, SMTT(20) DEF Flow, InFlow
    <2> QED BY <2>1, <2>2
  <1>7. PeerSide'
    <2>1. peer'.una <= peer'.nxt
      BY <1>2, <1>4, <1>5, <1>6
    <2> QED BY <1>2, <1>3, <1>5, <2>1 DEF Flow, PeerSide, GuestStands
  <1>8. InFlow'
    <2>1. Arrived' = Arrived
      BY DEF GuestStands, Arrived
    <2>2. Run(got, 0)' /\ Run(rx, Len(got))'
      BY DEF Flow, InFlow, GuestStands, Run
    <2>3. (Opened' /\ ~SawFin') => /\ cb'.rcvNxt = PeerIsn + 1 + Arrived'
                                   /\ Arrived' + 1 <= peer'.nxt
      <3>1. Arrived + 1 <= at + 1
        BY <1>4, <1>6
      <3> QED BY <1>2, <1>3, <2>1, <3>1 DEF Flow, InFlow, GuestStands
    <2>4. SawFin' => peer'.finAt # 0 /\ cb'.rcvNxt >= PeerIsn + 2 + Arrived'
      BY <1>2, <1>3, <1>6, <2>1 DEF Flow, InFlow, GuestStands
    <2>5. ~SawFin' => peer'.una <= Arrived' + 1
      BY <1>2, <1>3, <2>1 DEF Flow, InFlow
    <2>6. /\ peer'.finAt # 0
          /\ peer'.finAt = Arrived' + 1 /\ peer'.nxt = peer'.finAt + 1
          /\ peer'.finAt <= trial'.peerBytes + 1
      BY <1>2, <1>6, <2>1 DEF GuestStands
    <2> QED BY <2>2, <2>3, <2>4, <2>5, <2>6 DEF InFlow
  <1>9. /\ toGuest \in Seq(Segment) /\ toGuest' \in Seq(Segment)
        /\ \A h : Carries(toGuest', h) => Carries(toGuest, h) \/ h = g
        /\ Cardinality(FinsOn(toGuest')) <= Cardinality(FinsOn(toGuest)) + 1
    <2>1. "FIN" \in g.flags
      BY <1>1
    <2> QED BY <1>1, <2>1, ToGuestAdds DEF LinkTypes, One
  <1>10. FinBudget'
    <2>1. Counted' = Counted
      BY <1>3 DEF Counted, GuestStands, Arrived
    <2>2. peer'.fins <= MaxFins
      BY <1>2, <1>4
    <2>3. /\ Counted \in Int
          /\ Cardinality(FinsOn(toGuest)) \in Nat /\ Cardinality(FinsOn(toGuest')) \in Nat
      BY <1>9, FinsFinite, CountedType
    <2> QED BY <1>2, <1>4, <1>9, <2>1, <2>2, <2>3, FinBudgetKept DEF Flow
  <1>11. InGrows
    <2>1. peer.nxt <= peer'.nxt
      BY <1>2, <1>4, <1>6
    <2> QED BY <1>2, <1>3, <1>4, <1>6, <2>1 DEF InGrows, GuestStands
  <1>12. b <= g.ack /\ g.ack <= peer'.rcvNxt
    <2>1. peer.rcvNxt = b + Len(peerGot) + One(peer.finRcvd) /\ Len(peerGot) \in Nat
      BY <1>5 DEF Flow, OutFlow, Numbers
    <2> QED BY <1>1, <1>2, <1>4, <2>1, SMTT(20) DEF One
  <1>13. InSeg(b, g)'
    <2>1. g.flags \in {{"ACK"}, {"FIN", "ACK"}} /\ peer'.finAt # 0
      BY <1>1, <1>2, <1>6
    <2> QED BY <1>1, <1>3, <1>5, <1>12, <2>1 DEF InSeg
  <1>14. InWire(b)'
    BY <1>9, <1>11, <1>13, InWireKept DEF Flow
  <1> QED BY <1>3, <1>7, <1>8, <1>10, <1>14 DEF Flow

(* The peer is gone, with a RST or without. *)
LEMMA PeerDiesFlow ==
  ASSUME LinkTypes, Numbers, Numbers', NEW b \in Nat, Flow(b), GuestStands,
         PeerDies, toPeer' = toPeer
  PROVE  Flow(b)' /\ peer' \in PeerCb /\ toGuest' \in Seq(Segment)
  <1>0. peer \in PeerCb /\ toGuest \in Seq(Segment) /\ "dead" \in PeerStates
    BY DEF LinkTypes, PeerStates
  <1>1. /\ peer' = [peer EXCEPT !.st = "dead"] /\ peerGot' = peerGot
    BY DEF PeerDies
  <1>2. /\ peer'.st = "dead" /\ peer'.nxt = peer.nxt /\ peer'.una = peer.una
        /\ peer'.finAt = peer.finAt
        /\ peer'.fins = peer.fins /\ peer'.rcvNxt = peer.rcvNxt
        /\ peer'.finRcvd = peer.finRcvd /\ peer' \in PeerCb
    BY <1>0, <1>1 DEF PeerCb
  <1>3. /\ Fits(b)' /\ Quiet' /\ Opening(b)'
        /\ OutFlow(b)' /\ Kept(b)' /\ OutWire(b)'
        /\ (Heard' <=> Heard) /\ (Opened' <=> Opened) /\ (SawFin' <=> SawFin)
    BY <1>1, <1>2, PeerKeepsOut
  <1>4. PeerSide'
    BY <1>1, <1>2, <1>3 DEF Flow, PeerSide, GuestStands
  <1>5. InFlow'
    <2>1. Arrived' = Arrived
      BY DEF GuestStands, Arrived
    <2>2. Run(got, 0)' /\ Run(rx, Len(got))'
      BY DEF Flow, InFlow, GuestStands, Run
    <2> QED BY <1>2, <1>3, <2>1, <2>2 DEF Flow, InFlow, GuestStands
  <1>6. /\ toGuest' \in Seq(Segment)
        /\ \A h \in Segment : Carries(toGuest', h) => Carries(toGuest, h) \/ "RST" \in h.flags
        /\ Cardinality(FinsOn(toGuest')) <= Cardinality(FinsOn(toGuest))
    <2>1. CASE toGuest' = toGuest
      <3>1. Cardinality(FinsOn(toGuest)) \in Nat
        BY <1>0, FinsFinite
      <3> QED BY <1>0, <2>1, <3>1
    <2>2. CASE toGuest' # toGuest
      <3> DEFINE g == Packet(PeerSeq(peer.nxt), peer.rcvNxt, {"RST", "ACK"}, <<>>)
      <3>1. PeerTransmits(<<g>>)
        BY <2>2 DEF PeerDies
      <3>2. g \in Segment /\ g.flags = {"RST", "ACK"}
        <4>1. peer.nxt \in Nat /\ peer.rcvNxt \in SeqNum /\ {"RST", "ACK"} \in SUBSET Flags
          BY <1>0 DEF PeerCb, Flags
        <4>2. PeerSeq(peer.nxt) \in SeqNum
          BY <4>1, PeerSeqType
        <4> QED BY <4>1, <4>2, EmptyPacket
      <3> HIDE DEF g
      <3>3. "FIN" \notin g.flags /\ "RST" \in g.flags
        BY <3>2
      <3>4. Cardinality(FinsOn(toGuest)) \in Nat
        BY <1>0, FinsFinite
      <3>5. Cardinality(FinsOn(toGuest')) <= Cardinality(FinsOn(toGuest)) + 0
        BY <1>0, <3>1, <3>2, <3>3, ToGuestAdds DEF One
      <3> QED BY <1>0, <3>1, <3>2, <3>3, <3>4, <3>5, ToGuestAdds
    <2> QED BY <2>1, <2>2
  <1>7. FinBudget'
    <2>1. Counted' = Counted
      BY <1>3 DEF Counted, GuestStands, Arrived
    <2>2. peer'.fins <= MaxFins
      BY <1>2 DEF Flow, FinBudget
    <2>3. /\ Counted \in Int /\ peer.fins \in Nat
          /\ Cardinality(FinsOn(toGuest)) \in Nat /\ Cardinality(FinsOn(toGuest')) \in Nat
      BY <1>0, <1>6, FinsFinite, CountedType DEF Numbers
    <2> QED BY <1>0, <1>2, <1>6, <2>1, <2>2, <2>3, FinBudgetKept DEF Flow
  <1>8. InGrows
    <2>1. peer.nxt \in Nat /\ peer.rcvNxt \in Nat
      BY DEF Numbers
    <2> QED BY <1>2, <1>3, <2>1 DEF InGrows, GuestStands
  <1>9. InWire(b)'
    <2>1. \A h \in Segment : "RST" \in h.flags => InSeg(b, h)'
      BY DEF InSeg
    <2> QED BY <1>6, <1>8, <2>1, InWireKept DEF Flow
  <1> QED BY <1>2, <1>3, <1>4, <1>5, <1>6, <1>7, <1>9 DEF Flow
(* Frames are lost, or the peer drops one, or a RST ends it.               *)
LEMMA StandsFlow ==
  ASSUME LinkTypes, Numbers, Numbers', NEW b \in Nat, Flow(b), GuestStands,
         peer' \in PeerCb, peer'.st \in {peer.st, "dead"}, peer'.nxt = peer.nxt,
         peer'.una = peer.una, peer'.finAt = peer.finAt, peer'.fins = peer.fins,
         peer'.rcvNxt = peer.rcvNxt, peer'.finRcvd = peer.finRcvd,
         peerGot' = peerGot,
         \A g \in Segment : Carries(toPeer', g) => Carries(toPeer, g),
         toGuest' \in Seq(Segment),
         \A g \in Segment : Carries(toGuest', g) => Carries(toGuest, g),
         Cardinality(FinsOn(toGuest')) <= Cardinality(FinsOn(toGuest))
  PROVE  Flow(b)'
  <1>1. /\ Fits(b)' /\ Quiet' /\ Opening(b)'
        /\ OutFlow(b)' /\ Kept(b)' /\ OutWire(b)'
        /\ (Heard' <=> Heard) /\ (Opened' <=> Opened) /\ (SawFin' <=> SawFin)
    BY PeerKeepsOut
  <1>2. PeerSide'
    BY <1>1 DEF Flow, PeerSide, GuestStands
  <1>3. InFlow'
    <2>1. Arrived' = Arrived
      BY DEF GuestStands, Arrived
    <2>2. Run(got, 0)' /\ Run(rx, Len(got))'
      BY DEF Flow, InFlow, GuestStands, Run
    <2> QED BY <1>1, <2>1, <2>2 DEF Flow, InFlow, GuestStands
  <1>4. FinBudget'
    <2>1. Counted' = Counted
      BY <1>1 DEF Counted, GuestStands, Arrived
    <2>2. peer'.fins <= MaxFins /\ toGuest \in Seq(Segment)
      BY DEF Flow, FinBudget, LinkTypes
    <2>3. /\ Counted \in Int /\ peer.fins \in Nat
          /\ Cardinality(FinsOn(toGuest)) \in Nat /\ Cardinality(FinsOn(toGuest')) \in Nat
      BY <2>2, FinsFinite, CountedType DEF Numbers
    <2> QED BY <2>1, <2>2, <2>3, FinBudgetKept DEF Flow
  <1>5. InGrows
    <2>1. peer.nxt \in Nat /\ peer.rcvNxt \in Nat
      BY DEF Numbers
    <2> QED BY <1>1, <2>1 DEF InGrows, GuestStands
  <1>6. InWire(b)'
    BY <1>5, InWireKept DEF Flow
  <1> QED BY <1>1, <1>2, <1>3, <1>4, <1>6 DEF Flow

(* A handshake segment reaches the peer: it says what the peer should      *)
(* expect.                                                                 *)
LEMMA HandshakeFacts ==
  ASSUME LinkTypes, Numbers, NEW b \in Nat, Flow(b),
         NEW seg \in Segment, Carries(toPeer, seg), "RST" \notin seg.flags
  PROVE  /\ OpensPeer(seg) => /\ trial.opener = "guest" /\ ~Silent
                              /\ Plus(seg.seq, 1) = b
         /\ AnswersPeer(seg) => /\ trial.opener = "peer" /\ ~Silent /\ Opened
                                /\ Plus(seg.seq, 1) = b
         /\ CompletesPeer(seg) => cb.state \in Streaming
  <1>1. OutSeg(b, seg)
    BY DEF Flow, OutWire
  <1>2. seg.seq \in Nat /\ b > 0 /\ b < SeqMod
    BY SegmentNumbers DEF Flow, Fits, Numbers
  <1>3. seg.seq + 1 = b => Plus(seg.seq, 1) = b
    BY <1>2, NoWrapPlus
  <1>4. ASSUME OpensPeer(seg)
        PROVE  trial.opener = "guest" /\ ~Silent /\ seg.seq + 1 = b
    <2>1. peer.st \in {"listen", "synrcvd"} /\ seg.flags = {"SYN"}
      BY <1>4 DEF OpensPeer
    <2>2. trial.opener = "guest"
      BY <2>1 DEF Flow, PeerSide
    <2> QED BY <1>1, <2>1, <2>2 DEF OutSeg
  <1>5. ASSUME AnswersPeer(seg)
        PROVE  trial.opener = "peer" /\ ~Silent /\ Opened /\ seg.seq + 1 = b
    <2>1. "SYN" \in seg.flags /\ "ACK" \in seg.flags
      BY <1>5 DEF AnswersPeer
    <2>2. seg.flags \notin {{"SYN"}, {"ACK"}, {"FIN", "ACK"}}
      BY <2>1
    <2> QED BY <1>1, <2>2 DEF OutSeg
  <1>6. ASSUME CompletesPeer(seg) PROVE cb.state \in Streaming
    <2>1. peer.st = "synrcvd" /\ "ACK" \in seg.flags
      BY <1>6 DEF CompletesPeer
    <2>2. trial.opener = "guest"
      BY <2>1 DEF Flow, PeerSide
    <2> QED BY <1>1, <2>1, <2>2 DEF OutSeg
  <1> QED BY <1>3, <1>4, <1>5, <1>6

(* The peer moves its receive side, sends at most an acknowledgement and   *)
(* takes no FIN of its own back: what is left to show.                     *)
LEMMA PeerAnswersIn ==
  ASSUME LinkTypes, Numbers, Numbers', NEW b \in Nat, Flow(b), GuestStands,
         peer.nxt <= peer'.nxt, peer'.finAt = peer.finAt, peer'.fins = peer.fins,
         peer.rcvNxt <= peer'.rcvNxt,
         peer'.una <= peer'.nxt, peer'.nxt <= Later(peer.nxt, 1),
         ~SawFin => peer'.una <= Arrived + 1,
         toGuest' \in Seq(Segment),
         \A g \in Segment :
           Carries(toGuest', g) => \/ Carries(toGuest, g)
                                   \/ (InSeg(b, g)' /\ "FIN" \notin g.flags),
         Cardinality(FinsOn(toGuest')) <= Cardinality(FinsOn(toGuest))
  PROVE  InFlow' /\ FinBudget' /\ InWire(b)'
  <1>1. /\ peer.nxt \in Nat /\ peer'.nxt \in Nat /\ peer.una \in Nat /\ peer.finAt \in Nat
        /\ Arrived \in Nat /\ PeerIsn \in Nat /\ trial.peerBytes \in Nat
        /\ cb.rcvNxt \in Nat /\ peer.rcvNxt \in Nat /\ peer'.rcvNxt \in Nat
        /\ peer.fins \in Nat /\ peer'.una \in Nat
    BY DEF Numbers
  <1>2. /\ Arrived' = Arrived /\ (Opened' <=> Opened) /\ (SawFin' <=> SawFin)
    BY DEF GuestStands, Arrived, Opened, SawFin
  <1>3. peer'.nxt \in {peer.nxt, 1} /\ (peer'.nxt # peer.nxt => peer.nxt = 0)
    BY <1>1 DEF Later
  <1>4. InFlow'
    <2>1. Run(got, 0)' /\ Run(rx, Len(got))'
      BY DEF Flow, InFlow, GuestStands, Run
    <2>2. (Opened' /\ ~SawFin') => /\ cb'.rcvNxt = PeerIsn + 1 + Arrived'
                                   /\ Arrived' + 1 <= peer'.nxt
      <3>1. (Opened /\ ~SawFin) => cb.rcvNxt = PeerIsn + 1 + Arrived /\ Arrived + 1 <= peer.nxt
        BY DEF Flow, InFlow
      <3> QED BY <1>1, <1>2, <3>1, SMTT(20) DEF GuestStands
    <2>3. SawFin' => peer'.finAt # 0 /\ cb'.rcvNxt >= PeerIsn + 2 + Arrived'
      BY <1>2 DEF Flow, InFlow, GuestStands
    <2>4. /\ peer'.finAt = 0 => peer'.nxt <= trial'.peerBytes + 1
          /\ peer'.finAt # 0 => /\ peer'.finAt = Arrived' + 1 /\ peer'.nxt = peer'.finAt + 1
                                /\ peer'.finAt <= trial'.peerBytes + 1
      <3>1. /\ peer.finAt = 0 => peer.nxt <= trial.peerBytes + 1
            /\ peer.finAt # 0 => /\ peer.finAt = Arrived + 1 /\ peer.nxt = peer.finAt + 1
                                 /\ peer.finAt <= trial.peerBytes + 1
        BY DEF Flow, InFlow
      <3>2. trial' = trial
        BY DEF GuestStands
      <3> QED BY <1>1, <1>2, <1>3, <3>1, <3>2
    <2> QED BY <1>2, <2>1, <2>2, <2>3, <2>4 DEF InFlow
  <1>5. FinBudget'
    <2>1. Counted' = Counted
      BY <1>2 DEF Counted, GuestStands
    <2>2. peer'.fins <= MaxFins /\ toGuest \in Seq(Segment)
      BY DEF Flow, FinBudget, LinkTypes
    <2>3. /\ Counted \in Int
          /\ Cardinality(FinsOn(toGuest)) \in Nat /\ Cardinality(FinsOn(toGuest')) \in Nat
      BY <2>2, FinsFinite, CountedType
    <2> QED BY <1>1, <2>1, <2>2, <2>3, FinBudgetKept DEF Flow
  <1>6. Heard => Heard'
    BY <1>1 DEF Heard
  <1>7. InGrows
    BY <1>2, <1>6 DEF InGrows, GuestStands
  <1>8. InWire(b)'
    BY <1>7, InWireKept DEF Flow
  <1> QED BY <1>4, <1>5, <1>8

(* The peer takes part in the handshake. *)
LEMMA PeerHandshakeFlow ==
  ASSUME LinkTypes, Numbers, Numbers', NEW b \in Nat, Flow(b), GuestStands,
         NEW seg \in Segment, Carries(toPeer, seg), "RST" \notin seg.flags,
         PeerHandshake(seg),
         \A g \in Segment : Carries(toPeer', g) => Carries(toPeer, g)
  PROVE  Flow(b)' /\ peer' \in PeerCb /\ peerGot' = peerGot /\ toGuest' \in Seq(Segment)
  <1>1. peer' \in PeerCb /\ peerGot' = peerGot /\ peer \in PeerCb /\ toGuest \in Seq(Segment)
    BY PeerHandshakeEffect DEF LinkTypes
  <1>2. /\ OpensPeer(seg) => trial.opener = "guest" /\ ~Silent /\ Plus(seg.seq, 1) = b
        /\ AnswersPeer(seg) => /\ trial.opener = "peer" /\ ~Silent /\ Opened
                               /\ Plus(seg.seq, 1) = b
        /\ CompletesPeer(seg) => cb.state \in Streaming
    BY HandshakeFacts
  <1>3. /\ (Opened' <=> Opened) /\ (SawFin' <=> SawFin) /\ (Silent' <=> Silent)
        /\ Arrived' = Arrived
    BY DEF GuestStands, Opened, SawFin, Silent, Arrived
  <1>4. /\ peer.nxt \in Nat /\ peer.una \in Nat /\ Arrived \in Nat /\ b > 0
        /\ peer.rcvNxt \in Nat /\ Len(peerGot) = 0 /\ ~peer.finRcvd /\ b < SeqMod
    <2>1. peer.st \in {"listen", "synsent", "synrcvd"}
      BY PeerHandshakeEffect DEF OpensPeer, AnswersPeer, CompletesPeer
    <2>2. Len(peerGot) = 0 /\ ~peer.finRcvd
      BY <2>1 DEF Flow, PeerSide
    <2> QED BY <2>2 DEF Numbers, Flow, Fits
  <1>5. /\ peer.st \in {"listen", "synsent", "synrcvd"} /\ peer.nxt <= 1
        /\ peer.una = 0 /\ peer.finAt = 0
        /\ Heard => peer.rcvNxt = b
        /\ peer.st = "synrcvd" => Heard
        /\ cb.state \in Streaming => Heard
    <2>1. peer.st \in {"listen", "synsent", "synrcvd"}
      BY PeerHandshakeEffect DEF OpensPeer, AnswersPeer, CompletesPeer
    <2>2. Heard => peer.rcvNxt = b + Len(peerGot) + One(peer.finRcvd)
      BY DEF Flow, OutFlow
    <2> QED BY <1>4, <2>1, <2>2 DEF Flow, PeerSide, Opening, One
  <1>6. /\ peer'.rcvNxt = b /\ peer'.finRcvd = peer.finRcvd /\ Heard'
        /\ peer'.nxt = 1 /\ peer'.finAt = 0 /\ peer'.fins = peer.fins
        /\ \/ OpensPeer(seg) /\ peer'.st = "synrcvd" /\ peer'.una = 0
           \/ AnswersPeer(seg) /\ peer'.st = "estab" /\ peer'.una = 1
           \/ CompletesPeer(seg) /\ peer'.st = "estab" /\ peer'.una = 1
    <2>1. CASE /\ OpensPeer(seg)
               /\ peer' = [peer EXCEPT !.st = "synrcvd", !.nxt = 1,
                                       !.rcvNxt = Plus(seg.seq, 1)]
      <3>1. /\ peer'.rcvNxt = Plus(seg.seq, 1) /\ peer'.finRcvd = peer.finRcvd
            /\ peer'.nxt = 1 /\ peer'.finAt = peer.finAt /\ peer'.fins = peer.fins
            /\ peer'.st = "synrcvd" /\ peer'.una = peer.una
        BY <1>1, <2>1 DEF PeerCb
      <3> QED BY <1>2, <1>4, <1>5, <2>1, <3>1 DEF Heard
    <2>2. CASE /\ AnswersPeer(seg)
               /\ peer' = [peer EXCEPT !.st = "estab", !.una = 1, !.rcvNxt = Plus(seg.seq, 1)]
      <3>1. /\ peer'.rcvNxt = Plus(seg.seq, 1) /\ peer'.finRcvd = peer.finRcvd
            /\ peer'.nxt = peer.nxt /\ peer'.finAt = peer.finAt /\ peer'.fins = peer.fins
            /\ peer'.st = "estab" /\ peer'.una = 1
        BY <1>1, <2>2 DEF PeerCb
      <3>2. peer.nxt = 1
        BY <2>2 DEF AnswersPeer, Flow, PeerSide
      <3> QED BY <1>2, <1>4, <1>5, <2>2, <3>1, <3>2 DEF Heard
    <2>3. CASE /\ CompletesPeer(seg)
               /\ peer' = [peer EXCEPT !.st = "estab", !.una = 1]
      <3>1. /\ peer'.rcvNxt = peer.rcvNxt /\ peer'.finRcvd = peer.finRcvd
            /\ peer'.nxt = peer.nxt /\ peer'.finAt = peer.finAt /\ peer'.fins = peer.fins
            /\ peer'.st = "estab" /\ peer'.una = 1
        BY <1>1, <2>3 DEF PeerCb
      <3>2. peer.nxt = 1 /\ Heard
        BY <2>3 DEF CompletesPeer, Flow, PeerSide
      <3> QED BY <1>2, <1>4, <1>5, <2>3, <3>1, <3>2 DEF Heard
    <2> QED BY <2>1, <2>2, <2>3, PeerHandshakeEffect
  <1>7. Fits(b)' /\ Quiet' /\ Kept(b)'
    <2>1. Fits(b)' /\ Quiet'
      BY DEF Flow, GuestStands, Fits, Quiet
    <2>2. Kept(b)'
      BY <1>1 DEF Flow, GuestStands, Kept, OutBytes, Run
    <2> QED BY <2>1, <2>2
  <1>8. Opening(b)'
    <2>1. ~Silent /\ (cb.state = "SYNSENT" => trial.opener # "peer")
      <3>1. cb.state = "SYNSENT" => ~Opened /\ cb.state \notin Streaming
        BY DEF Opened, Streaming
      <3>2. cb.state \in Streaming => ~Silent
        BY DEF Silent, Streaming
      <3> QED BY <1>2, <1>6, <3>1, <3>2
    <2>2. cb' = cb /\ trial' = trial
      BY DEF GuestStands
    <2> QED BY <1>3, <1>6, <2>1, <2>2 DEF Flow, Opening
  <1>9. PeerSide'
    <2>1. peer'.st = "estab" => Opened'
      BY <1>2, <1>3, <1>6 DEF Opened
    <2>2. peer'.st = "synrcvd" => trial'.opener = "guest"
      BY <1>2, <1>6 DEF GuestStands
    <2>3. Len(peerGot') = 0 /\ ~peer'.finRcvd
      BY <1>1, <1>4, <1>6
    <2> QED BY <1>6, <2>1, <2>2, <2>3 DEF PeerSide
  <1>10. OutFlow(b)'
    <2>1. peer'.rcvNxt = b + Len(peerGot') + One(peer'.finRcvd)
      BY <1>1, <1>4, <1>6 DEF One
    <2>2. cb.state \in Streaming => peer.rcvNxt = peer'.rcvNxt
      BY <1>5, <1>6
    <2>3. Run(peerGot, 0)' /\ ~peer'.finRcvd
      BY <1>1, <1>4, <1>6 DEF Flow, OutFlow, Run
    <2> QED BY <1>1, <2>1, <2>2, <2>3 DEF Flow, OutFlow, GuestStands
  <1>11. OutWire(b)'
    <2>1. OutGrows
      <3>1. /\ cb.rcvNxt \in Nat /\ cb.sndNxt \in Nat /\ Len(peerGot) \in Nat
            /\ reg.txWr \in Nat
        BY DEF Numbers
      <3> QED BY <1>1, <1>3, <3>1 DEF GuestStands, OutGrows
    <2> QED BY <2>1, OutWireKept DEF Flow
  <1>12. /\ toGuest' \in Seq(Segment)
         /\ \A g \in Segment :
              Carries(toGuest', g) => \/ Carries(toGuest, g)
                                      \/ (InSeg(b, g)' /\ "FIN" \notin g.flags)
         /\ Cardinality(FinsOn(toGuest')) <= Cardinality(FinsOn(toGuest))
    <2>0. Cardinality(FinsOn(toGuest)) \in Nat
      BY <1>1, FinsFinite
    <2>1. CASE toGuest' = toGuest
      BY <1>1, <2>0, <2>1
    <2>2. CASE /\ OpensPeer(seg)
               /\ \E g \in Segment :
                    /\ PeerTransmits(<<g>>)
                    /\ g.seq = PeerIsn /\ g.ack = Plus(seg.seq, 1)
                    /\ g.flags = {"SYN", "ACK"} /\ g.data = <<>>
      <3>1. PICK g \in Segment :
                    /\ PeerTransmits(<<g>>)
                    /\ g.seq = PeerIsn /\ g.ack = Plus(seg.seq, 1)
                    /\ g.flags = {"SYN", "ACK"} /\ g.data = <<>>
        BY <2>2
      <3>2. "FIN" \notin g.flags
        BY <3>1
      <3>3. trial'.opener = "guest" /\ g.ack = b /\ peer'.nxt >= 1
        BY <1>2, <1>6, <2>2, <3>1 DEF GuestStands
      <3>4. InSeg(b, g)'
        BY <1>6, <3>1, <3>3 DEF InSeg
      <3>5. Cardinality(FinsOn(toGuest')) <= Cardinality(FinsOn(toGuest)) + 0
        BY <1>1, <3>1, <3>2, ToGuestAdds DEF One
      <3> QED BY <1>1, <2>0, <3>1, <3>2, <3>4, <3>5, ToGuestAdds
    <2>3. CASE AnswersPeer(seg) /\ \E g \in Segment : PeerTransmits(<<g>>) /\ PureAck(peer', g)
      <3>1. PICK g \in Segment : PeerTransmits(<<g>>) /\ PureAck(peer', g)
        BY <2>3
      <3>2. g.ack = b /\ g.data = <<>> /\ g.flags = {"ACK"} /\ "FIN" \notin g.flags
        BY <1>6, <3>1 DEF PureAck
      <3>3. Opened' /\ b <= g.ack /\ g.ack <= peer'.rcvNxt
        BY <1>2, <1>3, <1>6, <2>3, <3>2
      <3>4. InSeg(b, g)'
        BY <1>6, <3>2, <3>3 DEF InSeg
      <3>5. Cardinality(FinsOn(toGuest')) <= Cardinality(FinsOn(toGuest)) + 0
        BY <1>1, <3>1, <3>2, ToGuestAdds DEF One
      <3> QED BY <1>1, <2>0, <3>1, <3>2, <3>4, <3>5, ToGuestAdds
    <2> QED BY <2>1, <2>2, <2>3, PeerHandshakeEffect
  <1>13. InFlow' /\ FinBudget' /\ InWire(b)'
    <2>1. /\ peer.nxt <= peer'.nxt /\ peer'.finAt = peer.finAt /\ peer'.fins = peer.fins
          /\ peer.rcvNxt <= peer'.rcvNxt
          /\ peer'.una <= peer'.nxt /\ peer'.nxt <= Later(peer.nxt, 1)
          /\ peer'.una <= Arrived + 1
      <3>1. peer.rcvNxt <= b
        BY <1>4, <1>5 DEF Heard
      <3> QED BY <1>4, <1>5, <1>6, <3>1 DEF Later
    <2> QED BY <1>12, <2>1, PeerAnswersIn
  <1> QED BY <1>1, <1>7, <1>8, <1>9, <1>10, <1>11, <1>12, <1>13 DEF Flow
(* What a segment of the open stream does to the peer's account of it:     *)
(* the bytes it takes are the guest's next ones, and the acknowledgement   *)
(* in it is for bytes that arrived.                                        *)
StreamTakes(b) ==
  /\ peer.una <= peer'.una /\ peer'.una <= peer.nxt
  /\ ~SawFin => peer'.una <= Arrived + 1
  /\ peer'.rcvNxt = b + Len(peerGot') + One(peer'.finRcvd)
  /\ Run(peerGot', 0)
  /\ Len(peerGot) <= Len(peerGot') /\ peer.rcvNxt <= peer'.rcvNxt
  /\ Len(peerGot') <= reg.txWr
  /\ cb.state \in Streaming => b + Len(peerGot') <= cb.sndNxt
  /\ peer'.finRcvd => cb.finSent /\ peer'.rcvNxt = cb.sndNxt

LEMMA StreamTaken2 ==
  ASSUME LinkTypes, Numbers, Numbers', NEW b \in Nat, Flow(b), peer.st = "estab",
         NEW seg \in Segment, OutSeg(b, seg), "RST" \notin seg.flags, PeerStream(seg)
  PROVE  StreamTakes(b)
  <1> DEFINE off   == PeerOff(seg.ack)
             acked == "ACK" \in seg.flags /\ off \in peer.una + 1 .. peer.nxt
             old   == (peer.rcvNxt - seg.seq) % SeqMod
             fresh == ~peer.finRcvd /\ old < Len(seg.data)
             rcv1  == IF fresh THEN Plus(seg.seq, Len(seg.data)) ELSE peer.rcvNxt
             fin   == "FIN" \in seg.flags /\ rcv1 = Plus(seg.seq, Len(seg.data))
  <1>1. /\ peer'.una = IF acked THEN off ELSE peer.una
        /\ peer'.rcvNxt = IF fin THEN Plus(rcv1, 1) ELSE rcv1
        /\ peer'.finRcvd = (peer.finRcvd \/ fin)
        /\ fresh => /\ old \in 0 .. Len(seg.data)
                    /\ peerGot' = peerGot \o SubSeq(seg.data, old + 1, Len(seg.data))
        /\ ~fresh => peerGot' = peerGot
    BY PeerStreamEffect
  <1>2. /\ seg.seq \in Nat /\ seg.ack \in Nat /\ seg.data \in Seq(Nat) /\ Len(seg.data) \in Nat
        /\ seg.seq < SeqMod /\ seg.ack < SeqMod
        /\ (seg.data = <<>> => Len(seg.data) = 0) /\ (seg.data # <<>> => Len(seg.data) > 0)
    BY SegmentNumbers
  <1>3. /\ peer.rcvNxt \in Nat /\ peer.una \in Nat /\ peer.nxt \in Nat /\ Arrived \in Nat
        /\ SeqMod \in Nat /\ SeqMod > 0 /\ PeerIsn \in Nat /\ cb.rcvNxt \in Nat
        /\ cb.sndNxt \in Nat /\ reg.txWr \in Nat /\ peer.finRcvd \in BOOLEAN
        /\ peerGot \in Seq(Nat) /\ Len(peerGot) \in Nat
    BY DEF Numbers
  <1>4. /\ peer.rcvNxt < SeqMod /\ cb.sndNxt < SeqMod /\ cb.rcvNxt < SeqMod
    <2>1. peer.rcvNxt \in SeqNum /\ cb.sndNxt \in SeqNum /\ cb.rcvNxt \in SeqNum
      BY DEF LinkTypes, SendInv, StatusInv, TypeRx, TypeOK, TcpCb, PeerCb
    <2> QED BY <1>3, <2>1 DEF SeqNum
  <1>5. old \in Nat /\ off \in Int
    <2>1. /\ SeqMod \in Nat \ {0}
          /\ peer.rcvNxt - seg.seq \in Int /\ seg.ack - PeerIsn \in Int
      <3>1. SeqMod \in Nat \ {0}
        BY NumAssumption
      <3>2. seg.seq \in Nat /\ seg.ack \in Nat /\ peer.rcvNxt \in Nat /\ PeerIsn \in Nat
        BY <1>2, <1>3
      <3> QED BY <3>1, <3>2
    <2>2. /\ (peer.rcvNxt - seg.seq) % SeqMod \in 0 .. SeqMod - 1
          /\ (seg.ack - PeerIsn) % SeqMod \in 0 .. SeqMod - 1
      BY <2>1, ModRange
    <2> QED BY <1>3, <2>2 DEF PeerOff
  <1>6. /\ peer.una >= 1 /\ peer.una <= peer.nxt
        /\ peer.rcvNxt = b + Len(peerGot) + One(peer.finRcvd)
        /\ Run(peerGot, 0)
        /\ peer.finRcvd => cb.finSent /\ peer.rcvNxt = cb.sndNxt
        /\ Len(peerGot) <= reg.txWr
        /\ cb.state \in Streaming => b + Len(peerGot) <= cb.sndNxt
        /\ ~SawFin => peer.una <= Arrived + 1
        /\ (Opened /\ ~SawFin) => cb.rcvNxt = PeerIsn + 1 + Arrived
    BY DEF Flow, PeerSide, OutFlow, InFlow
  <1> HIDE DEF off, old
  <1>7. /\ peer.una <= peer'.una /\ peer'.una <= peer.nxt
        /\ ~SawFin => peer'.una <= Arrived + 1
    <2>1. CASE ~acked
      BY <1>1, <1>3, <1>6, <2>1
    <2>2. CASE acked
      <3>1. peer'.una = off /\ off \in peer.una + 1 .. peer.nxt /\ "ACK" \in seg.flags
        BY <1>1, <2>2
      <3>2. ASSUME PeerIsn + 1 <= seg.ack PROVE off = seg.ack - PeerIsn
        <4>1. PeerIsn <= seg.ack
          BY <1>2, <1>3, <3>2
        <4>2. (seg.ack - PeerIsn) % SeqMod = seg.ack - PeerIsn
          BY <1>2, <1>3, <4>1, NoWrapLess
        <4> QED BY <4>2 DEF off, PeerOff
      <3>3. ASSUME ~SawFin PROVE off <= Arrived + 1
        <4>1. seg.flags # {"SYN"}
          BY <3>1
        <4>2. CASE seg.ack = PeerIsn + 1
          BY <1>2, <1>3, <3>2, <4>2
        <4>3. CASE seg.ack # PeerIsn + 1
          <5>1. /\ cb.state \in Streaming
                /\ PeerIsn + 1 <= seg.ack /\ seg.ack <= cb.rcvNxt
            BY <3>3, <4>1, <4>3 DEF OutSeg
          <5>2. cb.rcvNxt = PeerIsn + 1 + Arrived
            BY <1>6, <3>3, <5>1 DEF Opened
          <5> QED BY <1>2, <1>3, <3>2, <5>1, <5>2
        <4> QED BY <4>2, <4>3
      <3> QED BY <1>3, <1>5, <3>1, <3>3
    <2> QED BY <2>1, <2>2
  <1> DEFINE Rest == /\ peer'.rcvNxt = b + Len(peerGot') + One(peer'.finRcvd)
                     /\ Run(peerGot', 0)
                     /\ Len(peerGot) <= Len(peerGot') /\ peer.rcvNxt <= peer'.rcvNxt
                     /\ Len(peerGot') <= reg.txWr
                     /\ cb.state \in Streaming => b + Len(peerGot') <= cb.sndNxt
                     /\ peer'.finRcvd => cb.finSent /\ peer'.rcvNxt = cb.sndNxt
  <1> HIDE DEF acked
  <1>8. CASE ~fresh /\ ~fin
    <2>1. peer'.rcvNxt = peer.rcvNxt /\ peer'.finRcvd = peer.finRcvd /\ peerGot' = peerGot
      BY <1>1, <1>3, <1>8
    <2> HIDE DEF fresh, rcv1, fin
    <2>2. Rest
      BY <1>3, <1>6, <2>1
    <2> QED BY <1>7, <2>2 DEF StreamTakes
  <1>9. CASE fresh
    <2>1. ~peer.finRcvd /\ old < Len(seg.data) /\ seg.data # <<>>
      BY <1>2, <1>5, <1>9
    <2>2. OutBytes(b, seg.seq, seg.data) /\ "FIN" \notin seg.flags /\ cb.state \in Streaming
      BY <2>1 DEF OutSeg
    <2>3. /\ b <= seg.seq /\ seg.seq <= b + Len(peerGot)
          /\ Run(seg.data, seg.seq - b)
          /\ seg.seq + Len(seg.data) <= cb.sndNxt
          /\ seg.seq + Len(seg.data) <= b + reg.txWr
      BY <2>2 DEF OutBytes
    <2>4. peer.rcvNxt = b + Len(peerGot)
      BY <1>3, <1>6, <2>1 DEF One
    <2>5. old = peer.rcvNxt - seg.seq
      BY <1>2, <1>3, <1>4, <2>3, <2>4, NoWrapLess DEF old
    <2>6. rcv1 = seg.seq + Len(seg.data) /\ ~fin
      <3>1. seg.seq + Len(seg.data) < SeqMod
        BY <1>2, <1>3, <1>4, <2>3
      <3>2. Plus(seg.seq, Len(seg.data)) = seg.seq + Len(seg.data)
        BY <1>2, <3>1, NoWrapPlus
      <3> QED BY <1>9, <2>2, <3>2
    <2>7. /\ peer'.rcvNxt = seg.seq + Len(seg.data) /\ ~peer'.finRcvd
          /\ peerGot' = peerGot \o SubSeq(seg.data, old + 1, Len(seg.data))
      BY <1>1, <1>9, <2>1, <2>6
    <2> HIDE DEF fresh, rcv1, fin
    <2>8. PICK k \in Nat : k = seg.seq - b
      BY <1>2, <2>3
    <2>9. /\ old \in 0 .. Len(seg.data) /\ old + k = Len(peerGot)
          /\ Len(seg.data) - old + Len(peerGot) = k + Len(seg.data)
      <3>1. /\ seg.seq \in Nat /\ Len(seg.data) \in Nat /\ Len(peerGot) \in Nat
            /\ old \in Nat
        BY <1>2, <1>3, <1>5
      <3>2. old + k = Len(peerGot)
        BY <2>4, <2>5, <2>8, <3>1
      <3> QED BY <2>1, <3>1, <3>2
    <2> DEFINE new == SubSeq(seg.data, old + 1, Len(seg.data))
    <2>10. /\ new \in Seq(Nat) /\ Len(new) = Len(seg.data) - old
           /\ Run(new, k + old)
      <3>1. Run(seg.data, k) /\ seg.data \in Seq(Nat)
        BY <1>2, <2>3, <2>8
      <3>2. Len(seg.data) \in old .. Len(seg.data)
        BY <1>2, <2>9
      <3> QED BY <2>9, <3>1, <3>2, RunPart
    <2> HIDE DEF new
    <2>11. Run(new, 0 + Len(peerGot))
      BY <1>3, <1>5, <2>9, <2>10, SMTT(20)
    <2>12. /\ Len(peerGot') = Len(peerGot) + Len(new)
           /\ Run(peerGot', 0)
      BY <1>3, <1>6, <2>7, <2>10, <2>11, RunConcat DEF new
    <2>13. Len(peerGot') = k + Len(seg.data)
      BY <1>2, <1>3, <1>5, <2>9, <2>10, <2>12
    <2>17. peer'.rcvNxt = seg.seq + Len(seg.data) /\ ~peer'.finRcvd
      BY <2>7
    <2>18. PICK n \in Nat, q \in Nat, m \in Nat :
             n = Len(seg.data) /\ q = seg.seq /\ m = Len(peerGot)
      BY <1>2, <1>3
    <2>19. /\ Len(peerGot') = k + n /\ peer'.rcvNxt = q + n /\ q = b + k
           /\ peer.rcvNxt = b + m /\ q + n <= cb.sndNxt /\ q + n <= b + reg.txWr
           /\ ~peer'.finRcvd
      <3>1. q = b + k
        BY <2>3, <2>8, <2>18
      <3> QED BY <2>3, <2>4, <2>13, <2>17, <2>18, <3>1
    <2>14. peer'.rcvNxt = b + Len(peerGot') + One(peer'.finRcvd)
      BY <2>19 DEF One
    <2>15. Len(peerGot) <= Len(peerGot')
      BY <1>2, <1>3, <1>5, <2>9, <2>10, <2>12
    <2>16. /\ peer.rcvNxt <= peer'.rcvNxt /\ Len(peerGot') <= reg.txWr
           /\ b + Len(peerGot') <= cb.sndNxt
      <3>1. m <= k + n
        BY <2>15, <2>18, <2>19
      <3>2. cb.sndNxt \in Nat /\ reg.txWr \in Nat
        BY <1>3
      <3>3. b + (k + n) <= cb.sndNxt /\ b + (k + n) <= b + reg.txWr
        BY <2>19, <3>2
      <3>4. k + n <= reg.txWr
        BY <3>2, <3>3
      <3> QED BY <2>19, <3>1, <3>3, <3>4
    <2> QED BY <1>7, <2>7, <2>12, <2>14, <2>15, <2>16 DEF StreamTakes
  <1>10. CASE ~fresh /\ fin
    <2>1. "FIN" \in seg.flags /\ peer.rcvNxt = Plus(seg.seq, Len(seg.data))
      BY <1>10
    <2>2. seg.data = <<>> /\ cb.finSent /\ seg.seq + 1 = cb.sndNxt /\ cb.state \in Streaming
      BY <2>1 DEF OutSeg
    <2>3. peer.rcvNxt = seg.seq
      <3>1. Plus(seg.seq, 0) = seg.seq + 0
        BY <1>2, NoWrapPlus
      <3> QED BY <1>2, <2>1, <2>2, <3>1
    <2>4. ~peer.finRcvd
      BY <1>2, <1>3, <1>6, <2>2, <2>3
    <2>5. Plus(peer.rcvNxt, 1) = peer.rcvNxt + 1
      BY <1>3, <1>4, <2>2, <2>3, NoWrapPlus
    <2>6. /\ peer'.rcvNxt = peer.rcvNxt + 1 /\ peer'.finRcvd /\ peerGot' = peerGot
      BY <1>1, <1>10, <2>5
    <2> HIDE DEF fresh, rcv1, fin
    <2>7. Rest
      BY <1>3, <1>6, <2>2, <2>3, <2>4, <2>6 DEF One
    <2> QED BY <1>7, <2>7 DEF StreamTakes
  <1> QED BY <1>8, <1>9, <1>10

LEMMA PeerStreamFlow ==
  ASSUME LinkTypes, Numbers, Numbers', NEW b \in Nat, Flow(b), GuestStands,
         peer.st = "estab", NEW seg \in Segment, Carries(toPeer, seg),
         "RST" \notin seg.flags, PeerStream(seg),
         \A g \in Segment : Carries(toPeer', g) => Carries(toPeer, g)
  PROVE  /\ Flow(b)' /\ peer' \in PeerCb /\ peerGot' \in Seq(Nat)
         /\ toGuest' \in Seq(Segment)
  <1>1. /\ peer'.st = "estab" /\ peer'.nxt = peer.nxt
        /\ peer'.finAt = peer.finAt /\ peer'.fins = peer.fins
        /\ peer' \in PeerCb /\ peerGot' \in Seq(Nat)
        /\ \/ toGuest' = toGuest
           \/ \E g \in Segment : PeerTransmits(<<g>>) /\ PureAck(peer', g)
    BY PeerStreamEffect
  <1>2. StreamTakes(b)
    BY StreamTaken2 DEF Flow, OutWire
  <1>3. /\ (Opened' <=> Opened) /\ (SawFin' <=> SawFin) /\ (Silent' <=> Silent)
        /\ cb' = cb /\ reg' = reg /\ trial' = trial /\ rx' = rx /\ got' = got
    BY DEF GuestStands, Opened, SawFin, Silent
  <1>4. /\ Heard /\ Opened /\ peer.una >= 1
    BY DEF Flow, PeerSide
  <1>5. /\ peer.nxt \in Nat /\ peer.una \in Nat /\ Arrived \in Nat /\ peer'.una \in Nat
        /\ peer.rcvNxt \in Nat /\ peer'.rcvNxt \in Nat /\ cb.rcvNxt \in Nat
        /\ cb.sndNxt \in Nat /\ reg.txWr \in Nat /\ peer'.finRcvd \in BOOLEAN
        /\ Len(peerGot) \in Nat /\ Len(peerGot') \in Nat /\ cb.sndUna \in Nat
        /\ reg.txRd \in Nat
    BY DEF Numbers
  <1>6. Heard' /\ peer'.una >= 1
    BY <1>2, <1>4, <1>5, SMTT(20) DEF Heard, StreamTakes
  <1>7. Fits(b)' /\ Quiet' /\ Opening(b)'
    <2>1. ~Silent
      BY <1>4 DEF Flow, Opening
    <2>2. cb.state # "SYNSENT"
      BY <1>4 DEF Opened, Streaming
    <2> QED BY <1>3, <1>6, <2>1, <2>2 DEF Flow, Fits, Quiet, Opening
  <1>8. PeerSide'
    BY <1>1, <1>2, <1>3, <1>4, <1>6 DEF PeerSide, StreamTakes
  <1>9. OutFlow(b)'
    <2>1. cb.state \in Streaming =>
            /\ b <= cb.sndUna /\ cb.sndUna <= peer'.rcvNxt
            /\ b + Len(peerGot') <= cb.sndNxt
            /\ cb.sndNxt <= b + reg.txWr + One(cb.finSent)
      <3>1. cb.state \in Streaming =>
              /\ b <= cb.sndUna /\ cb.sndUna <= peer.rcvNxt
              /\ cb.sndNxt <= b + reg.txWr + One(cb.finSent)
        BY DEF Flow, OutFlow
      <3>2. peer.rcvNxt <= peer'.rcvNxt
        BY <1>2 DEF StreamTakes
      <3> QED BY <1>2, <1>5, <3>1, <3>2 DEF StreamTakes
    <2>2. cb.state = "ESTABLISHED" =>
            /\ reg.txRd <= Len(peerGot')
            /\ cb.sndNxt = b + reg.txRd + Len(cb.retxBuf)
            /\ cb.retxBuf # <<>> => cb.retxSeq = b + reg.txRd
      <3>1. cb.state = "ESTABLISHED" =>
              /\ reg.txRd <= Len(peerGot)
              /\ cb.sndNxt = b + reg.txRd + Len(cb.retxBuf)
              /\ cb.retxBuf # <<>> => cb.retxSeq = b + reg.txRd
        BY DEF Flow, OutFlow
      <3>2. Len(peerGot) <= Len(peerGot')
        BY <1>2 DEF StreamTakes
      <3> QED BY <1>5, <3>1, <3>2
    <2>3. Run(peerGot, 0)'
      BY <1>2 DEF StreamTakes, Run
    <2>4. /\ cb.finSent => cb.state \in {"FIN_WAIT", "LAST_ACK"}
          /\ reg.txWr <= trial.guestBytes
      BY DEF Flow, OutFlow
    <2> QED BY <1>2, <1>3, <2>1, <2>2, <2>3, <2>4 DEF OutFlow, StreamTakes
  <1>10. Kept(b)' /\ OutWire(b)'
    <2>1. Len(peerGot) <= Len(peerGot')
      BY <1>2 DEF StreamTakes
    <2>2. Kept(b)'
      <3>1. ASSUME cb.retxBuf # <<>> PROVE OutBytes(b, cb.retxSeq, cb.retxBuf)'
        <4>1. OutBytes(b, cb.retxSeq, cb.retxBuf) /\ cb.retxSeq \in Nat /\ cb.retxBuf \in Seq(Nat)
          BY <3>1 DEF Flow, Kept, Numbers
        <4>2. PICK q \in Nat, d \in Seq(Nat) : q = cb.retxSeq /\ d = cb.retxBuf
          BY <4>1
        <4>3. OutBytes(b, q, d)
          BY <4>1, <4>2
        <4>4. cb.sndNxt <= cb'.sndNxt /\ reg.txWr <= reg'.txWr
          BY <1>3, <1>5
        <4>5. OutBytes(b, q, d)'
          BY <2>1, <4>3, <4>4, OutBytesKept
        <4> QED BY <1>3, <4>2, <4>5 DEF OutBytes, Run
      <3> QED BY <1>3, <3>1 DEF Kept
    <2>3. OutGrows
      BY <1>3, <1>5, <2>1, SMTT(20) DEF OutGrows
    <2> QED BY <2>2, <2>3, OutWireKept DEF Flow
  <1>11. /\ toGuest' \in Seq(Segment)
         /\ \A g \in Segment :
              Carries(toGuest', g) => \/ Carries(toGuest, g)
                                      \/ (InSeg(b, g)' /\ "FIN" \notin g.flags)
         /\ Cardinality(FinsOn(toGuest')) <= Cardinality(FinsOn(toGuest))
    <2>0. toGuest \in Seq(Segment) /\ Cardinality(FinsOn(toGuest)) \in Nat
      BY FinsFinite DEF LinkTypes
    <2>1. CASE toGuest' = toGuest
      BY <2>0, <2>1
    <2>2. CASE \E g \in Segment : PeerTransmits(<<g>>) /\ PureAck(peer', g)
      <3>1. PICK g \in Segment : PeerTransmits(<<g>>) /\ PureAck(peer', g)
        BY <2>2
      <3>2. g.ack = peer'.rcvNxt /\ g.data = <<>> /\ g.flags = {"ACK"} /\ "FIN" \notin g.flags
        BY <3>1 DEF PureAck
      <3>3. b <= g.ack /\ g.ack <= peer'.rcvNxt
        <4>1. peer'.rcvNxt = b + Len(peerGot') + One(peer'.finRcvd)
          BY <1>2 DEF StreamTakes
        <4> QED BY <1>5, <3>2, <4>1 DEF One
      <3>4. InSeg(b, g)'
        BY <1>3, <1>4, <1>6, <3>2, <3>3 DEF InSeg
      <3>5. Cardinality(FinsOn(toGuest')) <= Cardinality(FinsOn(toGuest)) + 0
        BY <2>0, <3>1, <3>2, ToGuestAdds DEF One
      <3> QED BY <2>0, <3>1, <3>2, <3>4, <3>5, ToGuestAdds
    <2> QED BY <1>1, <2>1, <2>2
  <1>12. InFlow' /\ FinBudget' /\ InWire(b)'
    <2>1. /\ peer.nxt <= peer'.nxt
          /\ peer.rcvNxt <= peer'.rcvNxt
          /\ peer'.una <= peer'.nxt /\ peer'.nxt <= Later(peer.nxt, 1)
          /\ ~SawFin => peer'.una <= Arrived + 1
      BY <1>1, <1>2, <1>5 DEF Later, StreamTakes
    <2> QED BY <1>1, <1>11, <2>1, PeerAnswersIn
  <1> QED BY <1>1, <1>7, <1>8, <1>9, <1>10, <1>11, <1>12 DEF Flow
-----------------------------------------------------------------------------
(* The peer's side, put together *)

GuestKeeps == UNCHANGED <<cb, reg, rx, arp, await, polling, got, trial>>

(* The guest's invariants do not depend on what is in flight to the peer.  *)
LEMMA GuestKeepsTypes ==
  ASSUME LinkTypes, GuestKeeps, toPeer' \in Seq(Segment),
         peer' \in PeerCb, peerGot' \in Seq(Nat), toGuest' \in Seq(Segment)
  PROVE  LinkTypes'
  <1>1. TypeOK'
    BY DEF LinkTypes, SendInv, StatusInv, TypeRx, TypeOK, GuestKeeps
  <1>2. RxRingSound' /\ StatusMirrorsStack' /\ TxRingSound' /\ SendOkMeansAcked'
    BY DEF LinkTypes, SendInv, StatusInv, TypeRx, GuestKeeps, RxRingSound,
           StatusMirrorsStack, TxRingSound, SendOkMeansAcked
  <1> QED BY <1>1, <1>2 DEF LinkTypes, SendInv, StatusInv, TypeRx, GuestKeeps

LEMMA PeerActsTypes ==
  ASSUME LinkTypes, GuestKeeps, toPeer' = toPeer, PeerSends \/ PeerDies
  PROVE  LinkTypes' /\ peerGot' = peerGot
  <1>1. toPeer' \in Seq(Segment) /\ peerGot' = peerGot /\ peerGot' \in Seq(Nat)
    BY DEF LinkTypes, SendInv, StatusInv, TypeRx, TypeOK, PeerSends, PeerDies
  <1>2. toGuest \in Seq(Segment) /\ peer \in PeerCb
    BY DEF LinkTypes
  <1>3. CASE PeerSyn
    <2>1. peer' \in PeerCb /\ \E g \in Segment : PeerTransmits(<<g>>)
      BY <1>3, PeerSynEffect
    <2> QED BY <1>1, <1>2, <2>1, ToGuestAdds, GuestKeepsTypes
  <1>4. CASE PeerData
    <2>1. peer' \in PeerCb /\ \E g \in Segment : PeerTransmits(<<g>>)
      BY <1>4, PeerDataEffect
    <2> QED BY <1>1, <1>2, <2>1, ToGuestAdds, GuestKeepsTypes
  <1>5. CASE PeerFin
    <2>1. peer' \in PeerCb /\ \E g \in Segment : PeerTransmits(<<g>>)
      BY <1>5, PeerFinEffect
    <2> QED BY <1>1, <1>2, <2>1, ToGuestAdds, GuestKeepsTypes
  <1>6. CASE PeerDies
    <2>1. peer' \in PeerCb
      <3>1. peer' = [peer EXCEPT !.st = "dead"] /\ "dead" \in PeerStates
        BY <1>6 DEF PeerDies, PeerStates
      <3> QED BY <1>2, <3>1 DEF PeerCb
    <2>2. toGuest' \in Seq(Segment)
      <3> DEFINE g == Packet(PeerSeq(peer.nxt), peer.rcvNxt, {"RST", "ACK"}, <<>>)
      <3>1. toGuest' = toGuest \/ PeerTransmits(<<g>>)
        BY <1>6 DEF PeerDies
      <3>2. g \in Segment
        <4>1. peer.nxt \in Nat /\ peer.rcvNxt \in SeqNum /\ {"RST", "ACK"} \in SUBSET Flags
          BY <1>2 DEF PeerCb, Flags
        <4>2. PeerSeq(peer.nxt) \in SeqNum
          BY <4>1, PeerSeqType
        <4> QED BY <4>1, <4>2, EmptyPacket
      <3> HIDE DEF g
      <3> QED BY <1>2, <3>1, <3>2, ToGuestAdds
    <2> QED BY <1>1, <2>1, <2>2, GuestKeepsTypes
  <1> QED BY <1>1, <1>3, <1>4, <1>5, <1>6 DEF PeerSends

LEMMA PeerActsFlow ==
  ASSUME LinkTypes, LinkTypes', NEW b \in Nat, Flow(b), GuestKeeps, toPeer' = toPeer,
         PeerSends \/ PeerDies, NoWrap, trial.finWaits
  PROVE  Flow(b)'
  <1>1. Numbers /\ Numbers' /\ GuestStands /\ peerGot' = peerGot
    BY LinkNumbers, LinkNumbersNext, PeerActsTypes DEF GuestKeeps, GuestStands
  <1>2. CASE PeerSyn
    BY <1>1, <1>2, PeerSynFlow
  <1>3. CASE PeerData
    BY <1>1, <1>3, PeerDataFlow
  <1>4. CASE PeerFin
    BY <1>1, <1>4, PeerFinFlow
  <1>5. CASE PeerDies
    BY <1>1, <1>5, PeerDiesFlow
  <1> QED BY <1>2, <1>3, <1>4, <1>5 DEF PeerSends

(* What becomes of a segment the peer receives. *)
PeerTakes(seg) ==
  \/ "RST" \in seg.flags /\ PeerReset(seg)
  \/ "RST" \notin seg.flags /\ PeerHandshake(seg)
  \/ "RST" \notin seg.flags /\ peer.st = "estab" /\ PeerStream(seg)
  \/ UNCHANGED <<peer, peerGot, toGuest>>

LEMMA PeerReceivesCases ==
  ASSUME LinkTypes, PeerReceives
  PROVE  \E seg \in Segment :
           /\ Carries(toPeer, seg) /\ PeerTakes(seg)
           /\ toPeer' \in Seq(Segment)
           /\ \A g : Carries(toPeer', g) => Carries(toPeer, g)
  <1>1. PICK i \in InFlight(toPeer) :
          toPeer' \in Received(toPeer, i) /\ PeerTakes(toPeer[i])
    BY Zenon DEF PeerReceives, PeerTakes
  <1>2. toPeer \in Seq(Segment)
    BY DEF LinkTypes, SendInv, StatusInv, TypeRx, TypeOK
  <1>3. /\ toPeer[i] \in Segment /\ Carries(toPeer, toPeer[i])
        /\ toPeer' \in Seq(Segment)
        /\ \A g : Carries(toPeer', g) => Carries(toPeer, g)
    BY <1>1, <1>2, FromToPeer
  <1> QED BY <1>1, <1>3

LEMMA PeerResetEffect ==
  ASSUME LinkTypes, NEW seg, PeerReset(seg) \/ UNCHANGED <<peer, peerGot, toGuest>>
  PROVE  /\ peer' \in PeerCb /\ peer'.st \in {peer.st, "dead"} /\ peer'.nxt = peer.nxt
         /\ peer'.una = peer.una /\ peer'.finAt = peer.finAt /\ peer'.fins = peer.fins
         /\ peer'.rcvNxt = peer.rcvNxt /\ peer'.finRcvd = peer.finRcvd
         /\ peerGot' = peerGot /\ toGuest' = toGuest
  <1>1. peer \in PeerCb /\ "dead" \in PeerStates
    BY DEF LinkTypes, PeerStates
  <1>2. CASE PeerReset(seg)
    <2> DEFINE st1 == IF peer.st = "listen" THEN peer.st ELSE "dead"
    <2>1. peer' = [peer EXCEPT !.st = st1] /\ peerGot' = peerGot /\ toGuest' = toGuest
      BY <1>2 DEF PeerReset
    <2>2. st1 \in PeerStates /\ st1 \in {peer.st, "dead"}
      BY <1>1 DEF PeerCb
    <2> HIDE DEF st1
    <2> QED BY <1>1, <2>1, <2>2 DEF PeerCb
  <1>3. CASE UNCHANGED <<peer, peerGot, toGuest>>
    BY <1>1, <1>3
  <1> QED BY <1>2, <1>3

LEMMA PeerReceivesTypes ==
  ASSUME LinkTypes, GuestKeeps, PeerReceives
  PROVE  LinkTypes'
  <1>1. PICK seg \in Segment :
           /\ Carries(toPeer, seg) /\ PeerTakes(seg)
           /\ toPeer' \in Seq(Segment)
    BY PeerReceivesCases
  <1>2. toGuest \in Seq(Segment) /\ peer \in PeerCb /\ peerGot \in Seq(Nat)
    BY DEF LinkTypes
  <1>3. CASE PeerReset(seg) \/ UNCHANGED <<peer, peerGot, toGuest>>
    <2>1. peer' \in PeerCb /\ peerGot' = peerGot /\ toGuest' = toGuest
      BY <1>3, PeerResetEffect
    <2> QED BY <1>1, <1>2, <2>1, GuestKeepsTypes
  <1>4. CASE PeerHandshake(seg)
    <2>1. /\ peer' \in PeerCb /\ peerGot' = peerGot
          /\ toGuest' = toGuest \/ \E g \in Segment : PeerTransmits(<<g>>)
      BY <1>4, PeerHandshakeEffect
    <2> QED BY <1>1, <1>2, <2>1, ToGuestAdds, GuestKeepsTypes
  <1>5. CASE PeerStream(seg)
    <2>1. /\ peer' \in PeerCb /\ peerGot' \in Seq(Nat)
          /\ toGuest' = toGuest \/ \E g \in Segment : PeerTransmits(<<g>>)
      BY <1>5, PeerStreamEffect
    <2> QED BY <1>1, <1>2, <2>1, ToGuestAdds, GuestKeepsTypes
  <1> QED BY <1>1, <1>3, <1>4, <1>5 DEF PeerTakes

LEMMA PeerReceivesFlow ==
  ASSUME LinkTypes, LinkTypes', NEW b \in Nat, Flow(b), GuestKeeps, PeerReceives
  PROVE  Flow(b)'
  <1>1. Numbers /\ Numbers' /\ GuestStands
    BY LinkNumbers, LinkNumbersNext DEF GuestKeeps, GuestStands
  <1>2. PICK seg \in Segment :
           /\ Carries(toPeer, seg) /\ PeerTakes(seg)
           /\ \A g : Carries(toPeer', g) => Carries(toPeer, g)
    BY PeerReceivesCases
  <1>3. CASE PeerReset(seg) \/ UNCHANGED <<peer, peerGot, toGuest>>
    <2>1. toGuest \in Seq(Segment) /\ Cardinality(FinsOn(toGuest)) \in Nat
      BY FinsFinite DEF LinkTypes
    <2>2. /\ peer' \in PeerCb /\ peer'.st \in {peer.st, "dead"} /\ peer'.nxt = peer.nxt
          /\ peer'.una = peer.una /\ peer'.finAt = peer.finAt /\ peer'.fins = peer.fins
          /\ peer'.rcvNxt = peer.rcvNxt /\ peer'.finRcvd = peer.finRcvd
          /\ peerGot' = peerGot /\ toGuest' = toGuest
      BY <1>3, PeerResetEffect
    <2> QED BY <1>1, <1>2, <2>1, <2>2, StandsFlow
  <1>4. CASE "RST" \notin seg.flags /\ PeerHandshake(seg)
    BY <1>1, <1>2, <1>4, PeerHandshakeFlow
  <1>5. CASE "RST" \notin seg.flags /\ peer.st = "estab" /\ PeerStream(seg)
    BY <1>1, <1>2, <1>5, PeerStreamFlow
  <1> QED BY <1>2, <1>3, <1>4, <1>5 DEF PeerTakes

(* The wire loses a frame. *)
LEMMA WireLosesEffect ==
  ASSUME LinkTypes, WireLoses
  PROVE  /\ toPeer' \in Seq(Segment) /\ toGuest' \in Seq(Segment)
         /\ \A g : Carries(toPeer', g) => Carries(toPeer, g)
         /\ \A g : Carries(toGuest', g) => Carries(toGuest, g)
         /\ Cardinality(FinsOn(toGuest')) <= Cardinality(FinsOn(toGuest))
         /\ UNCHANGED <<cb, reg, rx, arp, await, polling, peer, peerGot, got>>
  <1>1. toPeer \in Seq(Segment) /\ toGuest \in Seq(Segment)
    BY DEF LinkTypes, SendInv, StatusInv, TypeRx, TypeOK
  <1>2. Cardinality(FinsOn(toGuest)) \in Nat
    BY <1>1, FinsFinite
  <1>3. UNCHANGED <<cb, reg, rx, arp, await, polling, peer, peerGot, got>>
    BY DEF WireLoses
  <1>4. CASE \E i \in DOMAIN toPeer : toPeer' = Without(toPeer, i) /\ UNCHANGED toGuest
    <2>1. PICK i \in 1 .. Len(toPeer) :
            toPeer' = Without(toPeer, i) /\ toGuest' = toGuest
      BY <1>1, <1>4
    <2>2. toPeer' \in Received(toPeer, i)
      BY <2>1 DEF Received
    <2>3. /\ toPeer' \in Seq(Segment)
          /\ \A g : Carries(toPeer', g) => Carries(toPeer, g)
      BY <1>1, <2>2, ReceivedFacts
    <2> QED BY <1>1, <1>2, <1>3, <2>1, <2>3
  <1>5. CASE \E i \in DOMAIN toGuest : toGuest' = Without(toGuest, i) /\ UNCHANGED toPeer
    <2>1. PICK i \in 1 .. Len(toGuest) :
            toGuest' = Without(toGuest, i) /\ toPeer' = toPeer
      BY <1>1, <1>5
    <2>2. toGuest' \in Received(toGuest, i)
      BY <2>1 DEF Received
    <2>3. /\ toGuest' \in Seq(Segment)
          /\ \A g : Carries(toGuest', g) => Carries(toGuest, g)
          /\ Cardinality(FinsOn(toGuest')) + One("FIN" \in toGuest[i].flags)
               <= Cardinality(FinsOn(toGuest))
      BY <1>1, <2>2, ReceivedFacts
    <2>4. Cardinality(FinsOn(toGuest')) \in Nat
      BY <2>3, FinsFinite
    <2>5. Cardinality(FinsOn(toGuest')) <= Cardinality(FinsOn(toGuest))
      BY <1>2, <2>3, <2>4 DEF One
    <2> QED BY <1>1, <1>3, <2>1, <2>3, <2>5
  <1> QED BY <1>4, <1>5 DEF WireLoses

LEMMA WireLosesKeeps ==
  ASSUME LinkTypes, WireLoses, trial' = trial
  PROVE  /\ LinkTypes'
         /\ \A b \in Nat : Flow(b) => Flow(b)'
  <1>1. /\ toPeer' \in Seq(Segment) /\ toGuest' \in Seq(Segment)
        /\ \A g : Carries(toPeer', g) => Carries(toPeer, g)
        /\ \A g : Carries(toGuest', g) => Carries(toGuest, g)
        /\ Cardinality(FinsOn(toGuest')) <= Cardinality(FinsOn(toGuest))
        /\ UNCHANGED <<cb, reg, rx, arp, await, polling, peer, peerGot, got>>
    BY WireLosesEffect
  <1>2. GuestKeeps /\ GuestStands
    BY <1>1 DEF GuestKeeps, GuestStands
  <1>3. peer' \in PeerCb /\ peerGot' \in Seq(Nat)
    BY <1>1 DEF LinkTypes
  <1>4. LinkTypes'
    BY <1>1, <1>2, <1>3, GuestKeepsTypes
  <1>5. Numbers /\ Numbers'
    BY <1>4, LinkNumbers, LinkNumbersNext
  <1>6. ASSUME NEW b \in Nat, Flow(b) PROVE Flow(b)'
    <2>1. /\ peer' \in PeerCb /\ peer'.st \in {peer.st, "dead"} /\ peer'.nxt = peer.nxt
          /\ peer'.una = peer.una /\ peer'.finAt = peer.finAt /\ peer'.fins = peer.fins
          /\ peer'.rcvNxt = peer.rcvNxt /\ peer'.finRcvd = peer.finRcvd
      BY <1>1, <1>3
    <2> QED BY <1>1, <1>2, <1>5, <1>6, <2>1, StandsFlow
  <1> QED BY <1>4, <1>6
-----------------------------------------------------------------------------
(* The guest's steps keep the invariant *)

PeerStands == UNCHANGED <<peer, peerGot, trial>>

(* The wire to the guest holds nothing new. *)
Drained ==
  /\ toGuest' \in Seq(Segment)
  /\ \A g \in Segment : Carries(toGuest', g) => Carries(toGuest, g)
  /\ Cardinality(FinsOn(toGuest')) <= Cardinality(FinsOn(toGuest))

(* A step after which as many bytes have arrived, in the same state of the *)
(* peer's stream, keeps what is said of the bytes to the guest.            *)
LEMMA GuestKeepsIn ==
  ASSUME LinkTypes, Numbers, Numbers', NEW b \in Nat, Flow(b), PeerStands, Drained,
         Run(got', 0), Run(rx', Len(got')), Arrived' = Arrived,
         Opened' <=> Opened, SawFin' <=> SawFin,
         Opened => cb'.rcvNxt = cb.rcvNxt
  PROVE  PeerSide' /\ InFlow' /\ FinBudget' /\ InWire(b)'
  <1>1. /\ Heard' <=> Heard
        /\ peer' = peer /\ peerGot' = peerGot /\ trial' = trial
    BY DEF PeerStands, Heard
  <1>2. PeerSide'
    BY <1>1 DEF Flow, PeerSide
  <1>3. InFlow'
    <2>1. (Opened' /\ ~SawFin') => /\ cb'.rcvNxt = PeerIsn + 1 + Arrived'
                                   /\ Arrived' + 1 <= peer'.nxt
      BY <1>1 DEF Flow, InFlow
    <2>2. SawFin => Opened
      BY DEF SawFin, Opened, Streaming
    <2>3. SawFin' => peer'.finAt # 0 /\ cb'.rcvNxt >= PeerIsn + 2 + Arrived'
      BY <1>1, <2>2 DEF Flow, InFlow
    <2>4. Run(got, 0)' /\ Run(rx, Len(got))'
      BY DEF Run
    <2> QED BY <1>1, <2>1, <2>3, <2>4 DEF Flow, InFlow
  <1>4. FinBudget'
    <2>1. Counted' = Counted
      BY DEF Counted
    <2>2. peer'.fins <= MaxFins /\ toGuest \in Seq(Segment) /\ peer'.fins = peer.fins
      BY <1>1 DEF Flow, FinBudget, LinkTypes
    <2>3. /\ Counted \in Int /\ peer.fins \in Nat /\ toGuest' \in Seq(Segment)
          /\ Cardinality(FinsOn(toGuest)) \in Nat /\ Cardinality(FinsOn(toGuest')) \in Nat
      BY <2>2, FinsFinite, CountedType DEF Numbers, Drained
    <2>4. Cardinality(FinsOn(toGuest')) <= Cardinality(FinsOn(toGuest))
      BY DEF Drained
    <2> QED BY <2>1, <2>2, <2>3, <2>4, FinBudgetKept DEF Flow
  <1>5. InWire(b)'
    <2>1. InGrows
      <3>1. peer.rcvNxt \in Nat /\ peer.nxt \in Nat
        BY DEF Numbers
      <3> QED BY <1>1, <3>1 DEF InGrows
    <2>2. \A g \in Segment : Carries(toGuest', g) => Carries(toGuest, g) \/ InSeg(b, g)'
      BY DEF Drained
    <2> QED BY <2>1, <2>2, InWireKept DEF Flow
  <1> QED BY <1>2, <1>3, <1>4, <1>5

(* A step that leaves what the invariant reads alone. *)
LEMMA GuestSameFlow ==
  ASSUME LinkTypes, Numbers, Numbers', NEW b \in Nat, Flow(b), PeerStands, Drained,
         cb'.state = cb.state, cb'.sndUna = cb.sndUna, cb'.sndNxt = cb.sndNxt,
         cb'.rcvNxt = cb.rcvNxt, cb'.retxBuf = cb.retxBuf, cb'.retxSeq = cb.retxSeq,
         cb'.finSent = cb.finSent,
         cb'.peerMacKnown = cb.peerMacKnown \/ (cb.state \in Streaming /\ cb'.peerMacKnown),
         reg'.txRd = reg.txRd, reg'.txWr = reg.txWr, rx' = rx, got' = got,
         \A g \in Segment : Carries(toPeer', g) => Carries(toPeer, g) \/ OutSeg(b, g)'
  PROVE  Flow(b)'
  <1>1. /\ (Heard' <=> Heard) /\ Arrived' = Arrived
        /\ peer' = peer /\ peerGot' = peerGot /\ trial' = trial
    BY DEF PeerStands, Heard, Arrived
  <1>2. (Opened' <=> Opened) /\ (SawFin' <=> SawFin)
    BY DEF Opened, SawFin
  <1>3. Silent' <=> Silent
    <2>1. cb.state = "SYNRECV" => cb'.peerMacKnown = cb.peerMacKnown
      BY DEF Streaming
    <2> QED BY <2>1 DEF Silent
  <1>4. Run(got', 0) /\ Run(rx', Len(got'))
    BY DEF Flow, InFlow
  <1>5. PeerSide' /\ InFlow' /\ FinBudget' /\ InWire(b)'
    BY <1>1, <1>2, <1>4, GuestKeepsIn
  <1>6. Fits(b)' /\ Quiet'
    BY <1>1 DEF Flow, Fits, Quiet
  <1>7. Opening(b)'
    <2>1. /\ cb.state \in Streaming => cb'.peerMacKnown
          /\ cb.state = "SYNRECV" => cb'.peerMacKnown = cb.peerMacKnown
      BY DEF Flow, Opening, Streaming
    <2> QED BY <1>1, <1>3, <2>1 DEF Flow, Opening
  <1>8. OutFlow(b)'
    BY <1>1 DEF Flow, OutFlow, Run
  <1>9. Kept(b)'
    BY <1>1 DEF Flow, Kept, OutBytes, Run
  <1>10. OutGrows
    <2>1. /\ cb.rcvNxt \in Nat /\ cb.sndNxt \in Nat /\ Len(peerGot) \in Nat
          /\ reg.txWr \in Nat
      BY DEF Numbers
    <2> QED BY <1>1, <1>2, <1>3, <2>1 DEF OutGrows
  <1>11. OutWire(b)'
    BY <1>10, OutWireKept DEF Flow
  <1> QED BY <1>5, <1>6, <1>7, <1>8, <1>9, <1>11 DEF Flow

(* A step of a socket that is not open yet, which may choose the initial   *)
(* sequence number: the connection goes on from its new base.              *)
LEMMA NewBaseFlow ==
  ASSUME LinkTypes, Numbers, Numbers', NEW b \in Nat, NEW c \in Nat, Flow(b),
         PeerStands, Drained, ~Heard, ~Opened, Silent \/ trial.opener = "peer",
         cb'.state \in {"LISTEN", "SYNSENT", "SYNRECV"}, ~cb'.finSent, cb'.retxBuf = <<>>,
         reg'.txRd = reg.txRd, reg'.txWr = reg.txWr, rx' = rx, got' = got,
         Fits(c), Opening(c)',
         cb'.state = "SYNRECV" => cb'.rcvNxt = PeerIsn + 1 /\ peer.nxt >= 1,
         \A g \in Segment : Carries(toPeer', g) => Carries(toPeer, g) \/ OutSeg(c, g)'
  PROVE  Flow(c)'
  <1>1. /\ ~Heard' /\ Arrived' = Arrived
        /\ peer' = peer /\ peerGot' = peerGot /\ trial' = trial
    BY DEF PeerStands, Heard, Arrived
  <1>2. /\ cb.state \notin Streaming /\ cb'.state \notin Streaming /\ ~SawFin /\ ~SawFin'
        /\ (Opened' <=> cb'.state = "SYNRECV") /\ cb'.state # "ESTABLISHED"
    BY DEF Opened, SawFin, Streaming
  <1>3. /\ reg.txWr = 0 /\ reg.txRd = 0 /\ Len(got) = 0 /\ Len(rx) = 0 /\ ~cb.finSent
        /\ Arrived = 0 /\ Len(peerGot) = 0 /\ ~peer.finRcvd
    <2>1. /\ reg.txWr = 0 /\ reg.txRd = 0 /\ Len(got) = 0 /\ Len(rx) = 0 /\ ~cb.finSent
      BY <1>2 DEF Flow, Quiet
    <2>2. Len(peerGot) = 0 /\ ~peer.finRcvd
      BY DEF Flow, PeerSide
    <2> QED BY <2>1, <2>2 DEF Arrived
  <1>4. Fits(c)' /\ Quiet'
    BY <1>1, <1>3 DEF Fits, Quiet
  <1>5. PeerSide'
    <2>1. peer.st # "estab"
      BY DEF Flow, PeerSide
    <2> QED BY <1>1, <2>1 DEF Flow, PeerSide
  <1>6. OutFlow(c)'
    <2>1. Run(peerGot', 0) /\ trial.guestBytes \in Nat
      BY <1>1 DEF Flow, OutFlow, Numbers
    <2>2. Run(peerGot, 0)'
      BY <2>1 DEF Run
    <2> QED BY <1>1, <1>2, <1>3, <2>1, <2>2 DEF OutFlow
  <1>7. Kept(c)'
    BY DEF Kept
  <1>8. InFlow'
    <2>1. Run(got, 0)' /\ Run(rx, Len(got))'
      BY <1>1 DEF Flow, InFlow, Run
    <2>2. cb'.state = "SYNRECV" => /\ cb'.rcvNxt = PeerIsn + 1 + Arrived'
                                   /\ Arrived' + 1 <= peer'.nxt
      BY <1>1, <1>3 DEF Numbers
    <2> QED BY <1>1, <1>2, <2>1, <2>2 DEF Flow, InFlow
  <1>9. FinBudget'
    <2>1. Counted = 0 /\ Counted' = 0
      <3>1. cb'.state = "SYNRECV" => cb'.rcvNxt - (PeerIsn + 1 + Arrived') = 0
        BY <1>1, <1>3 DEF Numbers
      <3> QED BY <1>2, <3>1 DEF Counted
    <2>2. peer'.fins <= MaxFins /\ toGuest \in Seq(Segment) /\ peer'.fins = peer.fins
      BY <1>1 DEF Flow, FinBudget, LinkTypes
    <2>3. /\ peer.fins \in Nat /\ toGuest' \in Seq(Segment)
          /\ Cardinality(FinsOn(toGuest)) \in Nat /\ Cardinality(FinsOn(toGuest')) \in Nat
      BY <2>2, FinsFinite DEF Numbers, Drained
    <2>4. Cardinality(FinsOn(toGuest')) <= Cardinality(FinsOn(toGuest))
      BY DEF Drained
    <2> QED BY <2>1, <2>2, <2>3, <2>4, FinBudgetKept DEF Flow
  <1>10. OutWire(c)'
    <2>1. ASSUME NEW g \in Segment, Carries(toPeer, g) PROVE OutSeg(c, g)'
      <3>1. OutSeg(b, g)
        BY <2>1 DEF Flow, OutWire
      <3> QED BY <1>1, <1>2, <3>1 DEF OutSeg
    <2>2. \A g \in Segment : Carries(toPeer, g)' <=> Carries(toPeer', g)
      BY DEF Carries
    <2> QED BY <2>1, <2>2 DEF OutWire
  <1>11. InWire(c)'
    <2>1. ASSUME NEW g \in Segment, Carries(toGuest, g) PROVE InSeg(c, g)'
      <3>1. InSeg(b, g)
        BY <2>1 DEF Flow, InWire
      <3> QED BY <1>1, <3>1 DEF InSeg
    <2>2. \A g \in Segment : Carries(toGuest, g)' <=> Carries(toGuest', g)
      BY DEF Carries
    <2> QED BY <2>1, <2>2 DEF InWire, Drained
  <1> QED BY <1>4, <1>5, <1>6, <1>7, <1>8, <1>9, <1>10, <1>11 DEF Flow

(* The handshake is complete. *)
LEMMA EstablishedFlow ==
  ASSUME LinkTypes, Numbers, Numbers', NEW b \in Nat, Flow(b), PeerStands, Drained,
         cb.state \in {"SYNSENT", "SYNRECV"}, Heard, peer.nxt >= 1,
         cb'.state = "ESTABLISHED", cb'.sndUna = b, cb'.sndNxt = b,
         cb'.rcvNxt = PeerIsn + 1, cb'.peerMacKnown,
         ~cb'.finSent, cb'.retxBuf = <<>>,
         reg'.txRd = reg.txRd, reg'.txWr = reg.txWr, rx' = rx, got' = got,
         \A g \in Segment : Carries(toPeer', g) => Carries(toPeer, g) \/ OutSeg(b, g)'
  PROVE  Flow(b)'
  <1>1. /\ Heard' /\ Arrived' = Arrived
        /\ peer' = peer /\ peerGot' = peerGot /\ trial' = trial
    BY DEF PeerStands, Heard, Arrived
  <1>2. /\ cb.state \notin Streaming /\ cb'.state \in Streaming /\ ~SawFin /\ ~SawFin'
        /\ Opened' /\ ~Silent'
    BY DEF Opened, SawFin, Streaming, Silent
  <1>3. /\ reg.txWr = 0 /\ reg.txRd = 0 /\ Len(got) = 0 /\ Len(rx) = 0 /\ ~cb.finSent
        /\ Arrived = 0 /\ Len(peerGot) = 0 /\ ~peer.finRcvd
    <2>1. /\ reg.txWr = 0 /\ reg.txRd = 0 /\ Len(got) = 0 /\ Len(rx) = 0 /\ ~cb.finSent
      BY <1>2 DEF Flow, Quiet
    <2>2. Len(peerGot) <= reg.txWr /\ Len(peerGot) \in Nat
      BY DEF Flow, OutFlow, Numbers
    <2>3. peer.finRcvd => cb.finSent
      BY DEF Flow, OutFlow
    <2> QED BY <2>1, <2>2, <2>3 DEF Arrived
  <1>4. Fits(b)' /\ Quiet' /\ Opening(b)'
    BY <1>1, <1>2 DEF Flow, Fits, Quiet, Opening
  <1>5. PeerSide'
    BY <1>1, <1>2 DEF Flow, PeerSide
  <1>6. OutFlow(b)'
    <2>1. /\ trial.guestBytes \in Nat /\ peer.rcvNxt \in Nat
          /\ Run(peerGot, 0)
          /\ peer.rcvNxt = b + Len(peerGot) + One(peer.finRcvd)
      BY DEF Flow, OutFlow, Numbers
    <2>2. Run(peerGot, 0)'
      BY <1>1, <2>1 DEF Run
    <2>3. peer.rcvNxt = b /\ Len(cb'.retxBuf) = 0
      BY <1>3, <2>1, EmptySeq DEF One
    <2> QED BY <1>1, <1>2, <1>3, <2>1, <2>2, <2>3 DEF OutFlow, One
  <1>7. Kept(b)'
    BY DEF Kept
  <1>8. InFlow'
    <2>1. Run(got, 0)' /\ Run(rx, Len(got))'
      BY <1>1 DEF Flow, InFlow, Run
    <2>2. /\ cb'.rcvNxt = PeerIsn + 1 + Arrived'
          /\ Arrived' + 1 <= peer'.nxt
      BY <1>1, <1>3 DEF Numbers
    <2> QED BY <1>1, <1>2, <2>1, <2>2 DEF Flow, InFlow
  <1>9. FinBudget'
    <2>1. Counted' = 0 /\ Counted >= 0 /\ Counted \in Int
      <3>1. cb'.rcvNxt - (PeerIsn + 1 + Arrived') = 0
        BY <1>1, <1>3 DEF Numbers
      <3>2. Opened => cb.rcvNxt = PeerIsn + 1 + Arrived
        BY <1>2 DEF Flow, InFlow
      <3>3. cb.rcvNxt \in Nat /\ PeerIsn \in Nat
        BY DEF Numbers
      <3> QED BY <1>2, <1>3, <3>1, <3>2, <3>3 DEF Counted
    <2>2. peer'.fins <= MaxFins /\ toGuest \in Seq(Segment) /\ peer'.fins = peer.fins
      BY <1>1 DEF Flow, FinBudget, LinkTypes
    <2>3. /\ peer.fins \in Nat /\ toGuest' \in Seq(Segment)
          /\ Cardinality(FinsOn(toGuest)) \in Nat /\ Cardinality(FinsOn(toGuest')) \in Nat
      BY <2>2, FinsFinite DEF Numbers, Drained
    <2>4. Cardinality(FinsOn(toGuest')) <= Cardinality(FinsOn(toGuest))
      BY DEF Drained
    <2> QED BY <2>1, <2>2, <2>3, <2>4, FinBudgetKept DEF Flow
  <1>10. OutWire(b)'
    <2>1. OutGrows
      <3>1. Len(peerGot) \in Nat /\ reg.txWr \in Nat
        BY DEF Numbers
      <3> QED BY <1>1, <1>2, <3>1 DEF OutGrows
    <2> QED BY <2>1, OutWireKept DEF Flow
  <1>11. InWire(b)'
    <2>1. InGrows
      <3>1. peer.rcvNxt \in Nat /\ peer.nxt \in Nat
        BY DEF Numbers
      <3> QED BY <1>1, <1>2, <3>1 DEF InGrows
    <2>2. \A g \in Segment : Carries(toGuest', g) => Carries(toGuest, g) \/ InSeg(b, g)'
      BY DEF Drained
    <2> QED BY <2>1, <2>2, InWireKept DEF Flow
  <1> QED BY <1>4, <1>5, <1>6, <1>7, <1>8, <1>9, <1>10, <1>11 DEF Flow
(* The control block's fields, as far as the invariant reads them.         *)
LEMMA CbTypes ==
  LinkTypes => /\ cb \in TcpCb /\ reg \in SockRegs /\ toPeer \in Seq(Segment)
               /\ StatusMirrorsStack /\ RxRingSound /\ SendOkMeansAcked
               /\ cb.sndUna \in SeqNum /\ cb.sndNxt \in SeqNum /\ cb.rcvNxt \in SeqNum
               /\ cb.retxSeq \in SeqNum /\ cb.retxBuf \in Seq(Nat)
  BY DEF LinkTypes, SendInv, StatusInv, TypeRx, TypeOK, TcpCb

LEMMA SendsOne ==
  ASSUME LinkTypes, NEW g \in Segment, Transmit(<<g>>)
  PROVE  \A h : Carries(toPeer', h) => Carries(toPeer, h) \/ h = g
  <1>1. <<g>> \in Seq(Segment)
    OBVIOUS
  <1> QED BY <1>1, CbTypes, ToPeerAdds, CarriesOne

LEMMA Undisturbed == LinkTypes /\ toGuest' = toGuest => Drained
  <1> SUFFICES ASSUME LinkTypes, toGuest' = toGuest PROVE Drained
    OBVIOUS
  <1>1. toGuest \in Seq(Segment) /\ Cardinality(FinsOn(toGuest)) \in Nat
    BY FinsFinite DEF LinkTypes
  <1> QED BY <1>1 DEF Drained

(* An initial sequence number leaves room for the stream. *)
LEMMA IsnFits ==
  ASSUME LinkTypes, Numbers, NoWrap, NEW isn \in Isns
  PROVE  /\ isn \in Nat /\ isn \in SeqNum
         /\ Plus(isn, 1) = isn + 1 /\ Plus(isn + 1, 1) = isn + 2
         /\ Fits(isn + 1) /\ Fits(isn + 2)
  <1>1. isn \in SeqNum /\ isn \in Nat
    BY SetAssumption, NumAssumption DEF SeqNum
  <1>2. isn + trial.guestBytes + 3 < SeqMod /\ trial.guestBytes \in Nat /\ SeqMod \in Nat
    BY DEF NoWrap, LinkTypes, Numbers
  <1>3. isn + 1 < SeqMod /\ (isn + 1) + 1 < SeqMod
    BY <1>1, <1>2
  <1>4. Plus(isn, 1) = isn + 1 /\ Plus(isn + 1, 1) = (isn + 1) + 1
    BY <1>1, <1>3, NoWrapPlus
  <1> QED BY <1>1, <1>2, <1>4 DEF Fits

(* The peer's initial sequence number, too. *)
LEMMA PeerIsnFits ==
  ASSUME LinkTypes, Numbers, NoWrap
  PROVE  Plus(PeerIsn, 1) = PeerIsn + 1 /\ PeerIsn + 1 \in SeqNum
  <1>1. /\ PeerIsn + trial.peerBytes + MaxFins + 2 < SeqMod
        /\ trial.peerBytes \in Nat /\ MaxFins \in Nat /\ PeerIsn \in Nat /\ SeqMod \in Nat
    BY DEF NoWrap, LinkTypes, Numbers
  <1>2. PeerIsn + 1 < SeqMod
    BY <1>1
  <1> QED BY <1>1, <1>2, NoWrapPlus DEF SeqNum

(* The driver listens. *)
LEMMA ListenFlow ==
  ASSUME LinkTypes, Numbers, Numbers', NEW b \in Nat, Flow(b), cb.active,
         reg.sr = "INIT", CmdListen, PeerStands, toGuest' = toGuest, got' = got
  PROVE  Flow(b)'
  <1>1. /\ cb.state = "INIT" /\ cb' = [cb EXCEPT !.state = "LISTEN"] /\ cb \in TcpCb
        /\ reg' = [reg EXCEPT !.sr = "LISTEN"] /\ reg \in SockRegs
        /\ rx' = rx /\ toPeer' = toPeer
    BY CbTypes DEF CmdListen, StatusMirrorsStack
  <1>2. /\ cb'.state = "LISTEN" /\ cb'.finSent = cb.finSent /\ cb'.retxBuf = cb.retxBuf
        /\ reg'.txRd = reg.txRd /\ reg'.txWr = reg.txWr
    BY <1>1 DEF TcpCb, SockRegs
  <1>3. cb.retxBuf = <<>> /\ ~cb.finSent
    BY <1>1, CbTypes DEF Streaming, Flow, Quiet
  <1>4. Silent /\ ~Heard /\ ~Opened
    BY <1>1 DEF Silent, Flow, Opening, Opened, Streaming
  <1>5. Opening(b)'
    BY <1>2, <1>4 DEF Opening, PeerStands, Heard, Streaming
  <1>6. Fits(b) /\ Drained
    BY Undisturbed DEF Flow
  <1> QED BY <1>1, <1>2, <1>3, <1>4, <1>5, <1>6, NewBaseFlow

(* The driver connects. *)
LEMMA ConnectFlow ==
  ASSUME LinkTypes, Numbers, Numbers', NEW b \in Nat, Flow(b), cb.active, NoWrap,
         TxMayFail = FALSE, reg.sr = "INIT", CmdConnect, PeerStands, toGuest' = toGuest, got' = got
  PROVE  \E c \in Nat : Flow(c)'
  <1>1. /\ cb.state = "INIT" /\ cb \in TcpCb
        /\ reg' = [reg EXCEPT !.sr = "SYNSENT"] /\ reg \in SockRegs
        /\ rx' = rx
    BY CbTypes DEF CmdConnect, StatusMirrorsStack
  <1>2. PICK isn \in Isns :
          /\ cb' = [cb EXCEPT !.state = "SYNSENT", !.peerMacKnown = arp,
                              !.sndUna = isn,
                              !.sndNxt = IF arp THEN Plus(isn, 1) ELSE isn,
                              !.rcvNxt = 0, !.retxBuf = <<>>,
                              !.retxTimer = RetxFrames, !.retxCount = 0]
          /\ IF arp THEN Transmit(<<Packet(isn, 0, {"SYN"}, <<>>)>>)
                    ELSE UNCHANGED toPeer
    BY DEF CmdConnect, TxResults
  <1>3. /\ isn \in Nat /\ isn \in SeqNum /\ Plus(isn, 1) = isn + 1 /\ Fits(isn + 1)
    BY IsnFits
  <1>4. /\ cb'.state = "SYNSENT" /\ cb'.finSent = cb.finSent /\ cb'.retxBuf = <<>>
        /\ cb'.sndUna = isn /\ cb'.sndNxt = IF arp THEN isn + 1 ELSE isn
        /\ reg'.txRd = reg.txRd /\ reg'.txWr = reg.txWr
    BY <1>1, <1>2, <1>3 DEF TcpCb, SockRegs
  <1>5. ~cb.finSent
    BY <1>1 DEF Streaming, Flow, Quiet
  <1>6. Silent /\ ~Heard /\ ~Opened
    BY <1>1 DEF Silent, Flow, Opening, Opened, Streaming
  <1>7. Opening(isn + 1)'
    BY <1>3, <1>4, <1>6 DEF Opening, PeerStands, Heard, Streaming
  <1>8. Drained
    BY Undisturbed
  <1>9. \A g \in Segment : Carries(toPeer', g) => Carries(toPeer, g) \/ OutSeg(isn + 1, g)'
    <2>1. CASE ~arp
      <3>1. toPeer' = toPeer
        BY <1>2, <2>1
      <3> QED BY <3>1
    <2>2. CASE arp
      <3> DEFINE g == Packet(isn, 0, {"SYN"}, <<>>)
      <3>1. /\ g \in Segment /\ g.seq = isn /\ g.flags = {"SYN"} /\ g.data = <<>>
        <4>1. 0 \in SeqNum /\ {"SYN"} \in SUBSET Flags
          BY NumAssumption DEF SeqNum, Flags
        <4> QED BY <1>3, <4>1, EmptyPacket
      <3>2. Transmit(<<g>>)
        BY <1>2, <2>2
      <3> HIDE DEF g
      <3>3. ~Silent'
        BY <1>3, <1>4, <2>2 DEF Silent
      <3>4. OutSeg(isn + 1, g)'
        BY <3>1, <3>3 DEF OutSeg
      <3> QED BY <3>1, <3>2, <3>4, SendsOne
    <2> QED BY <2>1, <2>2
  <1>10. isn + 1 \in Nat /\ cb'.state # "SYNRECV"
    BY <1>3, <1>4
  <1>11. Flow(isn + 1)'
    BY <1>1, <1>3, <1>4, <1>5, <1>6, <1>7, <1>8, <1>9, <1>10, NewBaseFlow
  <1> QED BY <1>10, <1>11

(* The SYN goes out again. *)
LEMMA TickSynFlow ==
  ASSUME LinkTypes, Numbers, Numbers', NEW b \in Nat, Flow(b), NoWrap,
         TickSyn, rx' = rx, PeerStands, toGuest' = toGuest, got' = got
  PROVE  Flow(b)'
  <1>1. /\ cb.active /\ cb.state = "SYNSENT" /\ cb.sndNxt = cb.sndUna /\ cb \in TcpCb
        /\ cb' = [cb EXCEPT !.retxTimer = RetxFrames, !.retxCount = @ + 1,
                            !.peerMacKnown = Resolved, !.sndNxt = Plus(cb.sndUna, 1)]
        /\ \/ Transmit(<<Packet(cb.sndNxt, cb.rcvNxt, {"SYN"}, <<>>)>>)
           \/ toPeer' = toPeer
        /\ reg' = reg
    BY CbTypes DEF TickSyn, SynPending
  <1>2. cb.sndUna \in Isns /\ b = cb.sndUna + 1
    BY <1>1 DEF Flow, Opening
  <1>3. Plus(cb.sndUna, 1) = b /\ cb.sndUna \in Nat
    BY <1>2, IsnFits
  <1>4. /\ cb'.state = "SYNSENT" /\ cb'.finSent = cb.finSent /\ cb'.retxBuf = cb.retxBuf
        /\ cb'.sndUna = cb.sndUna /\ cb'.sndNxt = b
    BY <1>1, <1>3 DEF TcpCb
  <1>5. cb.retxBuf = <<>> /\ ~cb.finSent
    BY <1>1, CbTypes DEF Streaming, Flow, Quiet
  <1>6. Silent /\ ~Heard /\ ~Opened
    BY <1>1 DEF Silent, Flow, Opening, Opened, Streaming
  <1>7. Opening(b)'
    BY <1>2, <1>4, <1>6 DEF Opening, PeerStands, Heard, Streaming
  <1>8. Fits(b) /\ Drained
    BY Undisturbed DEF Flow
  <1>9. \A g \in Segment : Carries(toPeer', g) => Carries(toPeer, g) \/ OutSeg(b, g)'
    <2>1. CASE toPeer' = toPeer
      BY <2>1
    <2>2. CASE Transmit(<<Packet(cb.sndNxt, cb.rcvNxt, {"SYN"}, <<>>)>>)
      <3>0. /\ Packet(cb.sndNxt, cb.rcvNxt, {"SYN"}, <<>>) \in Segment
            /\ Packet(cb.sndNxt, cb.rcvNxt, {"SYN"}, <<>>).seq = cb.sndNxt
            /\ Packet(cb.sndNxt, cb.rcvNxt, {"SYN"}, <<>>).flags = {"SYN"}
            /\ Packet(cb.sndNxt, cb.rcvNxt, {"SYN"}, <<>>).data = <<>>
        <4>1. {"SYN"} \in SUBSET Flags
          BY DEF Flags
        <4> QED BY <4>1, CbTypes, EmptyPacket
      <3>1. PICK g \in Segment :
              /\ g = Packet(cb.sndNxt, cb.rcvNxt, {"SYN"}, <<>>)
              /\ g.seq = cb.sndNxt /\ g.flags = {"SYN"} /\ g.data = <<>>
        BY <3>0
      <3>2. Transmit(<<g>>)
        BY <2>2, <3>1
      <3>3. ~Silent' /\ cb.sndNxt + 1 = b
        BY <1>1, <1>2, <1>3, <1>4 DEF Silent
      <3>4. OutSeg(b, g)'
        BY <3>1, <3>3 DEF OutSeg
      <3> QED BY <3>1, <3>2, <3>4, SendsOne
    <2> QED BY <1>1, <2>1, <2>2
  <1>10. cb'.state # "SYNRECV"
    BY <1>4
  <1> QED BY <1>1, <1>4, <1>5, <1>6, <1>7, <1>8, <1>9, <1>10, NewBaseFlow

(* A SYN reaches the listening socket. *)
LEMMA RecvListenFlow ==
  ASSUME LinkTypes, Numbers, Numbers', NEW b \in Nat, Flow(b), NoWrap,
         TxMayFail = FALSE, NEW seg \in Segment, InSeg(b, seg), "SYN" \in seg.flags,
         RecvListen(seg), rx' = rx, PeerStands, Drained, got' = got
  PROVE  \E c \in Nat : Flow(c)'
  <1>1. /\ cb.state = "LISTEN" /\ cb \in TcpCb /\ reg \in SockRegs
        /\ "RST" \notin seg.flags /\ reg' = stack_tcp_state(reg, "SYNRECV")
    BY CbTypes DEF RecvListen
  <1>2. PICK isn \in Isns :
          /\ cb' = [cb EXCEPT !.state = "SYNRECV", !.peerMacKnown = TRUE,
                              !.rcvNxt = Plus(seg.seq, 1), !.sndUna = isn,
                              !.sndNxt = Plus(isn, 1)]
          /\ Transmit(<<Packet(isn, Plus(seg.seq, 1), {"SYN", "ACK"}, <<>>)>>)
    BY DEF RecvListen, TxResults
  <1>3. /\ isn \in Nat /\ isn \in SeqNum /\ Plus(isn, 1) = isn + 1 /\ Fits(isn + 1)
        /\ Plus(PeerIsn, 1) = PeerIsn + 1 /\ PeerIsn + 1 \in SeqNum
    BY IsnFits, PeerIsnFits
  <1>4. Silent /\ ~Heard /\ ~Opened /\ ~cb.finSent
    BY <1>1 DEF Silent, Flow, Opening, Opened, Streaming, Quiet
  <1>5. seg.seq = PeerIsn /\ trial.opener = "peer" /\ peer.nxt >= 1
    <2>1. seg.flags \notin {{"ACK"}, {"FIN", "ACK"}}
      OBVIOUS
    <2> QED BY <1>1, <1>4, <2>1 DEF InSeg
  <1>6. /\ cb'.state = "SYNRECV" /\ cb'.finSent = cb.finSent /\ cb'.retxBuf = cb.retxBuf
        /\ cb'.sndNxt = isn + 1 /\ cb'.rcvNxt = PeerIsn + 1 /\ cb'.peerMacKnown = TRUE
    BY <1>1, <1>2, <1>3, <1>5 DEF TcpCb
  <1>7. reg'.txRd = reg.txRd /\ reg'.txWr = reg.txWr
    BY <1>1 DEF stack_tcp_state, SockRegs
  <1>8. cb.retxBuf = <<>>
    <2>1. cb.active
      BY DEF RecvListen, Found
    <2> QED BY <1>1, <2>1, CbTypes DEF Streaming, Flow, Quiet
  <1>9. ~Silent'
    BY <1>6 DEF Silent
  <1>10. Opening(isn + 1)'
    BY <1>5, <1>6, <1>9 DEF Opening, PeerStands, Streaming
  <1>11. \A g \in Segment : Carries(toPeer', g) => Carries(toPeer, g) \/ OutSeg(isn + 1, g)'
    <2>0. PICK r \in SeqNum : r = PeerIsn + 1
      BY <1>3
    <2> DEFINE g == Packet(isn, r, {"SYN", "ACK"}, <<>>)
    <2>1. /\ g \in Segment /\ g.seq = isn /\ g.ack = r
          /\ g.flags = {"SYN", "ACK"} /\ g.data = <<>>
      <3>1. {"SYN", "ACK"} \in SUBSET Flags
        BY DEF Flags
      <3> QED BY <1>3, <3>1, EmptyPacket
    <2>2. Transmit(<<g>>)
      BY <1>2, <1>3, <1>5, <2>0
    <2> HIDE DEF g
    <2>3. Opened' /\ trial'.opener = "peer"
      BY <1>5, <1>6 DEF Opened, PeerStands
    <2>4. OutSeg(isn + 1, g)'
      BY <1>9, <2>0, <2>1, <2>3 DEF OutSeg
    <2> QED BY <2>1, <2>2, <2>4, SendsOne
  <1>12. isn + 1 \in Nat
    BY <1>3
  <1>13. Flow(isn + 1)'
    BY <1>3, <1>4, <1>5, <1>6, <1>7, <1>8, <1>10, <1>11, <1>12, NewBaseFlow
  <1> QED BY <1>12, <1>13
(* The answer to the guest's SYN, or a SYN that crossed it. *)
LEMMA RecvSynSentFlow ==
  ASSUME LinkTypes, Numbers, Numbers', NEW b \in Nat, Flow(b), NoWrap,
         TxMayFail = FALSE, NEW seg \in Segment, InSeg(b, seg), "SYN" \in seg.flags,
         RecvSynSent(seg), rx' = rx, PeerStands, Drained, got' = got
  PROVE  \E c \in Nat : Flow(c)'
  <1>1. /\ cb.active /\ cb.state = "SYNSENT" /\ cb \in TcpCb /\ reg \in SockRegs
        /\ "RST" \notin seg.flags
    BY CbTypes DEF RecvSynSent, Found
  <1>2. /\ Plus(PeerIsn, 1) = PeerIsn + 1 /\ PeerIsn + 1 \in SeqNum
        /\ seg.seq = PeerIsn /\ peer.nxt >= 1
        /\ \/ seg.flags = {"SYN"} /\ trial.opener = "peer"
           \/ seg.flags = {"SYN", "ACK"} /\ seg.ack = b /\ Heard /\ trial.opener = "guest"
    <2>1. seg.flags \notin {{"ACK"}, {"FIN", "ACK"}}
      OBVIOUS
    <2> QED BY <1>1, <2>1, PeerIsnFits DEF InSeg
  <1>3. /\ cb.sndUna \in Isns /\ b = cb.sndUna + 1 /\ cb.sndNxt \in {cb.sndUna, b}
        /\ trial.opener = "peer" => ~Heard
        /\ cb.retxBuf = <<>> /\ ~cb.finSent
    BY <1>1, CbTypes DEF Flow, Opening, Quiet, SendOkMeansAcked, Streaming
  <1>4. /\ cb.sndUna \in Nat /\ Plus(cb.sndUna, 1) = b /\ Plus(b, 1) = b + 1
        /\ Fits(b) /\ Fits(b + 1)
    <2>1. /\ cb.sndUna \in Nat /\ Plus(cb.sndUna, 1) = cb.sndUna + 1
          /\ Plus(cb.sndUna + 1, 1) = cb.sndUna + 2
          /\ Fits(cb.sndUna + 1) /\ Fits(cb.sndUna + 2)
      BY <1>3, IsnFits
    <2>2. b + 1 = cb.sndUna + 2
      BY <1>3, <2>1
    <2> QED BY <1>3, <2>1, <2>2
  <1>5. PICK r \in SeqNum : r = PeerIsn + 1
    BY <1>2
  <1>6. ~Opened
    BY <1>1 DEF Opened, Streaming
  <1>7. CASE /\ {"SYN", "ACK"} \subseteq seg.flags /\ seg.ack = cb.sndNxt
             /\ cb' = [cb EXCEPT !.state = "ESTABLISHED", !.peerMacKnown = TRUE,
                                 !.rcvNxt = Plus(seg.seq, 1), !.sndUna = seg.ack]
             /\ reg' = stack_tcp_state(reg, "ESTABLISHED")
             /\ Transmit(<<Packet(cb.sndNxt, Plus(seg.seq, 1), {"ACK"}, <<>>)>>)
    <2>1. "ACK" \in seg.flags
      BY <1>7
    <2>2. seg.ack = b /\ Heard /\ cb.sndNxt = b
      BY <1>2, <1>7, <2>1
    <2>3. /\ cb'.state = "ESTABLISHED" /\ cb'.sndUna = b /\ cb'.sndNxt = b
          /\ cb'.rcvNxt = PeerIsn + 1 /\ cb'.peerMacKnown = TRUE
          /\ cb'.finSent = cb.finSent /\ cb'.retxBuf = cb.retxBuf
      BY <1>1, <1>2, <1>7, <2>2 DEF TcpCb
    <2>4. reg'.txRd = reg.txRd /\ reg'.txWr = reg.txWr
      BY <1>1, <1>7 DEF stack_tcp_state, SockRegs
    <2>5. PICK q \in SeqNum : q = cb.sndNxt
      BY CbTypes
    <2> DEFINE g == Packet(q, r, {"ACK"}, <<>>)
    <2>6. g \in Segment /\ g.ack = r /\ g.flags = {"ACK"} /\ g.data = <<>>
      <3>1. {"ACK"} \in SUBSET Flags
        BY DEF Flags
      <3> QED BY <3>1, EmptyPacket
    <2>7. Transmit(<<g>>)
      BY <1>2, <1>5, <1>7, <2>5
    <2> HIDE DEF g
    <2>8. OutSeg(b, g)'
      <3>1. cb'.state \in Streaming /\ g.ack <= cb'.rcvNxt /\ PeerIsn + 1 <= g.ack
        BY <1>5, <2>3, <2>6 DEF Streaming, Numbers
      <3>2. "FIN" \notin g.flags
        BY <2>6
      <3> QED BY <2>6, <3>1, <3>2 DEF OutSeg
    <2>9. \A h \in Segment : Carries(toPeer', h) => Carries(toPeer, h) \/ OutSeg(b, h)'
      BY <2>6, <2>7, <2>8, SendsOne
    <2> QED BY <1>1, <1>2, <1>3, <2>2, <2>3, <2>4, <2>9, EstablishedFlow
  <1>8. CASE /\ ~({"SYN", "ACK"} \subseteq seg.flags /\ seg.ack = cb.sndNxt)
             /\ reg' = stack_tcp_state(reg, "SYNRECV")
             /\ cb' = [cb EXCEPT !.state = "SYNRECV", !.rcvNxt = Plus(seg.seq, 1),
                                 !.peerMacKnown = Resolved,
                                 !.sndNxt = IF Resolved THEN Plus(@, 1) ELSE @]
             /\ IF Resolved
                THEN Transmit(<<Packet(cb.sndNxt, Plus(seg.seq, 1), {"SYN", "ACK"}, <<>>)>>)
                ELSE UNCHANGED toPeer
    <2>1. trial.opener = "peer" /\ ~Heard
      <3>1. CASE seg.flags = {"SYN", "ACK"}
        <4>1. {"SYN", "ACK"} \subseteq seg.flags
          BY <3>1
        <4>2. seg.ack # cb.sndNxt
          BY <1>8, <4>1
        <4>3. seg.ack = b /\ Heard
          BY <1>2, <3>1
        <4>4. Silent
          BY <1>1, <1>3, <4>2, <4>3 DEF Silent
        <4> QED BY <4>3, <4>4 DEF Flow, Opening
      <3> QED BY <1>2, <1>3, <3>1
    <2> DEFINE next == IF Resolved THEN Plus(cb.sndNxt, 1) ELSE cb.sndNxt
               mac == Resolved
    <2>2. /\ cb' = [cb EXCEPT !.state = "SYNRECV", !.rcvNxt = r,
                              !.peerMacKnown = mac, !.sndNxt = next]
      BY <1>2, <1>5, <1>8
    <2> HIDE DEF next, mac
    <2>3. /\ cb'.state = "SYNRECV" /\ cb'.rcvNxt = r /\ cb'.sndNxt = next
          /\ cb'.peerMacKnown = mac
          /\ cb'.finSent = cb.finSent /\ cb'.retxBuf = cb.retxBuf
      BY <1>1, <2>2 DEF TcpCb
    <2>4. reg'.txRd = reg.txRd /\ reg'.txWr = reg.txWr
      BY <1>1, <1>8 DEF stack_tcp_state, SockRegs
    <2>5. peer' = peer /\ trial' = trial
      BY DEF PeerStands
    <2>6. CASE ~Resolved
      <3>1. ~mac /\ toPeer' = toPeer
        BY <1>8, <2>6 DEF mac
      <3>2. Opening(b)'
        BY <2>1, <2>3, <2>5, <3>1 DEF Opening, Heard, Streaming
      <3>3. Flow(b)'
        BY <1>2, <1>3, <1>4, <1>5, <1>6, <2>1, <2>3, <2>4, <3>1, <3>2, NewBaseFlow
      <3> QED BY <3>3
    <2>7. CASE Resolved
      <3>1. PICK q \in SeqNum : q = cb.sndNxt
        BY CbTypes
      <3>2. q \in Nat /\ Plus(q, 1) = q + 1 /\ Fits(q + 1)
        BY <1>3, <1>4, <3>1
      <3>3. cb'.sndNxt = q + 1 /\ mac
        BY <2>3, <2>7, <3>1, <3>2 DEF next, mac
      <3>4. /\ ~Silent' /\ Opened'
        BY <2>3, <3>3 DEF Silent, Opened
      <3>5. Opening(q + 1)'
        BY <2>1, <2>3, <2>5, <3>3, <3>4 DEF Opening, Heard, Streaming
      <3> DEFINE g == Packet(q, r, {"SYN", "ACK"}, <<>>)
      <3>6. /\ g \in Segment /\ g.seq = q /\ g.ack = r /\ g.flags = {"SYN", "ACK"}
            /\ g.data = <<>>
        <4>1. {"SYN", "ACK"} \in SUBSET Flags
          BY DEF Flags
        <4> QED BY <4>1, EmptyPacket
      <3>7. Transmit(<<g>>)
        BY <1>2, <1>5, <1>8, <2>7, <3>1
      <3> HIDE DEF g
      <3>8. OutSeg(q + 1, g)'
        BY <1>5, <2>1, <2>5, <3>4, <3>6 DEF OutSeg
      <3>9. \A h \in Segment : Carries(toPeer', h) => Carries(toPeer, h) \/ OutSeg(q + 1, h)'
        BY <3>6, <3>7, <3>8, SendsOne
      <3>10. q + 1 \in Nat
        BY <3>2
      <3>11. Flow(q + 1)'
        BY <1>2, <1>3, <1>5, <1>6, <2>1, <2>3, <2>4, <3>2, <3>5, <3>9, <3>10, NewBaseFlow
      <3> QED BY <3>10, <3>11
    <2> QED BY <2>6, <2>7
  <1> QED BY <1>7, <1>8 DEF RecvSynSent, TxResults

(* The peer's acknowledgement of the guest's SYN+ACK. *)
LEMMA RecvSynRecvFlow ==
  ASSUME LinkTypes, Numbers, Numbers', NEW b \in Nat, Flow(b),
         NEW seg \in Segment, InSeg(b, seg),
         RecvSynRecv(seg), "ACK" \in seg.flags, seg.ack = cb.sndNxt,
         rx' = rx, PeerStands, Drained, got' = got
  PROVE  Flow(b)'
  <1>1. /\ cb.active /\ cb.state = "SYNRECV" /\ cb \in TcpCb /\ reg \in SockRegs
        /\ "RST" \notin seg.flags
        /\ cb' = [cb EXCEPT !.state = "ESTABLISHED", !.sndUna = seg.ack]
        /\ reg' = stack_tcp_state(reg, "ESTABLISHED")
        /\ toPeer' = toPeer
    BY CbTypes DEF RecvSynRecv, Found
  <1>2. trial.opener = "peer"
    BY <1>1 DEF Flow, Opening
  <1>3. Heard
    BY <1>1, <1>2 DEF InSeg
  <1>4. cb.peerMacKnown /\ cb.sndNxt = b
    BY <1>1, <1>3 DEF Flow, Opening, Silent
  <1>5. cb.retxBuf = <<>> /\ ~cb.finSent /\ Arrived = 0
    BY <1>1, CbTypes DEF Flow, Quiet, Streaming, Arrived
  <1>6. cb.rcvNxt = PeerIsn + 1 /\ peer.nxt >= 1
    <2>1. cb.rcvNxt = PeerIsn + 1 + Arrived /\ Arrived + 1 <= peer.nxt
      BY <1>1 DEF Flow, InFlow, Opened, SawFin
    <2> QED BY <1>5, <2>1 DEF Numbers
  <1>7. /\ cb'.state = "ESTABLISHED" /\ cb'.sndUna = b /\ cb'.sndNxt = b
        /\ cb'.rcvNxt = PeerIsn + 1 /\ cb'.peerMacKnown
        /\ cb'.finSent = cb.finSent /\ cb'.retxBuf = cb.retxBuf
    BY <1>1, <1>4, <1>6 DEF TcpCb
  <1>8. reg'.txRd = reg.txRd /\ reg'.txWr = reg.txWr
    BY <1>1 DEF stack_tcp_state, SockRegs
  <1> QED BY <1>1, <1>3, <1>5, <1>6, <1>7, <1>8, EstablishedFlow

(* A segment for no connection, and one its handler ignores. *)
LEMMA RecvOtherFlow ==
  ASSUME LinkTypes, Numbers, Numbers', NEW b \in Nat, Flow(b), NEW seg \in Segment,
         cb' = cb, reg' = reg, rx' = rx, PeerStands, Drained, got' = got,
         toPeer' = toPeer \/ RecvStray(seg)
  PROVE  Flow(b)'
  <1>1. \A g \in Segment : Carries(toPeer', g) => Carries(toPeer, g) \/ OutSeg(b, g)'
    <2>1. CASE toPeer' = toPeer
      BY <2>1
    <2>2. CASE toPeer' # toPeer
      <3> DEFINE g == Packet(seg.ack, Plus(seg.seq, 1), {"RST", "ACK"}, <<>>)
      <3>1. Transmit(<<g>>)
        BY <2>2 DEF RecvStray
      <3>2. g \in Segment /\ g.flags = {"RST", "ACK"}
        <4>1. seg.ack \in SeqNum /\ {"RST", "ACK"} \in SUBSET Flags
          BY DEF Segment, Flags
        <4>2. Plus(seg.seq, 1) \in SeqNum
          BY SegmentNumbers, PlusType
        <4> QED BY <4>1, <4>2, EmptyPacket
      <3> HIDE DEF g
      <3>3. "RST" \in g.flags
        BY <3>2
      <3>4. OutSeg(b, g)'
        BY <3>3 DEF OutSeg
      <3> QED BY <3>1, <3>2, <3>4, SendsOne
    <2> QED BY <2>1, <2>2
  <1> QED BY <1>1, GuestSameFlow
(* The retransmit buffer stays what it is, and the streams only grow.      *)
LEMMA KeptKept ==
  ASSUME Numbers, Numbers', NEW b \in Nat, Kept(b),
         cb'.retxBuf = cb.retxBuf, cb'.retxSeq = cb.retxSeq,
         cb.sndNxt <= cb'.sndNxt, peerGot' = peerGot, reg.txWr <= reg'.txWr
  PROVE  Kept(b)'
  <1>1. PICK seq \in Nat, data \in Seq(Nat) : seq = cb.retxSeq /\ data = cb.retxBuf
    BY DEF Numbers
  <1>2. Len(peerGot) <= Len(peerGot')
    BY DEF Numbers
  <1>3. data # <<>> => OutBytes(b, seq, data)'
    BY <1>1, <1>2, OutBytesKept DEF Kept
  <1> QED BY <1>1, <1>3 DEF Kept, OutBytes, Run

(* A FIN, and nothing after it, may follow the bytes that were sent. *)
LEMMA RoomForFin ==
  ASSUME Numbers, NEW b \in Nat, Flow(b), cb.state \in Streaming, ~cb.finSent
  PROVE  /\ Plus(cb.sndNxt, 1) = cb.sndNxt + 1 /\ ~peer.finRcvd
         /\ cb.sndNxt <= b + reg.txWr /\ b + reg.txWr < SeqMod
  <1>1. /\ cb.sndNxt <= b + reg.txWr + One(cb.finSent) /\ reg.txWr <= trial.guestBytes
        /\ b + trial.guestBytes + 1 < SeqMod /\ ~peer.finRcvd
    BY DEF Flow, OutFlow, Fits
  <1>2. /\ cb.sndNxt \in Nat /\ reg.txWr \in Nat /\ trial.guestBytes \in Nat
        /\ SeqMod \in Nat
    BY DEF Numbers
  <1>3. cb.sndNxt <= b + reg.txWr /\ b + reg.txWr < SeqMod /\ cb.sndNxt + 1 < SeqMod
    BY <1>1, <1>2 DEF One
  <1> QED BY <1>1, <1>2, <1>3, NoWrapPlus

(* The driver disconnects. *)
LEMMA DisconFlow ==
  ASSUME LinkTypes, Numbers, Numbers', NEW b \in Nat, Flow(b), TxMayFail = FALSE,
         CmdDiscon, PeerStands, toGuest' = toGuest, got' = got
  PROVE  Flow(b)'
  <1>1. /\ cb.state \in {"ESTABLISHED", "CLOSE_WAIT"} /\ cb.state \in Streaming
        /\ cb \in TcpCb /\ reg \in SockRegs
        /\ rx' = rx
    BY CbTypes DEF CmdDiscon, Streaming
  <1> DEFINE next == IF cb.state = "ESTABLISHED" THEN "FIN_WAIT" ELSE "LAST_ACK"
  <1>2. /\ Resolved /\ cb.peerMacKnown /\ Heard /\ ~cb.finSent
    BY <1>1 DEF Resolved, Flow, Opening, OutFlow
  <1>3. /\ cb' = [cb EXCEPT !.state = next, !.finSent = TRUE,
                            !.peerMacKnown = Resolved, !.sndNxt = Plus(@, 1)]
        /\ Transmit(<<Packet(cb.sndNxt, cb.rcvNxt, {"FIN", "ACK"}, <<>>)>>)
        /\ reg' = stack_tcp_state(reg, next)
    BY <1>2 DEF CmdDiscon, TxResults
  <1>4. /\ Plus(cb.sndNxt, 1) = cb.sndNxt + 1 /\ ~peer.finRcvd
        /\ cb.sndNxt <= b + reg.txWr
    BY <1>1, <1>2, RoomForFin
  <1>5. next \in {"FIN_WAIT", "LAST_ACK"} /\ (SawFin <=> next = "LAST_ACK")
    BY <1>1 DEF SawFin
  <1> HIDE DEF next
  <1>6. /\ cb'.state = next /\ cb'.finSent = TRUE /\ cb'.peerMacKnown = TRUE
        /\ cb'.sndNxt = cb.sndNxt + 1 /\ cb'.sndUna = cb.sndUna /\ cb'.rcvNxt = cb.rcvNxt
        /\ cb'.retxBuf = cb.retxBuf /\ cb'.retxSeq = cb.retxSeq
    BY <1>1, <1>2, <1>3, <1>4 DEF TcpCb
  <1>7. reg'.txRd = reg.txRd /\ reg'.txWr = reg.txWr
    <2>1. next \in SockStatus
      BY <1>5 DEF SockStatus
    <2> QED BY <1>1, <1>3, <2>1, StateCallbackType
  <1>8. /\ (Opened' <=> Opened) /\ (SawFin' <=> SawFin) /\ Arrived' = Arrived
        /\ cb'.state \in Streaming /\ ~Silent'
        /\ peer' = peer /\ peerGot' = peerGot /\ trial' = trial
    BY <1>1, <1>5, <1>6 DEF Opened, SawFin, Streaming, Arrived, PeerStands, Silent
  <1>9. PeerSide' /\ InFlow' /\ FinBudget' /\ InWire(b)'
    <2>1. Run(got', 0) /\ Run(rx', Len(got'))
      BY <1>1 DEF Flow, InFlow
    <2> QED BY <1>6, <1>8, <2>1, Undisturbed, GuestKeepsIn
  <1>10. Fits(b)' /\ Quiet' /\ Opening(b)'
    BY <1>2, <1>6, <1>8 DEF Flow, Fits, Quiet, Opening, Heard, Streaming
  <1>11. OutFlow(b)'
    <2>1. /\ Heard => peer.rcvNxt = b + Len(peerGot) + One(peer.finRcvd)
          /\ Run(peerGot, 0)
          /\ Len(peerGot) <= reg.txWr /\ reg.txWr <= trial.guestBytes
          /\ b <= cb.sndUna /\ cb.sndUna <= peer.rcvNxt
          /\ b + Len(peerGot) <= cb.sndNxt
      BY <1>1 DEF Flow, OutFlow
    <2>2. cb.sndNxt \in Nat /\ reg.txWr \in Nat /\ Len(peerGot) \in Nat
      BY DEF Numbers
    <2>3. /\ b + Len(peerGot) <= cb.sndNxt + 1
          /\ cb.sndNxt + 1 <= b + reg.txWr + One(TRUE)
      BY <1>4, <2>1, <2>2 DEF One
    <2>4. cb'.state # "ESTABLISHED" /\ cb'.state \in {"FIN_WAIT", "LAST_ACK"}
      BY <1>5, <1>6
    <2>5. Run(peerGot, 0)'
      BY <1>8, <2>1 DEF Run
    <2>6. cb'.sndNxt <= b + reg'.txWr + One(cb'.finSent)
      BY <1>6, <1>7, <2>3
    <2>7. b + Len(peerGot') <= cb'.sndNxt
      BY <1>6, <1>8, <2>3
    <2>8. Heard' => peer'.rcvNxt = b + Len(peerGot') + One(peer'.finRcvd)
      BY <1>8, <2>1 DEF Heard
    <2> QED BY <1>4, <1>6, <1>7, <1>8, <2>1, <2>4, <2>5, <2>6, <2>7, <2>8 DEF OutFlow
  <1>12. cb.sndNxt \in Nat /\ cb.sndNxt <= cb'.sndNxt /\ reg.txWr <= reg'.txWr
    <2>1. cb.sndNxt \in Nat /\ reg.txWr \in Nat
      BY DEF Numbers
    <2>2. cb'.sndNxt = cb.sndNxt + 1 /\ reg'.txWr = reg.txWr
      BY <1>6, <1>7
    <2> QED BY <2>1, <2>2
  <1>13. Kept(b)'
    BY <1>6, <1>8, <1>12, KeptKept DEF Flow
  <1>14. OutWire(b)'
    <2>1. OutGrows
      BY <1>2, <1>6, <1>8, <1>12 DEF OutGrows, Numbers
    <2>2. PICK q \in SeqNum, r \in SeqNum : q = cb.sndNxt /\ r = cb.rcvNxt
      BY CbTypes
    <2> DEFINE g == Packet(q, r, {"FIN", "ACK"}, <<>>)
    <2>3. /\ g \in Segment /\ g.seq = q /\ g.ack = r /\ g.flags = {"FIN", "ACK"}
          /\ g.data = <<>>
      <3>1. {"FIN", "ACK"} \in SUBSET Flags
        BY DEF Flags
      <3> QED BY <3>1, EmptyPacket
    <2>4. Transmit(<<g>>)
      BY <1>3, <2>2
    <2> HIDE DEF g
    <2>5. OutSeg(b, g)'
      <3>1. ~SawFin' => PeerIsn + 1 <= g.ack /\ g.ack <= cb'.rcvNxt
        <4>1. SUFFICES ASSUME ~SawFin PROVE PeerIsn + 1 <= cb.rcvNxt
          BY <1>6, <1>8, <2>2, <2>3 DEF Numbers
        <4>2. cb.rcvNxt = PeerIsn + 1 + Arrived
          BY <1>1, <4>1 DEF Flow, InFlow, Opened
        <4> QED BY <4>2 DEF Numbers
      <3>2. g.seq + 1 = cb'.sndNxt
        BY <1>6, <2>2, <2>3
      <3>3. g.flags \in {{"ACK"}, {"FIN", "ACK"}}
        BY <2>3
      <3> QED BY <1>6, <1>8, <2>3, <3>1, <3>2, <3>3 DEF OutSeg
    <2>6. \A h \in Segment : Carries(toPeer', h) => Carries(toPeer, h) \/ OutSeg(b, h)'
      BY <2>3, <2>4, <2>5, SendsOne
    <2> QED BY <2>1, <2>6, OutWireKept DEF Flow
  <1> QED BY <1>9, <1>10, <1>11, <1>13, <1>14 DEF Flow
(* The driver sends: the stack takes a segment's worth of the ring, which  *)
(* holds nothing that is still to be acknowledged.                         *)
LEMMA SendAcceptedFlow ==
  ASSUME LinkTypes, Numbers, Numbers', NEW b \in Nat, Flow(b),
         TxMayFail = FALSE, WaitSendOk,
         NEW n \in Nat, reg.txWr + n <= trial.guestBytes, CmdSend(n),
         cb.active, cb.state = "ESTABLISHED",
         PeerStands, toGuest' = toGuest, got' = got
  PROVE  Flow(b)'
  <1>1. /\ cb.state \in Streaming /\ cb \in TcpCb /\ reg \in SockRegs
        /\ rx' = rx /\ cb.retxBuf = <<>>
    <2>1. ~await /\ rx' = rx
      BY DEF CmdSend
    <2> QED BY <2>1, CbTypes DEF Streaming, SendOkMeansAcked
  <1>2. /\ Resolved /\ cb.peerMacKnown /\ Heard /\ ~cb.finSent
    BY <1>1 DEF Resolved, Flow, Opening, OutFlow
  <1>3. PICK wr \in Nat, len \in Int :
          wr = reg.txWr + n /\ len = wr - reg.txRd /\ len > 0
    <2>1. (reg.txWr + n) - reg.txRd > 0
      BY DEF CmdSend
    <2>2. reg.txWr \in Nat /\ reg.txRd \in Nat
      BY DEF Numbers
    <2>3. reg.txWr + n \in Nat /\ (reg.txWr + n) - reg.txRd \in Int
      BY <2>2
    <2> QED BY <2>1, <2>3
  <1>4. PICK buf \in Seq(Nat) :
          /\ buf = [i \in 1 .. AtMost(len, Mss) |-> reg.txRd + i]
          /\ Len(buf) \in 1 .. len
    <2>1. TypeOK
      BY DEF LinkTypes, SendInv, StatusInv, TypeRx
    <2> QED BY <1>3, <2>1, SendBuffer
  <1>5. Run(buf, reg.txRd)
    <2>1. PICK m \in Int : m = AtMost(len, Mss)
      BY <1>3, AtMostType DEF Numbers
    <2>2. buf = [i \in 1 .. m |-> reg.txRd + i]
      BY <1>4, <2>1
    <2>3. \A i \in 1 .. m : buf[i] = reg.txRd + i
      BY <2>2
    <2>4. DOMAIN buf = 1 .. m
      BY <2>2
    <2>5. DOMAIN buf = 1 .. Len(buf)
      OBVIOUS
    <2> QED BY <2>3, <2>4, <2>5 DEF Run
  <1>6. /\ cb' = [cb EXCEPT !.peerMacKnown = Resolved,
                            !.sndNxt = Plus(@, Len(buf)),
                            !.retxBuf = buf, !.retxSeq = cb.sndNxt,
                            !.retxTimer = RetxFrames, !.retxCount = 0]
        /\ Transmit(<<Packet(cb.sndNxt, cb.rcvNxt, {"ACK"}, buf)>>)
        /\ reg' = [reg EXCEPT !.txWr = wr, !.txFsr = BufSize - len]
    <2>1. /\ tcp_send(buf)
          /\ reg' = [reg EXCEPT !.txWr = wr, !.txFsr = BufSize - len]
      BY <1>3, <1>4 DEF CmdSend
    <2> QED BY <1>2, <2>1 DEF tcp_send, TxResults
  <1>7. PICK q \in SeqNum, r \in SeqNum :
          q = cb.sndNxt /\ r = cb.rcvNxt /\ q \in Nat /\ r \in Nat
    BY CbTypes DEF Numbers
  <1>8. q = b + reg.txRd /\ reg.txRd <= Len(peerGot)
    BY <1>1, <1>7, EmptySeq, SMTT(20) DEF Flow, OutFlow, Numbers
  <1>9. PICK k \in Nat : k = Len(buf) /\ k >= 1 /\ k <= len
    <2>1. Len(buf) \in 1 .. len
      BY <1>4
    <2> QED BY <1>3, <2>1
  <1>10. q + k <= b + wr /\ wr <= trial.guestBytes /\ Plus(q, k) = q + k
    <2>1. /\ reg.txRd \in Nat /\ trial.guestBytes \in Nat /\ SeqMod \in Nat
          /\ b + trial.guestBytes + 1 < SeqMod
      BY DEF Numbers, Flow, Fits
    <2>2. wr <= trial.guestBytes /\ len = wr - reg.txRd /\ q = b + reg.txRd
      BY <1>3, <1>8
    <2>3. q + k <= b + wr
      BY <1>9, <2>1, <2>2, SMTT(20)
    <2>4. q + k < SeqMod
      <3>1. PICK m \in Nat : m = trial.guestBytes /\ b + m + 1 < SeqMod /\ wr <= m
        BY <2>1, <2>2
      <3>2. q \in Nat /\ k \in Nat /\ wr \in Nat /\ SeqMod \in Nat
        BY <1>7, <2>1
      <3> QED BY <2>3, <3>1, <3>2
    <2> QED BY <1>7, <1>9, <2>2, <2>3, <2>4, NoWrapPlus
  <1>11. /\ cb'.state = cb.state /\ cb'.finSent = cb.finSent /\ cb'.peerMacKnown = TRUE
         /\ cb'.sndUna = cb.sndUna /\ cb'.rcvNxt = cb.rcvNxt
         /\ cb'.sndNxt = q + k /\ cb'.retxBuf = buf /\ cb'.retxSeq = q
    <2>1. cb' = [cb EXCEPT !.peerMacKnown = TRUE, !.sndNxt = q + k,
                           !.retxBuf = buf, !.retxSeq = q,
                           !.retxTimer = RetxFrames, !.retxCount = 0]
      BY <1>2, <1>6, <1>7, <1>9, <1>10
    <2> QED BY <1>1, <2>1 DEF TcpCb
  <1>12. reg'.txRd = reg.txRd /\ reg'.txWr = wr
    BY <1>1, <1>6 DEF SockRegs
  <1>13. /\ (Opened' <=> Opened) /\ (SawFin' <=> SawFin) /\ Arrived' = Arrived
         /\ ~Silent' /\ (Heard' <=> Heard)
         /\ peer' = peer /\ peerGot' = peerGot /\ trial' = trial
    BY <1>1, <1>11 DEF Opened, SawFin, Streaming, Arrived, PeerStands, Silent, Heard
  <1>14. PeerSide' /\ InFlow' /\ FinBudget' /\ InWire(b)'
    <2>1. Run(got', 0) /\ Run(rx', Len(got'))
      BY <1>1 DEF Flow, InFlow
    <2> QED BY <1>11, <1>13, <2>1, Undisturbed, GuestKeepsIn
  <1>15. Fits(b)' /\ Quiet' /\ Opening(b)'
    BY <1>1, <1>2, <1>11, <1>13 DEF Flow, Fits, Quiet, Opening, Heard, Streaming
  <1>16. reg.txWr <= wr /\ cb.sndNxt <= q + k /\ reg.txWr \in Nat
    <2>1. reg.txWr \in Nat
      BY DEF Numbers
    <2> QED BY <1>3, <1>7, <1>9, <2>1, SMTT(20)
  <1>17. OutFlow(b)'
    <2>1. /\ Heard => peer.rcvNxt = b + Len(peerGot) + One(peer.finRcvd)
          /\ Run(peerGot, 0) /\ Len(peerGot) <= reg.txWr
          /\ b <= cb.sndUna /\ cb.sndUna <= peer.rcvNxt
          /\ b + Len(peerGot) <= cb.sndNxt
          /\ ~peer.finRcvd
      BY <1>1, <1>2 DEF Flow, OutFlow
    <2>2. Len(peerGot) \in Nat /\ reg.txRd \in Nat
      BY DEF Numbers
    <2>3. b + Len(peerGot) <= q + k /\ Len(peerGot) <= wr
      BY <1>7, <1>9, <1>16, <2>1, <2>2, SMTT(20)
    <2>4. q + k = b + reg.txRd + k /\ q + k <= b + wr + One(FALSE)
      BY <1>8, <1>9, <1>10, <2>2 DEF One
    <2>5. Run(peerGot, 0)'
      BY <1>13, <2>1 DEF Run
    <2>6. cb'.sndNxt <= b + reg'.txWr + One(cb'.finSent)
      BY <1>2, <1>11, <1>12, <2>4 DEF One
    <2>7. Heard' => peer'.rcvNxt = b + Len(peerGot') + One(peer'.finRcvd)
      BY <1>13, <2>1
    <2>8. /\ b + Len(peerGot') <= cb'.sndNxt /\ Len(peerGot') <= reg'.txWr
          /\ reg'.txRd <= Len(peerGot')
          /\ cb'.sndNxt = b + reg'.txRd + Len(cb'.retxBuf)
          /\ cb'.retxSeq = b + reg'.txRd
      BY <1>8, <1>9, <1>11, <1>12, <1>13, <2>3, <2>4
    <2>9. ~cb'.finSent /\ ~peer'.finRcvd
      BY <1>2, <1>11, <1>13, <2>1
    <2>10. b <= cb'.sndUna /\ cb'.sndUna <= peer'.rcvNxt /\ reg'.txWr <= trial'.guestBytes
      BY <1>10, <1>11, <1>12, <1>13, <2>1
    <2> QED BY <2>5, <2>6, <2>7, <2>8, <2>9, <2>10 DEF OutFlow
  <1>18. OutBytes(b, q, buf)'
    <2>1. Len(peerGot) \in Nat /\ reg.txRd \in Nat /\ q - b = reg.txRd
      BY <1>7, <1>8, SMTT(20) DEF Numbers
    <2>2. b <= q /\ q <= b + Len(peerGot)
      BY <1>7, <1>8, <2>1
    <2>3. q <= b + Len(peerGot')
      BY <1>13, <2>2
    <2>4. q + Len(buf) <= cb'.sndNxt /\ q + Len(buf) <= b + reg'.txWr
      BY <1>7, <1>9, <1>10, <1>11, <1>12
    <2>5. Run(buf, q - b)
      BY <1>5, <2>1
    <2>6. Run(buf, q - b)'
      BY <2>5 DEF Run
    <2> QED BY <2>2, <2>3, <2>4, <2>6 DEF OutBytes
  <1>19. Kept(b)'
    BY <1>11, <1>18 DEF Kept, OutBytes, Run
  <1>20. OutWire(b)'
    <2>1. OutGrows
      <3>1. /\ cb'.sndNxt >= cb.sndNxt /\ reg.txWr <= reg'.txWr
            /\ cb.rcvNxt <= cb'.rcvNxt /\ Len(peerGot) <= Len(peerGot')
        <4>1. cb.rcvNxt \in Nat /\ Len(peerGot) \in Nat
          BY DEF Numbers
        <4> QED BY <1>11, <1>12, <1>13, <1>16, <4>1
      <3>2. cb.sndNxt <= cb'.sndNxt
        BY <1>11, <1>16
      <3>3. /\ trial' = trial /\ (Silent' => Silent) /\ (Opened => Opened')
            /\ (SawFin => SawFin') /\ cb'.state = cb.state /\ ~cb.finSent
        BY <1>2, <1>11, <1>13
      <3> QED BY <3>1, <3>2, <3>3 DEF OutGrows
    <2>2. PICK g \in Segment :
            /\ g = Packet(q, r, {"ACK"}, buf)
            /\ g.seq = q /\ g.ack = r /\ g.flags = {"ACK"} /\ g.data = buf
      <3>1. {"ACK"} \in SUBSET Flags
        BY DEF Flags
      <3> QED BY <3>1, PacketFields
    <2>3. Transmit(<<g>>)
      BY <1>6, <1>7, <2>2
    <2>4. OutSeg(b, g)'
      <3>1. ~SawFin' => PeerIsn + 1 <= r /\ r <= cb'.rcvNxt
        <4>1. SUFFICES ASSUME ~SawFin PROVE PeerIsn + 1 <= cb.rcvNxt
          BY <1>7, <1>11, <1>13
        <4>2. cb.rcvNxt = PeerIsn + 1 + Arrived
          BY <1>1, <4>1 DEF Flow, InFlow, Opened
        <4> QED BY <4>2 DEF Numbers
      <3>2. "FIN" \notin g.flags /\ g.flags \in {{"ACK"}, {"FIN", "ACK"}}
        BY <2>2
      <3>3. OutBytes(b, g.seq, g.data)'
        BY <1>18, <2>2 DEF OutBytes, Run
      <3>4. cb'.state \in Streaming
        BY <1>1, <1>11
      <3> QED BY <2>2, <3>1, <3>2, <3>3, <3>4 DEF OutSeg
    <2>5. \A h \in Segment : Carries(toPeer', h) => Carries(toPeer, h) \/ OutSeg(b, h)'
      BY <2>2, <2>3, <2>4, SendsOne
    <2> QED BY <2>1, <2>5, OutWireKept DEF Flow
  <1> QED BY <1>14, <1>15, <1>17, <1>19, <1>20 DEF Flow
(* A SEND that the stack refuses: the bytes are dropped before they count. *)
LEMMA SendRefusedFlow ==
  ASSUME LinkTypes, Numbers, Numbers', NEW b \in Nat, Flow(b), WaitSendOk,
         NEW n \in Nat, reg.txWr + n <= trial.guestBytes, CmdSend(n),
         cb.active, cb.state # "ESTABLISHED",
         PeerStands, toGuest' = toGuest, got' = got
  PROVE  Flow(b)'
  <1>1. /\ cb' = cb /\ rx' = rx /\ toPeer' = toPeer /\ reg \in SockRegs
        /\ cb.state \in Streaming
    <2>1. reg.sr \in Streaming \cup {"CLOSED"} /\ reg.sr = cb.state
      BY CbTypes DEF CmdSend, StatusMirrorsStack
    <2>2. cb.state # "CLOSED"
      BY DEF Flow, Opening, Streaming
    <2>3. cb' = cb /\ rx' = rx /\ toPeer' = toPeer
      BY DEF CmdSend
    <2> QED BY <2>1, <2>2, <2>3, CbTypes
  <1>2. PICK wr \in Nat : wr = reg.txWr + n
    BY DEF Numbers
  <1>3. reg' = [reg EXCEPT !.txWr = wr, !.txRd = wr, !.txFsr = BufSize]
    BY <1>2 DEF CmdSend
  <1>4. reg'.txWr = wr /\ reg'.txRd = wr
    BY <1>1, <1>3 DEF SockRegs
  <1>5. reg.txWr <= wr /\ wr <= trial.guestBytes
    <2>1. reg.txWr \in Nat
      BY DEF Numbers
    <2> QED BY <1>2, <2>1
  <1>6. /\ (Opened' <=> Opened) /\ (SawFin' <=> SawFin) /\ Arrived' = Arrived
        /\ (Heard' <=> Heard) /\ (Silent' <=> Silent)
        /\ peer' = peer /\ peerGot' = peerGot /\ trial' = trial
    BY <1>1 DEF Opened, SawFin, Arrived, PeerStands, Silent, Heard
  <1>7. PeerSide' /\ InFlow' /\ FinBudget' /\ InWire(b)'
    <2>1. Run(got', 0) /\ Run(rx', Len(got')) /\ cb'.rcvNxt = cb.rcvNxt
      BY <1>1 DEF Flow, InFlow
    <2> QED BY <1>6, <2>1, Undisturbed, GuestKeepsIn
  <1>8. Fits(b)' /\ Quiet' /\ Opening(b)'
    BY <1>1, <1>6 DEF Flow, Fits, Quiet, Opening
  <1>9. OutFlow(b)'
    <2>1. /\ Heard => peer.rcvNxt = b + Len(peerGot) + One(peer.finRcvd)
          /\ Run(peerGot, 0) /\ Len(peerGot) <= reg.txWr
          /\ peer.finRcvd => cb.finSent /\ peer.rcvNxt = cb.sndNxt
          /\ b <= cb.sndUna /\ cb.sndUna <= peer.rcvNxt
          /\ b + Len(peerGot) <= cb.sndNxt
          /\ cb.sndNxt <= b + reg.txWr + One(cb.finSent)
          /\ cb.finSent => cb.state \in {"FIN_WAIT", "LAST_ACK"}
      BY <1>1 DEF Flow, OutFlow
    <2>2. Len(peerGot) \in Nat /\ reg.txWr \in Nat /\ cb.sndNxt \in Nat
      BY DEF Numbers
    <2>3. One(cb.finSent) \in Nat
      BY DEF One
    <2>4. Len(peerGot) <= wr /\ cb.sndNxt <= b + wr + One(cb.finSent)
      BY <1>5, <2>1, <2>2, <2>3, SMTT(20)
    <2>5. Run(peerGot, 0)'
      BY <1>6, <2>1 DEF Run
    <2> QED BY <1>1, <1>4, <1>5, <1>6, <2>1, <2>4, <2>5 DEF OutFlow
  <1>10. Kept(b)'
    <2>1. cb'.sndNxt = cb.sndNxt /\ cb.sndNxt \in Nat
      BY <1>1 DEF Numbers
    <2>2. cb.sndNxt <= cb'.sndNxt /\ reg.txWr <= reg'.txWr
      BY <1>4, <1>5, <2>1
    <2> QED BY <1>1, <1>6, <2>2, KeptKept DEF Flow
  <1>11. OutWire(b)'
    <2>1. OutGrows
      <3>1. cb.rcvNxt \in Nat /\ cb.sndNxt \in Nat /\ Len(peerGot) \in Nat
        BY DEF Numbers
      <3> QED BY <1>1, <1>4, <1>5, <1>6, <3>1 DEF OutGrows
    <2> QED BY <1>1, <2>1, OutWireKept DEF Flow
  <1> QED BY <1>7, <1>8, <1>9, <1>10, <1>11 DEF Flow

(* The driver takes bytes out of the RX ring. *)
LEMMA ReadsFlow ==
  ASSUME LinkTypes, Numbers, Numbers', NEW b \in Nat, Flow(b),
         NEW n \in 1 .. BufSize, CmdRecv(n), got' = got \o SubSeq(rx, 1, n),
         PeerStands, toGuest' = toGuest
  PROVE  Flow(b)'
  <1>1. /\ cb' = cb /\ toPeer' = toPeer /\ reg \in SockRegs
        /\ n \in 1 .. Len(rx)
        /\ rx' = SubSeq(rx, n + 1, Len(rx))
        /\ reg' = [reg EXCEPT !.rxRsr = Len(rx) - n]
    BY CbTypes DEF CmdRecv, RxRingSound
  <1>2. reg'.txWr = reg.txWr /\ reg'.txRd = reg.txRd
    BY <1>1 DEF SockRegs
  <1>3. /\ rx \in Seq(Nat) /\ got \in Seq(Nat) /\ Run(got, 0) /\ Run(rx, Len(got))
        /\ Len(rx) \in Nat /\ Len(got) \in Nat
    BY DEF Numbers, Flow, InFlow
  <1>4. PICK m \in Nat, k \in Nat : m = Len(got) /\ k = Len(rx) /\ n \in 1 .. k
    BY <1>1, <1>3
  <1>5. /\ SubSeq(rx, 1, n) \in Seq(Nat) /\ Len(SubSeq(rx, 1, n)) = n
        /\ Run(SubSeq(rx, 1, n), m)
    <2>1. 0 \in 0 .. Len(rx) /\ n \in 0 .. Len(rx) /\ n \in Nat
      BY <1>4
    <2>2. /\ SubSeq(rx, 0 + 1, n) \in Seq(Nat) /\ Len(SubSeq(rx, 0 + 1, n)) = n - 0
          /\ Run(SubSeq(rx, 0 + 1, n), m + 0)
      BY <1>3, <1>4, <2>1, RunPart
    <2>3. 0 + 1 = 1 /\ n - 0 = n /\ m + 0 = m
      BY <2>1
    <2> QED BY <2>2, <2>3
  <1>6. /\ rx' \in Seq(Nat) /\ Len(rx') = k - n /\ Run(rx', m + n)
    <2>1. n \in 0 .. Len(rx) /\ Len(rx) \in n .. Len(rx)
      BY <1>4
    <2> QED BY <1>1, <1>3, <1>4, <2>1, RunPart
  <1>7. Len(got') = m + n /\ Run(got', 0)
    <2>1. Run(SubSeq(rx, 1, n), 0 + Len(got))
      BY <1>4, <1>5
    <2>2. /\ Len(got \o SubSeq(rx, 1, n)) = Len(got) + Len(SubSeq(rx, 1, n))
          /\ Run(got \o SubSeq(rx, 1, n), 0)
      BY <1>3, <1>5, <2>1, RunConcat
    <2> QED BY <1>4, <1>5, <2>2
  <1>8. /\ (Opened' <=> Opened) /\ (SawFin' <=> SawFin)
        /\ (Heard' <=> Heard) /\ (Silent' <=> Silent)
        /\ peer' = peer /\ peerGot' = peerGot /\ trial' = trial
    BY <1>1 DEF Opened, SawFin, PeerStands, Silent, Heard
  <1>9. Arrived' = Arrived
    <2>1. Arrived' = (m + n) + (k - n) /\ Arrived = m + k /\ n \in Nat
      BY <1>4, <1>6, <1>7 DEF Arrived
    <2> QED BY <2>1
  <1>10. PeerSide' /\ InFlow' /\ FinBudget' /\ InWire(b)'
    <2>1. Run(got', 0) /\ Run(rx', Len(got')) /\ cb'.rcvNxt = cb.rcvNxt
      BY <1>1, <1>6, <1>7
    <2> QED BY <1>8, <1>9, <2>1, Undisturbed, GuestKeepsIn
  <1>11. cb.state \in Streaming
    <2>1. Len(rx) # 0
      BY <1>4
    <2> QED BY <2>1 DEF Flow, Quiet
  <1>12. Fits(b)' /\ Quiet' /\ Opening(b)'
    BY <1>1, <1>8, <1>11 DEF Flow, Fits, Quiet, Opening
  <1>13. OutFlow(b)' /\ Kept(b)'
    BY <1>1, <1>2, <1>8 DEF Flow, OutFlow, Kept, OutBytes, Run
  <1>14. OutWire(b)'
    <2>1. OutGrows
      <3>1. /\ cb.rcvNxt \in Nat /\ cb.sndNxt \in Nat /\ Len(peerGot) \in Nat
            /\ reg.txWr \in Nat
        BY DEF Numbers
      <3> QED BY <1>1, <1>2, <1>8, <3>1, SMTT(20) DEF OutGrows
    <2> QED BY <1>1, <2>1, OutWireKept DEF Flow
  <1> QED BY <1>10, <1>12, <1>13, <1>14 DEF Flow
(* The outstanding segment goes out again. *)
LEMMA TickDataFlow ==
  ASSUME LinkTypes, Numbers, Numbers', NEW b \in Nat, Flow(b),
         TickData, rx' = rx, PeerStands, toGuest' = toGuest, got' = got
  PROVE  Flow(b)'
  <1>1. /\ cb.active /\ cb.retxBuf # <<>> /\ cb.state \in Streaming
        /\ cb \in TcpCb /\ reg' = reg
        /\ cb' = [cb EXCEPT !.retxTimer = RetxFrames, !.retxCount = @ + 1,
                            !.peerMacKnown = Resolved]
        /\ \/ Transmit(<<Packet(cb.retxSeq, cb.rcvNxt, {"ACK"}, cb.retxBuf)>>)
           \/ toPeer' = toPeer
    BY CbTypes DEF TickData, DataPending, Flow, Quiet
  <1>2. cb.peerMacKnown /\ Resolved
    BY <1>1 DEF Flow, Opening, Resolved
  <1>3. /\ cb'.state = cb.state /\ cb'.sndUna = cb.sndUna /\ cb'.sndNxt = cb.sndNxt
        /\ cb'.rcvNxt = cb.rcvNxt /\ cb'.retxBuf = cb.retxBuf /\ cb'.retxSeq = cb.retxSeq
        /\ cb'.finSent = cb.finSent /\ cb'.peerMacKnown = Resolved
    BY <1>1 DEF TcpCb
  <1>4. cb'.peerMacKnown = cb.peerMacKnown \/ (cb.state \in Streaming /\ cb'.peerMacKnown)
    BY <1>1, <1>2, <1>3
  <1>5. \A g \in Segment : Carries(toPeer', g) => Carries(toPeer, g) \/ OutSeg(b, g)'
    <2>1. CASE toPeer' = toPeer
      BY <2>1
    <2>2. CASE Transmit(<<Packet(cb.retxSeq, cb.rcvNxt, {"ACK"}, cb.retxBuf)>>)
      <3>1. PICK g \in Segment :
              /\ g = Packet(cb.retxSeq, cb.rcvNxt, {"ACK"}, cb.retxBuf)
              /\ g.seq = cb.retxSeq /\ g.ack = cb.rcvNxt /\ g.flags = {"ACK"}
              /\ g.data = cb.retxBuf
        <4>1. {"ACK"} \in SUBSET Flags
          BY DEF Flags
        <4> QED BY <4>1, CbTypes, PacketFields
      <3>2. Transmit(<<g>>)
        BY <2>2, <3>1
      <3>3. OutBytes(b, g.seq, g.data)
        BY <1>1, <3>1 DEF Flow, Kept
      <3>4. OutBytes(b, g.seq, g.data)'
        BY <1>1, <1>3, <3>3 DEF OutBytes, Run, PeerStands
      <3>5. ~SawFin' => PeerIsn + 1 <= g.ack /\ g.ack <= cb'.rcvNxt
        <4>1. SUFFICES ASSUME ~SawFin PROVE PeerIsn + 1 <= cb.rcvNxt /\ cb.rcvNxt <= cb.rcvNxt
          BY <1>3, <3>1 DEF SawFin
        <4>2. cb.rcvNxt = PeerIsn + 1 + Arrived
          BY <1>1, <4>1 DEF Flow, InFlow, Opened
        <4>3. PeerIsn \in Nat /\ Arrived \in Nat /\ cb.rcvNxt \in Nat
          BY DEF Numbers
        <4> QED BY <4>2, <4>3
      <3>6. "FIN" \notin g.flags /\ g.flags \in {{"ACK"}, {"FIN", "ACK"}}
        BY <3>1
      <3>7. OutSeg(b, g)'
        BY <1>1, <1>3, <3>4, <3>5, <3>6 DEF OutSeg
      <3> QED BY <3>2, <3>7, SendsOne
    <2> QED BY <1>1, <2>1, <2>2
  <1> QED BY <1>1, <1>3, <1>4, <1>5, Undisturbed, GuestSameFlow

(* A tick that leaves the connection up. *)
LEMMA TickFlow ==
  ASSUME LinkTypes, Numbers, Numbers', NEW b \in Nat, Flow(b), NoWrap,
         tcp_tick, cb'.active, PeerStands, toGuest' = toGuest, got' = got
  PROVE  Flow(b)'
  <1>1. rx' = rx /\ cb \in TcpCb
    BY CbTypes DEF tcp_tick
  <1>2. CASE TickWait \/ TickIdle
    <2>1. /\ cb'.state = cb.state /\ cb'.sndUna = cb.sndUna /\ cb'.sndNxt = cb.sndNxt
          /\ cb'.rcvNxt = cb.rcvNxt /\ cb'.retxBuf = cb.retxBuf /\ cb'.retxSeq = cb.retxSeq
          /\ cb'.finSent = cb.finSent /\ cb'.peerMacKnown = cb.peerMacKnown
          /\ reg' = reg /\ toPeer' = toPeer
      BY <1>1, <1>2 DEF TickWait, TickIdle, TcpCb
    <2>2. cb'.peerMacKnown = cb.peerMacKnown \/ (cb.state \in Streaming /\ cb'.peerMacKnown)
      BY <2>1
    <2> QED BY <1>1, <2>1, <2>2, Undisturbed, GuestSameFlow
  <1>3. CASE TickGiveUp
    <2>1. ~cb'.active
      BY <1>1, <1>3 DEF TickGiveUp, TcpCb
    <2> QED BY <2>1
  <1>4. CASE TickSyn
    BY <1>1, <1>4, TickSynFlow
  <1>5. CASE TickData
    BY <1>1, <1>5, TickDataFlow
  <1> QED BY <1>2, <1>3, <1>4, <1>5 DEF tcp_tick

(* The ARP cache learns or forgets the next hop, or SEND_OK is cleared.    *)
LEMMA AsideFlow ==
  ASSUME LinkTypes, Numbers, Numbers', NEW b \in Nat, Flow(b),
         cb' = cb, rx' = rx, toPeer' = toPeer,
         reg'.txRd = reg.txRd, reg'.txWr = reg.txWr,
         PeerStands, toGuest' = toGuest, got' = got
  PROVE  Flow(b)'
  BY Undisturbed, GuestSameFlow

(* A command that leaves the connection up. *)
LEMMA CommandFlow ==
  ASSUME LinkTypes, Numbers, Numbers', NEW b \in Nat, Flow(b), Orderly,
         GuestCommand, cb.active, cb'.active, PeerStands, toGuest' = toGuest
  PROVE  \E c \in Nat : Flow(c)'
  <1>1. got' = got /\ cb \in TcpCb /\ reg \in SockRegs
    BY CbTypes DEF GuestCommand
  <1>2. NoWrap /\ TxMayFail = FALSE /\ WaitSendOk
    BY DEF Orderly
  <1>3. CASE reg.sr = "INIT" /\ CmdListen
    <2>1. Flow(b)'
      BY <1>1, <1>3, ListenFlow
    <2> QED BY <2>1
  <1>4. CASE reg.sr = "INIT" /\ CmdConnect
    BY <1>1, <1>2, <1>4, ConnectFlow
  <1>5. CASE CmdDiscon
    <2>1. Flow(b)'
      BY <1>1, <1>2, <1>5, DisconFlow
    <2> QED BY <2>1
  <1>6. CASE CmdClose
    <2>1. ~cb'.active
      BY <1>1, <1>6 DEF CmdClose, TcpCb
    <2> QED BY <2>1
  <1>7. ASSUME NEW n \in 0 .. MaxBytes, reg.txWr + n <= trial.guestBytes, CmdSend(n)
        PROVE  Flow(b)'
    <2>1. n \in Nat
      BY NumAssumption
    <2>2. CASE cb.state = "ESTABLISHED"
      BY <1>1, <1>2, <1>7, <2>1, <2>2, SendAcceptedFlow
    <2>3. CASE cb.state # "ESTABLISHED"
      BY <1>1, <1>2, <1>7, <2>1, <2>3, SendRefusedFlow
    <2> QED BY <2>2, <2>3
  <1>8. CASE ClearIr(reg.ir \cap {"SEND_OK"})
    <2>1. /\ cb' = cb /\ rx' = rx /\ toPeer' = toPeer
          /\ reg'.txRd = reg.txRd /\ reg'.txWr = reg.txWr
      BY <1>1, <1>8 DEF ClearIr, SockRegs
    <2>2. Flow(b)'
      BY <1>1, <2>1, AsideFlow
    <2> QED BY <2>2
  <1> QED BY <1>3, <1>4, <1>5, <1>6, <1>7, <1>8 DEF GuestCommand
-----------------------------------------------------------------------------
(* A segment of the open stream *)

(* What RecvStream does to a connection that stays up. *)
StreamMoves(seg) ==
  /\ cb.active /\ cb.state \in Streaming
  /\ "FIN" \in seg.flags => cb'.state = "CLOSE_WAIT" /\ cb.state \in {"ESTABLISHED", "CLOSE_WAIT"}
  /\ "FIN" \notin seg.flags => cb'.state = cb.state
  /\ cb'.rcvNxt = IF "FIN" \in seg.flags THEN Plus(RcvAfterData(seg), 1)
                                         ELSE RcvAfterData(seg)
  /\ cb'.sndUna = IF NewAck(seg) THEN seg.ack ELSE cb.sndUna
  /\ cb'.sndNxt = cb.sndNxt /\ cb'.finSent = cb.finSent /\ cb'.retxSeq = cb.retxSeq
  /\ cb.peerMacKnown => cb'.peerMacKnown
  /\ reg'.txWr = reg.txWr
  /\ IF Releases(seg) THEN cb'.retxBuf = <<>> /\ reg'.txRd = reg.txRd + Len(cb.retxBuf)
                      ELSE cb'.retxBuf = cb.retxBuf /\ reg'.txRd = reg.txRd
  /\ rx' = rx \o SubSeq(seg.data, 1, Taken(seg))

(* Two runs of frames. *)
LEMMA CarriesBoth ==
  ASSUME NEW s \in Seq(Segment), NEW t \in Seq(Segment)
  PROVE  /\ s \o t \in Seq(Segment)
         /\ \A g : Carries(s \o t, g) => Carries(s, g) \/ Carries(t, g)
  <1>1. /\ s \o t \in Seq(Segment) /\ Len(s \o t) = Len(s) + Len(t)
        /\ \A i \in 1 .. Len(s) + Len(t) :
             (s \o t)[i] = IF i <= Len(s) THEN s[i] ELSE t[i - Len(s)]
    OBVIOUS
  <1>2. ASSUME NEW g, Carries(s \o t, g) PROVE Carries(s, g) \/ Carries(t, g)
    <2>1. PICK i \in 1 .. Len(s) + Len(t) : (s \o t)[i] = g
      BY <1>1, <1>2 DEF Carries
    <2>2. CASE i <= Len(s)
      BY <1>1, <2>1, <2>2 DEF Carries
    <2>3. CASE ~(i <= Len(s))
      <3>1. i - Len(s) \in 1 .. Len(t) /\ g = t[i - Len(s)]
        BY <1>1, <2>1, <2>3
      <3> QED BY <3>1 DEF Carries
    <2> QED BY <2>2, <2>3
  <1> QED BY <1>1, <1>2

(* What it answers. *)
StreamAnswers(seg) ==
  \A g \in Segment : Carries(toPeer', g) =>
    \/ Carries(toPeer, g)
    \/ /\ g.flags = {"ACK"} /\ g.data = <<>>
       /\ g.ack \in {RcvAfterData(seg), cb'.rcvNxt}
       /\ seg.data # <<>> \/ "FIN" \in seg.flags

LEMMA StreamStep ==
  ASSUME LinkTypes, NEW seg \in Segment, RecvStream(seg), cb'.active
  PROVE  StreamMoves(seg) /\ StreamAnswers(seg)
  <1> DEFINE
        rcv1    == RcvAfterData(seg)
        reAck   == seg.data # <<>> /\ (seg.seq = cb.rcvNxt => Taken(seg) > 0)
        done    == Releases(seg)
        fin     == "FIN" \in seg.flags
        rcv2    == IF fin THEN Plus(rcv1, 1) ELSE rcv1
        finAcked == /\ cb.state = "LAST_ACK"
                    /\ cb.finSent /\ "ACK" \in seg.flags /\ seg.ack = cb.sndNxt
        next    == IF fin THEN IF cb.state \in {"ESTABLISHED", "CLOSE_WAIT"}
                               THEN "CLOSE_WAIT" ELSE "CLOSED"
                          ELSE IF finAcked THEN "CLOSED" ELSE cb.state
        a1 == IF reAck THEN <<Packet(cb.sndNxt, rcv1, {"ACK"}, <<>>)>> ELSE <<>>
        a2 == IF fin THEN <<Packet(cb.sndNxt, rcv2, {"ACK"}, <<>>)>> ELSE <<>>
        acks == a1 \o a2
        una == IF NewAck(seg) THEN seg.ack ELSE cb.sndUna
        buf == IF done THEN <<>> ELSE cb.retxBuf
        cnt == IF done THEN 0 ELSE cb.retxCount
        mac == cb.peerMacKnown \/ (acks # <<>> /\ arp)
        act == next # "CLOSED"
  <1>1. StatusInv /\ cb \in TcpCb /\ TypeRx
    BY DEF LinkTypes, SendInv, StatusInv, TypeRx, TypeOK
  <1>2. /\ cb.active /\ cb.state \in Streaming
        /\ rx' = rx \o SubSeq(seg.data, 1, Taken(seg))
        /\ IF Resolved THEN Transmit(acks) ELSE UNCHANGED toPeer
        /\ cb' = [cb EXCEPT !.rcvNxt = rcv2, !.sndUna = una, !.retxBuf = buf,
                            !.retxCount = cnt, !.peerMacKnown = mac,
                            !.state = next, !.active = act]
    BY DEF RecvStream, Found
  <1>3. /\ reg'.txWr = reg.txWr
        /\ KeepsBuffer \/ ReleasesBuffer
    BY <1>1, StreamEffect
  <1> HIDE DEF rcv1, done, rcv2, una, buf, cnt, mac, act, next, acks
  <1>4. /\ cb'.rcvNxt = rcv2 /\ cb'.sndUna = una /\ cb'.retxBuf = buf
        /\ cb'.peerMacKnown = mac /\ cb'.state = next /\ cb'.active = act
        /\ cb'.sndNxt = cb.sndNxt /\ cb'.finSent = cb.finSent /\ cb'.retxSeq = cb.retxSeq
    BY <1>1, <1>2 DEF TcpCb
  <1>5. next # "CLOSED"
    BY <1>4 DEF act
  <1>6. /\ fin => next = "CLOSE_WAIT" /\ cb.state \in {"ESTABLISHED", "CLOSE_WAIT"}
        /\ ~fin => next = cb.state
    BY <1>5 DEF next
  <1>7. cb.peerMacKnown => cb'.peerMacKnown
    BY <1>4 DEF mac
  <1>8. IF Releases(seg) THEN cb'.retxBuf = <<>> /\ reg'.txRd = reg.txRd + Len(cb.retxBuf)
                         ELSE cb'.retxBuf = cb.retxBuf /\ reg'.txRd = reg.txRd
    <2>1. CASE Releases(seg)
      <3>1. cb.retxBuf # <<>> /\ cb'.retxBuf = <<>>
        BY <1>4, <2>1 DEF Releases, buf, done
      <3> QED BY <1>3, <2>1, <3>1 DEF KeepsBuffer, ReleasesBuffer
    <2>2. CASE ~Releases(seg)
      <3>1. cb'.retxBuf = cb.retxBuf
        BY <1>4, <2>2 DEF buf, done
      <3> QED BY <1>3, <2>2, <3>1 DEF KeepsBuffer, ReleasesBuffer
    <2> QED BY <2>1, <2>2
  <1>9. StreamMoves(seg)
    BY <1>2, <1>3, <1>4, <1>6, <1>7, <1>8 DEF StreamMoves, rcv1, rcv2, una
  <1>10. rcv1 \in SeqNum /\ rcv2 \in SeqNum /\ cb.sndNxt \in SeqNum
    <2>1. cb.rcvNxt \in Nat /\ Taken(seg) \in Nat
      BY <1>1, StreamTaken, LinkNumbers DEF Numbers
    <2>2. rcv1 \in SeqNum
      BY <2>1, PlusType DEF rcv1, RcvAfterData
    <2>3. rcv1 \in Int
      BY <2>2, NumAssumption DEF SeqNum
    <2>4. Plus(rcv1, 1) \in SeqNum
      BY <2>3, PlusType
    <2> QED BY <2>2, <2>4, CbTypes DEF rcv2
  <1>11. PICK p1 \in Segment, p2 \in Segment :
           /\ p1 = Packet(cb.sndNxt, rcv1, {"ACK"}, <<>>)
           /\ p1.ack = rcv1 /\ p1.flags = {"ACK"} /\ p1.data = <<>>
           /\ p2 = Packet(cb.sndNxt, rcv2, {"ACK"}, <<>>)
           /\ p2.ack = rcv2 /\ p2.flags = {"ACK"} /\ p2.data = <<>>
    <2>1. {"ACK"} \in SUBSET Flags
      BY DEF Flags
    <2> QED BY <1>10, <2>1, EmptyPacket
  <1>12. /\ acks \in Seq(Segment)
         /\ \A g : Carries(acks, g) => (reAck /\ g = p1) \/ (fin /\ g = p2)
    <2>1. a1 = IF reAck THEN <<p1>> ELSE <<>>
      BY <1>11
    <2>2. a2 = IF fin THEN <<p2>> ELSE <<>>
      BY <1>11
    <2> HIDE DEF a1, a2
    <2>3. a1 \in Seq(Segment) /\ a2 \in Seq(Segment)
      BY <2>1, <2>2, EmptySeq
    <2>4. /\ \A g : Carries(a1, g) => reAck /\ g = p1
          /\ \A g : Carries(a2, g) => fin /\ g = p2
      BY <2>1, <2>2, EmptySeq, CarriesOne DEF Carries
    <2>5. /\ acks \in Seq(Segment)
          /\ \A g : Carries(acks, g) => Carries(a1, g) \/ Carries(a2, g)
      BY <2>3, CarriesBoth DEF acks
    <2> QED BY <2>4, <2>5
  <1>13. StreamAnswers(seg)
    <2>1. CASE toPeer' = toPeer
      BY <2>1 DEF StreamAnswers
    <2>2. CASE Transmit(acks)
      <3>1. \A g : Carries(toPeer', g) => Carries(toPeer, g) \/ Carries(acks, g)
        BY <1>12, <2>2, CbTypes, ToPeerAdds
      <3>2. cb'.rcvNxt = rcv2 /\ RcvAfterData(seg) = rcv1
        BY <1>4 DEF rcv1
      <3> QED BY <1>11, <1>12, <3>1, <3>2 DEF StreamAnswers
    <2> QED BY <1>2, <2>1, <2>2
  <1> QED BY <1>9, <1>13
(* The bytes it takes are the next of the peer's stream, never after the   *)
(* peer's FIN, and RCV.NXT moves over them without a wrap.                 *)
LEMMA StreamInOrder ==
  ASSUME LinkTypes, Numbers, NEW b \in Nat, Flow(b), NoWrap,
         NEW seg \in Segment, cb.state \in Streaming,
         seg.data # <<>> => InBytes(seg.seq, seg.data)
  PROVE  /\ Taken(seg) \in Nat
         /\ RcvAfterData(seg) = cb.rcvNxt + Taken(seg)
         /\ Taken(seg) # 0 => ~SawFin /\ peer.finAt = 0 /\ Arrived + Taken(seg) + 1 <= peer.nxt
         /\ Len(rx \o SubSeq(seg.data, 1, Taken(seg))) = Len(rx) + Taken(seg)
         /\ Run(rx \o SubSeq(seg.data, 1, Taken(seg)), Len(got))
         /\ seg.data = <<>> => Taken(seg) = 0
  <1>1. /\ seg.seq \in Nat /\ seg.data \in Seq(Nat) /\ Len(seg.data) \in Nat
        /\ (seg.data = <<>> => Len(seg.data) = 0)
    BY SegmentNumbers
  <1>2. /\ Taken(seg) \in Nat /\ Taken(seg) <= Len(seg.data)
        /\ Len(rx \o SubSeq(seg.data, 1, Taken(seg))) = Len(rx) + Taken(seg)
    <2>1. TypeRx
      BY DEF LinkTypes, SendInv, StatusInv
    <2> QED BY <2>1, StreamTaken
  <1>3. PICK t \in Nat : t = Taken(seg) /\ t <= Len(seg.data)
    BY <1>2
  <1>4. /\ cb.rcvNxt \in Nat /\ PeerIsn \in Nat /\ Arrived \in Nat /\ SeqMod \in Nat
        /\ peer.nxt \in Nat /\ peer.finAt \in Nat /\ trial.peerBytes \in Nat /\ MaxFins \in Nat
        /\ rx \in Seq(Nat) /\ Len(rx) \in Nat /\ Len(got) \in Nat /\ cb.rcvNxt < SeqMod
    <2>1. cb.rcvNxt < SeqMod
      BY CbTypes, NumAssumption DEF SeqNum
    <2> QED BY <2>1 DEF Numbers
  <1>5. Opened
    BY DEF Opened
  <1>6. /\ ~SawFin => cb.rcvNxt = PeerIsn + 1 + Arrived
        /\ SawFin => peer.finAt # 0 /\ cb.rcvNxt >= PeerIsn + 2 + Arrived
        /\ peer.finAt = 0 => peer.nxt <= trial.peerBytes + 1
        /\ peer.finAt # 0 => peer.finAt = Arrived + 1
        /\ Run(rx, Len(got))
    BY <1>5 DEF Flow, InFlow
  <1>7. PeerIsn + trial.peerBytes + MaxFins + 2 < SeqMod
    BY DEF NoWrap, LinkTypes
  <1>8. CASE t = 0
    <2>1. RcvAfterData(seg) = cb.rcvNxt + Taken(seg)
      <3>1. Plus(cb.rcvNxt, 0) = cb.rcvNxt + 0
        BY <1>4, NoWrapPlus
      <3> QED BY <1>3, <1>8, <3>1 DEF RcvAfterData
    <2>2. Run(rx \o SubSeq(seg.data, 1, 0), Len(got))
      <3>1. SubSeq(seg.data, 1, 0) = <<>>
        BY <1>1
      <3>2. rx \o <<>> = rx
        BY <1>4
      <3> QED BY <1>6, <3>1, <3>2
    <2> QED BY <1>2, <1>3, <1>8, <2>1, <2>2
  <1>9. CASE t # 0
    <2>1. seg.seq = cb.rcvNxt /\ Len(seg.data) >= 1 /\ seg.data # <<>>
      BY <1>1, <1>3, <1>9 DEF Taken
    <2>2. /\ Run(seg.data, seg.seq - (PeerIsn + 1))
          /\ seg.seq + Len(seg.data) <= PeerIsn + peer.nxt
          /\ peer.finAt # 0 => seg.seq + Len(seg.data) <= PeerIsn + peer.finAt
      BY <2>1 DEF InBytes
    <2>3. peer.finAt = 0
      <3>1. SUFFICES ASSUME peer.finAt # 0 PROVE FALSE
        OBVIOUS
      <3>2. /\ cb.rcvNxt >= PeerIsn + 1 + Arrived
            /\ cb.rcvNxt + Len(seg.data) <= PeerIsn + Arrived + 1
        <4>1. cb.rcvNxt + Len(seg.data) <= PeerIsn + peer.finAt /\ peer.finAt = Arrived + 1
          BY <1>6, <2>1, <2>2, <3>1
        <4>2. cb.rcvNxt = PeerIsn + 1 + Arrived \/ cb.rcvNxt >= PeerIsn + 2 + Arrived
          BY <1>6
        <4>3. cb.rcvNxt >= PeerIsn + 1 + Arrived
          BY <1>4, <4>2
        <4>4. PeerIsn + (Arrived + 1) = PeerIsn + Arrived + 1
          BY <1>4
        <4> QED BY <4>1, <4>3, <4>4
      <3> QED BY <1>1, <1>4, <2>1, <3>2
    <2>4. ~SawFin /\ cb.rcvNxt = PeerIsn + 1 + Arrived
      BY <1>6, <2>3
    <2>5. cb.rcvNxt + t <= PeerIsn + peer.nxt /\ peer.nxt <= trial.peerBytes + 1
      <3>1. cb.rcvNxt + Len(seg.data) <= PeerIsn + peer.nxt /\ peer.nxt <= trial.peerBytes + 1
        BY <1>6, <2>1, <2>2, <2>3
      <3>2. t <= Len(seg.data) /\ Len(seg.data) \in Nat
        BY <1>1, <1>3
      <3> QED BY <1>4, <3>1, <3>2, SMTT(20)
    <2>6. cb.rcvNxt + t < SeqMod
      <3>1. PeerIsn + peer.nxt <= PeerIsn + trial.peerBytes + 1
        BY <1>4, <2>5
      <3>2. cb.rcvNxt + t <= PeerIsn + trial.peerBytes + 1
        <4>1. /\ cb.rcvNxt + t \in Int /\ PeerIsn + peer.nxt \in Int
              /\ PeerIsn + trial.peerBytes + 1 \in Int
          BY <1>4, SMTT(20)
        <4>2. cb.rcvNxt + t <= PeerIsn + peer.nxt
          BY <2>5
        <4> QED BY <3>1, <4>1, <4>2
      <3>3. PeerIsn + trial.peerBytes + 1 < SeqMod
        BY <1>4, <1>7
      <3> QED BY <1>4, <3>2, <3>3
    <2>7. RcvAfterData(seg) = cb.rcvNxt + t
      BY <1>3, <1>4, <2>6, NoWrapPlus DEF RcvAfterData
    <2>8. Arrived + t + 1 <= peer.nxt
      BY <1>4, <2>4, <2>5
    <2>9. /\ SubSeq(seg.data, 1, t) \in Seq(Nat)
          /\ Run(SubSeq(seg.data, 1, t), Arrived)
      <3>1. 0 \in 0 .. Len(seg.data) /\ t \in 0 .. Len(seg.data)
        BY <1>1, <1>3
      <3>2. seg.seq - (PeerIsn + 1) = Arrived
        BY <1>4, <2>1, <2>4
      <3>3. /\ SubSeq(seg.data, 0 + 1, t) \in Seq(Nat)
            /\ Run(SubSeq(seg.data, 0 + 1, t), Arrived + 0)
        BY <1>1, <1>4, <2>2, <3>1, <3>2, RunPart
      <3>4. 0 + 1 = 1 /\ Arrived + 0 = Arrived
        BY <1>4
      <3> QED BY <3>3, <3>4
    <2>10. Run(rx \o SubSeq(seg.data, 1, t), Len(got))
      <3>1. Run(SubSeq(seg.data, 1, t), Len(got) + Len(rx))
        BY <2>9 DEF Arrived
      <3> QED BY <1>4, <1>6, <2>9, <3>1, RunConcat
    <2> QED BY <1>2, <1>3, <2>1, <2>3, <2>4, <2>7, <2>8, <2>10
  <1> QED BY <1>8, <1>9

(* The guest's half of the invariant after it. *)
LEMMA StreamOutFlow ==
  ASSUME LinkTypes, Numbers, Numbers', NEW b \in Nat, Flow(b), NEW seg \in Segment,
         StreamMoves(seg), PeerStands,
         seg.ack > cb.sndUna /\ "ACK" \in seg.flags => b <= seg.ack /\ seg.ack <= peer.rcvNxt
  PROVE  OutFlow(b)' /\ Kept(b)'
  <1>1. /\ cb.state \in Streaming /\ cb'.state \in Streaming
        /\ cb'.sndNxt = cb.sndNxt /\ cb'.finSent = cb.finSent /\ cb'.retxSeq = cb.retxSeq
        /\ reg'.txWr = reg.txWr
        /\ cb'.state = "ESTABLISHED" => cb.state = "ESTABLISHED"
    BY DEF StreamMoves, Streaming
  <1>2. /\ peer' = peer /\ peerGot' = peerGot /\ trial' = trial /\ (Heard' <=> Heard)
    BY DEF PeerStands, Heard
  <1>3. /\ Heard => peer.rcvNxt = b + Len(peerGot) + One(peer.finRcvd)
        /\ Run(peerGot, 0) /\ Len(peerGot) <= reg.txWr /\ reg.txWr <= trial.guestBytes
        /\ peer.finRcvd => cb.finSent /\ peer.rcvNxt = cb.sndNxt
        /\ b <= cb.sndUna /\ cb.sndUna <= peer.rcvNxt
        /\ b + Len(peerGot) <= cb.sndNxt
        /\ cb.sndNxt <= b + reg.txWr + One(cb.finSent)
        /\ cb.finSent => cb.state \in {"FIN_WAIT", "LAST_ACK"}
        /\ cb.state = "ESTABLISHED" =>
             /\ reg.txRd <= Len(peerGot)
             /\ cb.sndNxt = b + reg.txRd + Len(cb.retxBuf)
             /\ cb.retxBuf # <<>> => cb.retxSeq = b + reg.txRd
    BY <1>1 DEF Flow, OutFlow
  <1>4. b <= cb'.sndUna /\ cb'.sndUna <= peer.rcvNxt
    BY <1>3 DEF StreamMoves, NewAck
  <1>5. cb.finSent => cb'.state \in {"FIN_WAIT", "LAST_ACK"}
    <2>1. cb.finSent => "FIN" \notin seg.flags \/ cb.state \in {"ESTABLISHED", "CLOSE_WAIT"}
      BY DEF StreamMoves
    <2> QED BY <1>3, <2>1 DEF StreamMoves
  <1>6. ASSUME cb'.state = "ESTABLISHED"
        PROVE  /\ reg'.txRd <= Len(peerGot)
               /\ cb'.sndNxt = b + reg'.txRd + Len(cb'.retxBuf)
               /\ cb'.retxBuf # <<>> => cb'.retxSeq = b + reg'.txRd
    <2>1. CASE Releases(seg)
      <3>1. /\ cb'.retxBuf = <<>> /\ reg'.txRd = reg.txRd + Len(cb.retxBuf)
            /\ Len(cb'.retxBuf) = 0
        BY <2>1, EmptySeq DEF StreamMoves
      <3>2. /\ "ACK" \in seg.flags /\ seg.ack > cb.sndUna /\ cb.retxBuf # <<>>
            /\ seg.ack >= Plus(cb.retxSeq, Len(cb.retxBuf))
        BY <2>1 DEF Releases, NewAck
      <3>3. /\ reg.txRd \in Nat /\ Len(cb.retxBuf) \in Nat /\ cb.sndNxt \in Nat
            /\ seg.ack \in Nat /\ peer.rcvNxt \in Nat /\ Len(peerGot) \in Nat
            /\ cb.sndNxt < SeqMod /\ cb.retxSeq \in Nat
        <4>1. cb.sndNxt < SeqMod
          BY CbTypes, NumAssumption DEF SeqNum
        <4> QED BY <4>1, SegmentNumbers DEF Numbers
      <3>4. Plus(cb.retxSeq, Len(cb.retxBuf)) = cb.sndNxt
        <4>1. cb.retxSeq + Len(cb.retxBuf) = cb.sndNxt
          BY <1>1, <1>3, <1>6, <3>2, <3>3
        <4> QED BY <3>3, <4>1, NoWrapPlus
      <3>5. peer.rcvNxt = b + Len(peerGot)
        <4>1. ~cb.finSent /\ Heard
          BY <1>1, <1>3, <1>6 DEF Flow, Opening
        <4>2. ~peer.finRcvd
          BY <1>3, <4>1
        <4> QED BY <1>3, <3>3, <4>1, <4>2 DEF One
      <3>6. cb.sndNxt <= b + Len(peerGot)
        BY <3>2, <3>3, <3>4, <3>5
      <3>7. cb.sndNxt = b + reg'.txRd
        BY <1>1, <1>3, <1>6, <3>1, <3>3
      <3>8. reg'.txRd \in Nat
        BY DEF Numbers
      <3> QED BY <1>1, <3>1, <3>3, <3>6, <3>7, <3>8
    <2>2. CASE ~Releases(seg)
      BY <1>1, <1>3, <1>6, <2>2 DEF StreamMoves
    <2> QED BY <2>1, <2>2
  <1>7. Run(peerGot, 0)'
    BY <1>2, <1>3 DEF Run
  <1>8. OutFlow(b)'
    BY <1>1, <1>2, <1>3, <1>4, <1>5, <1>6, <1>7 DEF OutFlow
  <1>9. Kept(b)'
    <2>1. CASE Releases(seg)
      BY <2>1 DEF StreamMoves, Kept
    <2>2. CASE ~Releases(seg)
      <3>1. cb'.retxBuf = cb.retxBuf
        BY <2>2 DEF StreamMoves
      <3>2. cb.sndNxt <= cb'.sndNxt /\ reg.txWr <= reg'.txWr
        <4>1. cb.sndNxt \in Nat /\ reg.txWr \in Nat
          BY DEF Numbers
        <4> QED BY <1>1, <4>1
      <3> QED BY <1>1, <1>2, <3>1, <3>2, KeptKept DEF Flow
    <2> QED BY <2>1, <2>2
  <1> QED BY <1>8, <1>9
(* The FINs counted leave room for one on the wire. *)
LEMMA FinFits ==
  ASSUME LinkTypes, Numbers, NEW b \in Nat, Flow(b), NoWrap, Opened, peer.finAt # 0,
         Cardinality(FinsOn(toGuest)) >= 1
  PROVE  Plus(cb.rcvNxt, 1) = cb.rcvNxt + 1
  <1>1. /\ Cardinality(FinsOn(toGuest)) + Counted <= peer.fins /\ peer.fins <= MaxFins
        /\ Counted = cb.rcvNxt - (PeerIsn + 1 + Arrived)
        /\ peer.finAt = Arrived + 1 /\ peer.finAt <= trial.peerBytes + 1
    BY DEF Flow, FinBudget, InFlow, Counted
  <1>2. /\ cb.rcvNxt \in Nat /\ PeerIsn \in Nat /\ Arrived \in Nat /\ SeqMod \in Nat
        /\ peer.fins \in Nat /\ MaxFins \in Nat /\ trial.peerBytes \in Nat
    BY DEF Numbers
  <1>3. Cardinality(FinsOn(toGuest)) \in Nat
    BY FinsFinite DEF LinkTypes
  <1>4. PeerIsn + trial.peerBytes + MaxFins + 2 < SeqMod
    BY DEF NoWrap, LinkTypes
  <1>5. Counted \in Int /\ Counted + 1 <= MaxFins
    BY <1>1, <1>2, <1>3
  <1>6. cb.rcvNxt = PeerIsn + 1 + Arrived + Counted /\ Arrived <= trial.peerBytes
    BY <1>1, <1>2, <1>5
  <1>7. cb.rcvNxt <= PeerIsn + trial.peerBytes + MaxFins
    BY <1>2, <1>5, <1>6
  <1>8. cb.rcvNxt + 1 < SeqMod
    BY <1>2, <1>4, <1>7
  <1> QED BY <1>2, <1>8, NoWrapPlus

(* The peer's half of the invariant after it. *)
LEMMA StreamInFlow ==
  ASSUME LinkTypes, Numbers, Numbers', NEW b \in Nat, Flow(b), NoWrap,
         NEW seg \in Segment, StreamMoves(seg), PeerStands, got' = got,
         toGuest' \in Seq(Segment),
         \A g \in Segment : Carries(toGuest', g) => Carries(toGuest, g),
         Cardinality(FinsOn(toGuest')) + One("FIN" \in seg.flags)
           <= Cardinality(FinsOn(toGuest)),
         seg.data # <<>> => InBytes(seg.seq, seg.data),
         "FIN" \in seg.flags => seg.data = <<>> /\ peer.finAt # 0
  PROVE  /\ PeerSide' /\ InFlow' /\ FinBudget' /\ InWire(b)'
         /\ cb.rcvNxt <= RcvAfterData(seg) /\ cb.rcvNxt <= cb'.rcvNxt
         /\ RcvAfterData(seg) \in Nat
  <1>1. /\ cb.state \in Streaming /\ cb'.state \in Streaming /\ Opened /\ Opened'
        /\ cb'.rcvNxt = IF "FIN" \in seg.flags THEN Plus(RcvAfterData(seg), 1)
                                               ELSE RcvAfterData(seg)
        /\ rx' = rx \o SubSeq(seg.data, 1, Taken(seg))
        /\ IF "FIN" \in seg.flags THEN SawFin' ELSE SawFin' <=> SawFin
    BY DEF StreamMoves, Streaming, Opened, SawFin
  <1>2. /\ peer' = peer /\ peerGot' = peerGot /\ trial' = trial /\ (Heard' <=> Heard)
    BY DEF PeerStands, Heard
  <1>3. PICK t \in Nat :
          /\ t = Taken(seg)
          /\ RcvAfterData(seg) = cb.rcvNxt + t
          /\ t # 0 => ~SawFin /\ peer.finAt = 0 /\ Arrived + t + 1 <= peer.nxt
          /\ Len(rx') = Len(rx) + t
          /\ Run(rx', Len(got))
          /\ seg.data = <<>> => t = 0
    BY <1>1, StreamInOrder
  <1>4. /\ cb.rcvNxt \in Nat /\ PeerIsn \in Nat /\ Arrived \in Nat /\ Arrived' \in Nat
        /\ peer.nxt \in Nat /\ peer.finAt \in Nat /\ peer.una \in Nat /\ peer.fins \in Nat
        /\ Len(rx) \in Nat /\ Len(got) \in Nat /\ cb'.rcvNxt \in Nat
    BY DEF Numbers
  <1>5. Arrived' = Arrived + t
    BY <1>3, <1>4 DEF Arrived
  <1>6. /\ ~SawFin => /\ cb.rcvNxt = PeerIsn + 1 + Arrived
                      /\ Arrived + 1 <= peer.nxt /\ peer.una <= Arrived + 1
        /\ SawFin => peer.finAt # 0 /\ cb.rcvNxt >= PeerIsn + 2 + Arrived
        /\ peer.finAt = 0 => peer.nxt <= trial.peerBytes + 1
        /\ peer.finAt # 0 => /\ peer.finAt = Arrived + 1 /\ peer.nxt = peer.finAt + 1
                             /\ peer.finAt <= trial.peerBytes + 1
        /\ Run(got, 0)
    BY <1>1 DEF Flow, InFlow
  <1>7. /\ Cardinality(FinsOn(toGuest)) + Counted <= peer.fins /\ peer.fins <= MaxFins
        /\ Counted = cb.rcvNxt - (PeerIsn + 1 + Arrived)
        /\ Counted' = cb'.rcvNxt - (PeerIsn + 1 + Arrived')
    BY <1>1 DEF Flow, FinBudget, Counted
  <1>8. /\ Cardinality(FinsOn(toGuest)) \in Nat /\ Cardinality(FinsOn(toGuest')) \in Nat
        /\ toGuest \in Seq(Segment)
    BY FinsFinite DEF LinkTypes
  <1>9. cb'.rcvNxt = cb.rcvNxt + t + One("FIN" \in seg.flags)
    <2>1. CASE "FIN" \in seg.flags
      <3>1. t = 0 /\ RcvAfterData(seg) = cb.rcvNxt
        BY <1>3, <1>4, <2>1
      <3>2. Cardinality(FinsOn(toGuest)) >= 1
        BY <1>8, <2>1 DEF One
      <3>3. Plus(cb.rcvNxt, 1) = cb.rcvNxt + 1
        BY <1>1, <2>1, <3>2, FinFits
      <3>4. cb'.rcvNxt = cb.rcvNxt + 1
        BY <1>1, <2>1, <3>1, <3>3
      <3> QED BY <1>4, <2>1, <3>1, <3>4 DEF One
    <2>2. CASE "FIN" \notin seg.flags
      <3>1. cb'.rcvNxt = cb.rcvNxt + t
        BY <1>1, <1>3, <2>2
      <3> QED BY <1>4, <2>2, <3>1 DEF One
    <2> QED BY <2>1, <2>2
  <1>10. PICK f \in Nat : f = One("FIN" \in seg.flags)
    BY DEF One
  <1>11. PeerSide'
    BY <1>1, <1>2 DEF Flow, PeerSide
  <1>12. FinBudget'
    <2>1. Counted' = Counted + f /\ Counted \in Int
      <3>1. cb'.rcvNxt = cb.rcvNxt + t + f
        BY <1>9, <1>10
      <3>2. Counted' = (cb.rcvNxt + t + f) - (PeerIsn + 1 + (Arrived + t))
        BY <1>5, <1>7, <3>1
      <3>3. Counted = cb.rcvNxt - (PeerIsn + 1 + Arrived)
        BY <1>7
      <3>4. (cb.rcvNxt + t + f) - (PeerIsn + 1 + (Arrived + t))
              = (cb.rcvNxt - (PeerIsn + 1 + Arrived)) + f
        BY <1>4, SMTT(20)
      <3>5. Counted \in Int
        BY <1>4, <3>3
      <3> QED BY <3>2, <3>3, <3>4, <3>5
    <2>2. Cardinality(FinsOn(toGuest')) + Counted' <= peer'.fins /\ peer'.fins <= MaxFins
      <3>1. Cardinality(FinsOn(toGuest')) + f <= Cardinality(FinsOn(toGuest))
        BY <1>10
      <3>2. Cardinality(FinsOn(toGuest')) + (Counted + f) <= peer.fins
        <4>1. Cardinality(FinsOn(toGuest)) + Counted <= peer.fins
          BY <1>7
        <4> QED BY <1>4, <1>8, <2>1, <3>1, <4>1, SMTT(20)
      <3> QED BY <1>2, <1>7, <2>1, <3>2
    <2>3. Cardinality(FinsOn(toGuest))' = Cardinality(FinsOn(toGuest'))
      BY DEF FinsOn
    <2> QED BY <2>2, <2>3 DEF FinBudget
  <1>13. InFlow'
    <2>1. Run(got, 0)' /\ Run(rx, Len(got))'
      BY <1>3, <1>6 DEF Run
    <2>2. ASSUME ~SawFin'
          PROVE  /\ cb'.rcvNxt = PeerIsn + 1 + Arrived'
                 /\ Arrived' + 1 <= peer'.nxt /\ peer'.una <= Arrived' + 1
      <3>1. ~SawFin /\ "FIN" \notin seg.flags
        BY <1>1, <2>2
      <3>2. cb.rcvNxt = PeerIsn + 1 + Arrived /\ Arrived + 1 <= peer.nxt
            /\ peer.una <= Arrived + 1 /\ f = 0
        BY <1>6, <1>10, <3>1 DEF One
      <3>3. cb'.rcvNxt = cb.rcvNxt + t
        BY <1>4, <1>9, <1>10, <3>2
      <3>4. Arrived + t + 1 <= peer.nxt
        BY <1>3, <1>4, <3>2
      <3> QED BY <1>2, <1>4, <1>5, <3>2, <3>3, <3>4
    <2>3. ASSUME SawFin' PROVE peer'.finAt # 0 /\ cb'.rcvNxt >= PeerIsn + 2 + Arrived'
      <3>1. peer.finAt # 0 /\ t = 0
        BY <1>1, <1>3, <1>6, <2>3
      <3>2. CASE SawFin
        BY <1>2, <1>4, <1>5, <1>6, <1>9, <1>10, <3>1, <3>2
      <3>3. CASE ~SawFin
        <4>1. "FIN" \in seg.flags /\ cb.rcvNxt = PeerIsn + 1 + Arrived
          BY <1>1, <1>6, <2>3, <3>3
        <4>2. cb'.rcvNxt = cb.rcvNxt + 1
          BY <1>4, <1>9, <3>1, <4>1 DEF One
        <4> QED BY <1>2, <1>4, <1>5, <3>1, <4>1, <4>2
      <3> QED BY <3>2, <3>3
    <2>4. peer'.finAt = 0 => peer'.nxt <= trial'.peerBytes + 1
      BY <1>2, <1>6
    <2>5. peer'.finAt # 0 => /\ peer'.finAt = Arrived' + 1 /\ peer'.nxt = peer'.finAt + 1
                             /\ peer'.finAt <= trial'.peerBytes + 1
      <3>1. peer.finAt # 0 => Arrived' = Arrived
        BY <1>3, <1>4, <1>5
      <3> QED BY <1>2, <1>6, <3>1
    <2> QED BY <2>1, <2>2, <2>3, <2>4, <2>5 DEF InFlow
  <1>14. InWire(b)'
    <2>1. InGrows
      <3>1. peer.rcvNxt \in Nat /\ peer.nxt \in Nat
        BY DEF Numbers
      <3> QED BY <1>1, <1>2, <3>1 DEF InGrows
    <2> QED BY <2>1, InWireKept DEF Flow
  <1>15. RcvAfterData(seg) \in Nat /\ cb.rcvNxt <= RcvAfterData(seg) /\ cb.rcvNxt <= cb'.rcvNxt
    <2>1. RcvAfterData(seg) = cb.rcvNxt + t /\ cb'.rcvNxt = cb.rcvNxt + t + f
      BY <1>3, <1>9, <1>10
    <2> QED BY <1>4, <2>1, SMTT(20)
  <1> QED BY <1>11, <1>12, <1>13, <1>14, <1>15
(* A segment with nothing for the stream. *)
LEMMA StreamIdleFlow ==
  ASSUME LinkTypes, Numbers, Numbers', NEW b \in Nat, Flow(b), NEW seg \in Segment,
         StreamMoves(seg), StreamAnswers(seg),
         seg.data = <<>>, "FIN" \notin seg.flags, ~NewAck(seg),
         PeerStands, Drained, got' = got
  PROVE  Flow(b)'
  <1>1. ~Releases(seg)
    BY DEF Releases
  <1>2. Taken(seg) = 0 /\ RcvAfterData(seg) = cb.rcvNxt
    <2>1. Len(seg.data) = 0 /\ BufSize - Len(rx) >= 0
      BY EmptySeq, CbTypes DEF RxRingSound, Numbers
    <2>2. Taken(seg) = 0
      BY <2>1 DEF Taken, AtMost, Numbers
    <2>3. cb.rcvNxt \in Nat /\ cb.rcvNxt + 0 < SeqMod
      BY CbTypes, NumAssumption DEF SeqNum
    <2>4. Plus(cb.rcvNxt, 0) = cb.rcvNxt
      BY <2>3, NoWrapPlus
    <2> QED BY <2>2, <2>4 DEF RcvAfterData
  <1>3. /\ cb'.state = cb.state /\ cb'.sndUna = cb.sndUna /\ cb'.sndNxt = cb.sndNxt
        /\ cb'.rcvNxt = cb.rcvNxt /\ cb'.retxBuf = cb.retxBuf /\ cb'.retxSeq = cb.retxSeq
        /\ cb'.finSent = cb.finSent /\ (cb.peerMacKnown => cb'.peerMacKnown)
        /\ reg'.txRd = reg.txRd /\ reg'.txWr = reg.txWr
        /\ cb.state \in Streaming
    BY <1>1, <1>2 DEF StreamMoves
  <1>4. rx' = rx
    <2>1. SubSeq(seg.data, 1, 0) = <<>>
      OBVIOUS
    <2>2. rx \o <<>> = rx
      BY DEF Numbers
    <2> QED BY <1>2, <2>1, <2>2 DEF StreamMoves
  <1>5. cb'.peerMacKnown = cb.peerMacKnown \/ (cb.state \in Streaming /\ cb'.peerMacKnown)
    <2>1. cb.peerMacKnown
      BY <1>3 DEF Flow, Opening
    <2> QED BY <1>3, <2>1
  <1>6. \A g \in Segment : Carries(toPeer', g) => Carries(toPeer, g) \/ OutSeg(b, g)'
    BY DEF StreamAnswers
  <1> QED BY <1>3, <1>4, <1>5, <1>6, GuestSameFlow

(* A segment of the open stream, taken by a connection that stays up.      *)
LEMMA RecvStreamFlow ==
  ASSUME LinkTypes, Numbers, Numbers', NEW b \in Nat, Flow(b), NoWrap,
         NEW seg \in Segment, InSeg(b, seg), RecvStream(seg), cb'.active,
         PeerStands, Drained, got' = got,
         Cardinality(FinsOn(toGuest')) + One("FIN" \in seg.flags)
           <= Cardinality(FinsOn(toGuest))
  PROVE  Flow(b)'
  <1>1. StreamMoves(seg) /\ StreamAnswers(seg)
    BY StreamStep
  <1>2. /\ cb.state \in Streaming /\ cb'.state \in Streaming /\ "RST" \notin seg.flags
        /\ Opened /\ Opened'
    BY <1>1 DEF StreamMoves, Streaming, RecvStream, Opened
  <1>3. CASE seg.flags = {"SYN"} /\ seg.data = <<>>
    <2>1. "FIN" \notin seg.flags /\ ~NewAck(seg)
      BY <1>3 DEF NewAck
    <2> QED BY <1>1, <1>3, <2>1, StreamIdleFlow
  <1>4. CASE seg.flags = {"SYN", "ACK"} /\ seg.data = <<>> /\ seg.ack = b
    <2>1. b <= cb.sndUna /\ cb.sndUna \in Nat
      BY <1>2 DEF Flow, OutFlow, Numbers
    <2>2. "FIN" \notin seg.flags /\ ~NewAck(seg)
      BY <1>4, <2>1 DEF NewAck
    <2> QED BY <1>1, <1>4, <2>2, StreamIdleFlow
  <1>5. CASE /\ seg.flags \in {{"ACK"}, {"FIN", "ACK"}}
             /\ Heard /\ Opened /\ b <= seg.ack /\ seg.ack <= peer.rcvNxt
             /\ "FIN" \in seg.flags => seg.data = <<>> /\ peer.finAt # 0
             /\ seg.data # <<>> => InBytes(seg.seq, seg.data)
    <2>1. OutFlow(b)' /\ Kept(b)'
      BY <1>1, <1>5, StreamOutFlow
    <2>2. /\ PeerSide' /\ InFlow' /\ FinBudget' /\ InWire(b)'
          /\ cb.rcvNxt <= RcvAfterData(seg) /\ cb.rcvNxt <= cb'.rcvNxt
          /\ RcvAfterData(seg) \in Nat
      BY <1>1, <1>5, StreamInFlow DEF Drained
    <2>3. Heard /\ Heard' /\ trial' = trial /\ peerGot' = peerGot
      BY <1>5 DEF PeerStands, Heard
    <2>4. Fits(b)' /\ Quiet' /\ Opening(b)'
      <3>1. cb'.peerMacKnown /\ ~Silent'
        BY <1>1, <1>2 DEF StreamMoves, Flow, Opening, Silent, Streaming
      <3>2. cb'.state # "SYNSENT" /\ cb'.state # "SYNRECV"
        BY <1>2 DEF Streaming
      <3> QED BY <1>2, <2>3, <3>1, <3>2 DEF Flow, Fits, Quiet, Opening
    <2>5. OutWire(b)'
      <3>1. OutGrows
        <4>1. SawFin => SawFin'
          BY <1>1 DEF StreamMoves, SawFin
        <4>2. /\ cb'.sndNxt = cb.sndNxt /\ cb'.finSent = cb.finSent
              /\ reg'.txWr = reg.txWr
          BY <1>1 DEF StreamMoves
        <4>3. cb.sndNxt \in Nat /\ Len(peerGot) \in Nat /\ reg.txWr \in Nat
          BY DEF Numbers
        <4>4. ~Silent'
          BY <1>2 DEF Silent, Streaming
        <4> QED BY <1>2, <2>2, <2>3, <4>1, <4>2, <4>3, <4>4 DEF OutGrows
      <3>2. ASSUME NEW g \in Segment, g.flags = {"ACK"}, g.data = <<>>,
                   g.ack \in {RcvAfterData(seg), cb'.rcvNxt}
            PROVE  OutSeg(b, g)'
        <4>1. ~SawFin' => PeerIsn + 1 <= g.ack /\ g.ack <= cb'.rcvNxt
          <5>1. SUFFICES ASSUME ~SawFin' PROVE PeerIsn + 1 <= g.ack /\ g.ack <= cb'.rcvNxt
            OBVIOUS
          <5>2. "FIN" \notin seg.flags /\ ~SawFin
            BY <1>1, <5>1 DEF StreamMoves, SawFin
          <5>3. g.ack = cb'.rcvNxt
            BY <1>1, <3>2, <5>2 DEF StreamMoves
          <5>4. cb.rcvNxt = PeerIsn + 1 + Arrived
            BY <1>2, <5>2 DEF Flow, InFlow
          <5>5. /\ cb.rcvNxt \in Nat /\ cb'.rcvNxt \in Nat /\ PeerIsn \in Nat
                /\ Arrived \in Nat
            BY DEF Numbers
          <5> QED BY <2>2, <5>3, <5>4, <5>5
        <4>2. "FIN" \notin g.flags /\ g.flags \in {{"ACK"}, {"FIN", "ACK"}}
          BY <3>2
        <4> QED BY <1>2, <3>2, <4>1, <4>2 DEF OutSeg
      <3>3. \A g \in Segment : Carries(toPeer', g) => Carries(toPeer, g) \/ OutSeg(b, g)'
        BY <1>1, <3>2 DEF StreamAnswers
      <3> QED BY <3>1, <3>3, OutWireKept DEF Flow
    <2> QED BY <2>1, <2>2, <2>4, <2>5 DEF Flow
  <1>6. "RST" \notin seg.flags
    BY <1>2
  <1> QED BY <1>3, <1>4, <1>5, <1>6 DEF InSeg
(* A segment is handled by a connection that stays up. *)
LEMMA GuestReceivesFlow ==
  ASSUME LinkTypes, LinkTypes', NEW b \in Nat, Flow(b), NoWrap, TxMayFail = FALSE,
         GuestReceives, cb'.active
  PROVE  \E c \in Nat : Flow(c)'
  <1>1. Numbers /\ Numbers'
    BY LinkNumbers, LinkNumbersNext
  <1>2. toGuest \in Seq(Segment)
    BY DEF LinkTypes
  <1>3. PICK i \in InFlight(toGuest) :
           handle_tcp(toGuest[i]) /\ toGuest' \in Received(toGuest, i)
    BY DEF GuestReceives
  <1>4. /\ toGuest[i] \in Segment /\ Carries(toGuest, toGuest[i])
        /\ toGuest' \in Seq(Segment)
        /\ \A g : Carries(toGuest', g) => Carries(toGuest, g)
        /\ Cardinality(FinsOn(toGuest')) + One("FIN" \in toGuest[i].flags)
             <= Cardinality(FinsOn(toGuest))
    BY <1>2, <1>3, FromToGuest
  <1>5. PICK seg \in Segment : seg = toGuest[i]
    BY <1>4
  <1>6. /\ handle_tcp(seg) /\ InSeg(b, seg)
        /\ Cardinality(FinsOn(toGuest')) + One("FIN" \in seg.flags)
             <= Cardinality(FinsOn(toGuest))
    BY <1>3, <1>4, <1>5 DEF Flow, InWire
  <1>7. PeerStands /\ got' = got
    BY DEF GuestReceives, PeerStands
  <1>8. Drained
    <2>1. /\ Cardinality(FinsOn(toGuest)) \in Nat /\ Cardinality(FinsOn(toGuest')) \in Nat
      BY <1>2, <1>4, FinsFinite
    <2>2. Cardinality(FinsOn(toGuest')) <= Cardinality(FinsOn(toGuest))
      BY <1>6, <2>1 DEF One
    <2> QED BY <1>4, <2>2 DEF Drained
  <1>9. cb \in TcpCb
    BY CbTypes
  <1>10. CASE RecvStream(seg)
    <2>1. Flow(b)'
      BY <1>1, <1>6, <1>7, <1>8, <1>10, RecvStreamFlow
    <2> QED BY <2>1
  <1>11. CASE ~RecvStream(seg)
    <2>1. /\ rx' = rx
          /\ \/ RecvStray(seg) \/ RecvRst(seg) \/ RecvListen(seg)
             \/ RecvSynSent(seg) \/ RecvSynRecv(seg)
      BY <1>6, <1>11 DEF handle_tcp
    <2>2. CASE RecvRst(seg)
      <3>1. ~cb'.active
        BY <1>9, <2>2 DEF RecvRst, TcpCb
      <3> QED BY <3>1
    <2>3. CASE cb' = cb /\ reg' = reg /\ (toPeer' = toPeer \/ RecvStray(seg))
      <3>1. Flow(b)'
        BY <1>1, <1>7, <1>8, <2>1, <2>3, RecvOtherFlow
      <3> QED BY <3>1
    <2>4. CASE RecvStray(seg)
      <3>1. cb' = cb /\ reg' = reg
        BY <2>4 DEF RecvStray
      <3> QED BY <2>3, <2>4, <3>1
    <2>5. CASE RecvListen(seg)
      <3>1. CASE "SYN" \in seg.flags
        BY <1>1, <1>6, <1>7, <1>8, <2>1, <2>5, <3>1, RecvListenFlow
      <3>2. CASE "SYN" \notin seg.flags
        <4>1. cb' = cb /\ reg' = reg /\ toPeer' = toPeer
          BY <2>5, <3>2 DEF RecvListen
        <4> QED BY <2>3, <4>1
      <3> QED BY <3>1, <3>2
    <2>6. CASE RecvSynSent(seg)
      <3>1. CASE "SYN" \in seg.flags
        BY <1>1, <1>6, <1>7, <1>8, <2>1, <2>6, <3>1, RecvSynSentFlow
      <3>2. CASE "SYN" \notin seg.flags
        <4>1. cb' = cb /\ reg' = reg /\ toPeer' = toPeer
          BY <2>6, <3>2 DEF RecvSynSent
        <4> QED BY <2>3, <4>1
      <3> QED BY <3>1, <3>2
    <2>7. CASE RecvSynRecv(seg)
      <3>1. CASE "ACK" \in seg.flags /\ seg.ack = cb.sndNxt
        <4>1. Flow(b)'
          BY <1>1, <1>6, <1>7, <1>8, <2>1, <2>7, <3>1, RecvSynRecvFlow
        <4> QED BY <4>1
      <3>2. CASE ~("ACK" \in seg.flags /\ seg.ack = cb.sndNxt)
        <4>1. cb' = cb /\ reg' = reg /\ toPeer' = toPeer
          BY <2>7, <3>2 DEF RecvSynRecv
        <4> QED BY <2>3, <4>1
      <3> QED BY <3>1, <3>2
    <2> QED BY <2>1, <2>2, <2>4, <2>5, <2>6, <2>7
  <1> QED BY <1>10, <1>11
-----------------------------------------------------------------------------
(* The guest's steps keep the types *)

(* The socket's invariant and those of the bytes and segments around it.   *)
LEMMA GuestActsTypes ==
  ASSUME LinkTypes, SendInv', peer' = peer, peerGot' = peerGot, trial' = trial,
         got' \in Seq(Nat), toGuest' \in Seq(Segment)
  PROVE  LinkTypes'
  BY DEF LinkTypes

(* The driver's commands. *)
LEMMA CommandTypes ==
  ASSUME LinkTypes, WaitSendOk, GuestCommand, PeerStands, toGuest' = toGuest
  PROVE  LinkTypes'
  <1>1. Guest
    <2>1. reg.ir \cap {"SEND_OK"} \in SUBSET reg.ir
      OBVIOUS
    <2>2. CASE ClearIr(reg.ir \cap {"SEND_OK"})
      BY <2>1, <2>2 DEF Guest
    <2>3. CASE ~ClearIr(reg.ir \cap {"SEND_OK"})
      BY <2>3 DEF Guest, GuestCommand
    <2> QED BY <2>2, <2>3
  <1>2. SendInv'
    BY <1>1, NextSend DEF LinkTypes, Next
  <1>3. got' = got
    BY DEF GuestCommand
  <1> QED BY <1>2, <1>3, GuestActsTypes DEF LinkTypes, PeerStands

(* The driver's reads: they take bytes the ring has. *)
LEMMA ReadsTypes ==
  ASSUME LinkTypes, WaitSendOk, NEW n \in 1 .. BufSize, CmdRecv(n),
         got' = got \o SubSeq(rx, 1, n), PeerStands, toGuest' = toGuest
  PROVE  LinkTypes'
  <1>1. SendInv'
    BY NextSend DEF LinkTypes, Next, Guest
  <1>2. n \in 1 .. Len(rx) /\ rx \in Seq(Nat) /\ got \in Seq(Nat)
    BY CbTypes DEF CmdRecv, RxRingSound, LinkTypes, SendInv, StatusInv, TypeRx, TypeOK
  <1>3. SubSeq(rx, 1, n) \in Seq(Nat)
    BY <1>2
  <1>4. got' \in Seq(Nat)
    BY <1>2, <1>3
  <1> QED BY <1>1, <1>4, GuestActsTypes DEF LinkTypes, PeerStands

(* A segment the guest handles. *)
LEMMA GuestReceivesTypes ==
  ASSUME LinkTypes, GuestReceives
  PROVE  LinkTypes'
  <1>1. toGuest \in Seq(Segment) /\ SendInv /\ got \in Seq(Nat)
    BY DEF LinkTypes
  <1>2. PICK i \in InFlight(toGuest) :
          handle_tcp(toGuest[i]) /\ toGuest' \in Received(toGuest, i)
    BY DEF GuestReceives
  <1>3. toGuest[i] \in Segment /\ toGuest' \in Seq(Segment)
    BY <1>1, <1>2, FromToGuest
  <1>4. SendInv'
    BY <1>1, <1>2, <1>3, HandlerTypeRx, HandlerStatus, HandlerSend
       DEF SendInv, StatusInv
  <1> QED BY <1>1, <1>3, <1>4, GuestActsTypes DEF GuestReceives

(* The timer, and the ARP cache. *)
LEMMA PollTypes ==
  ASSUME LinkTypes, WaitSendOk, tcp_tick \/ ArpLearn \/ ArpExpire,
         PeerStands, toGuest' = toGuest, got' = got
  PROVE  LinkTypes'
  <1>1. SendInv'
    BY NextSend DEF LinkTypes, Next
  <1> QED BY <1>1, GuestActsTypes DEF LinkTypes, PeerStands

-----------------------------------------------------------------------------
(* The invariant *)

(* A socket just OPENed, a peer that has sent nothing, two empty wires:    *)
(* any first sequence number that leaves room will do.                     *)
LEMMA InitTypes == LinkInit => LinkTypes
  <1> SUFFICES ASSUME LinkInit PROVE LinkTypes
    OBVIOUS
  <1>1. 0 \in SeqNum /\ BufSize \in Nat
    BY NumAssumption DEF SeqNum
  <1>2. cb \in TcpCb
    BY ClearedType DEF LinkInit, TcpCb, SockStatus
  <1>3. /\ cb.active /\ cb.state = "INIT" /\ cb.retxBuf = <<>>
        /\ cb.retxBuf \in Seq(Nat) /\ Len(cb.retxBuf) = 0
    BY EmptySeq DEF LinkInit, ClearedCb
  <1>4. /\ reg.sr = "INIT" /\ reg.rxRsr = 0 /\ reg.txRd = 0 /\ reg.txWr = 0
        /\ reg.txFsr = BufSize /\ reg.ir = {}
    BY DEF LinkInit, ClearedRegs
  <1>5. reg \in SockRegs
    <2>1. reg = [ClearedRegs EXCEPT !.sr = "INIT", !.txFsr = BufSize]
      BY DEF LinkInit
    <2>2. BufSize \in Int /\ "INIT" \in SockStatus
      BY <1>1 DEF SockStatus
    <2> QED BY <2>1, <2>2, ClearedType DEF SockRegs
  <1>6. /\ rx = <<>> /\ toPeer = <<>> /\ toGuest = <<>> /\ got = <<>> /\ peerGot = <<>>
        /\ arp \in BOOLEAN /\ await \in BOOLEAN /\ polling \in BOOLEAN
        /\ trial \in Trials
    BY DEF LinkInit
  <1>7. TypeOK
    BY <1>2, <1>5, <1>6, EmptySeq DEF TypeOK
  <1>8. RxRingSound
    BY <1>1, <1>4, <1>6, EmptySeq DEF RxRingSound
  <1>9. StatusMirrorsStack /\ SendOkMeansAcked
    BY <1>3, <1>4 DEF StatusMirrorsStack, SendOkMeansAcked
  <1>10. TxRingSound
    BY <1>1, <1>3, <1>4 DEF TxRingSound
  <1>11. peer \in PeerCb
    <2>1. peer = [st |-> IF trial.opener = "guest" THEN "listen" ELSE "connect",
                  una |-> 0, nxt |-> 0, finAt |-> 0, fins |-> 0,
                  rcvNxt |-> 0, finRcvd |-> FALSE]
      BY DEF LinkInit
    <2> QED BY <1>1, <2>1 DEF PeerCb, PeerStates
  <1> QED BY <1>6, <1>7, <1>8, <1>9, <1>10, <1>11, EmptySeq
          DEF LinkTypes, SendInv, StatusInv, TypeRx

LEMMA InitFlow ==
  ASSUME LinkInit, NoWrap
  PROVE  Flow(1)
  <1>1. LinkTypes /\ Numbers
    BY InitTypes, LinkNumbers
  <1>2. /\ cb.state = "INIT" /\ cb.retxBuf = <<>> /\ ~cb.finSent
        /\ reg.txRd = 0 /\ reg.txWr = 0
    BY DEF LinkInit, ClearedCb, ClearedRegs
  <1>3. /\ peer.st = IF trial.opener = "guest" THEN "listen" ELSE "connect"
        /\ peer.una = 0 /\ peer.nxt = 0 /\ peer.finAt = 0 /\ peer.fins = 0
        /\ peer.rcvNxt = 0 /\ peer.finRcvd = FALSE
    BY DEF LinkInit
  <1>4. /\ toPeer = <<>> /\ toGuest = <<>> /\ rx = <<>> /\ got = <<>> /\ peerGot = <<>>
    BY DEF LinkInit
  <1>5. Len(rx) = 0 /\ Len(got) = 0 /\ Len(peerGot) = 0 /\ Arrived = 0
    BY <1>4, EmptySeq DEF Arrived
  <1>6. /\ trial.guestBytes \in Nat /\ trial.peerBytes \in Nat /\ MaxFins \in Nat
        /\ trial.opener \in {"guest", "peer"}
    BY <1>1 DEF Numbers
  <1>7. Fits(1)
    <2>1. 0 + trial.guestBytes + 3 < SeqMod /\ SeqMod \in Nat
      BY <1>1 DEF NoWrap, LinkTypes, Numbers
    <2> QED BY <1>6, <2>1 DEF Fits
  <1>8. Quiet /\ Opening(1) /\ PeerSide
    BY <1>2, <1>3, <1>5, <1>6 DEF Quiet, Opening, PeerSide, Heard, Streaming
  <1>9. OutFlow(1) /\ Kept(1)
    BY <1>2, <1>3, <1>5, <1>6 DEF OutFlow, Kept, Heard, Streaming, Run
  <1>10. InFlow
    BY <1>2, <1>3, <1>5, <1>6 DEF InFlow, Opened, SawFin, Streaming, Run
  <1>11. \A w, g : w = <<>> => ~Carries(w, g)
    BY EmptySeq DEF Carries
  <1>12. OutWire(1) /\ InWire(1)
    BY <1>4, <1>11 DEF OutWire, InWire
  <1>13. FinBudget
    <2>1. FinsOn(toGuest) = {}
      BY <1>4, EmptySeq DEF FinsOn
    <2>2. Cardinality(FinsOn(toGuest)) = 0
      BY <2>1, FS_EmptySet
    <2>3. Counted = 0
      BY <1>2 DEF Counted, Opened, Streaming
    <2> QED BY <1>3, <1>6, <2>2, <2>3 DEF FinBudget
  <1> QED BY <1>7, <1>8, <1>9, <1>10, <1>12, <1>13 DEF Flow

LEMMA InitLinkInv ==
  ASSUME NoWrap
  PROVE  LinkInit => LinkInv
  BY InitTypes, InitFlow DEF LinkInv

(* Every step of either end or of the wire keeps the invariant.            *)
LEMMA NextLinkInv ==
  ASSUME Orderly
  PROVE  LinkInv /\ [LinkNext]_linkVars => LinkInv'
  <1> SUFFICES ASSUME LinkInv, [LinkNext]_linkVars PROVE LinkInv'
    OBVIOUS
  <1>1. NoWrap /\ TxMayFail = FALSE /\ WaitSendOk /\ LinkTypes
    BY DEF Orderly, LinkInv
  <1>2. CASE UNCHANGED linkVars
    <2>1. LinkTypes'
      BY <1>1, <1>2, GuestKeepsTypes
         DEF linkVars, vars, GuestKeeps, LinkTypes, SendInv, StatusInv, TypeRx, TypeOK
    <2>2. ASSUME NEW b \in Nat, Flow(b) PROVE Flow(b)'
      <3>1. PeerStands /\ toGuest' = toGuest /\ got' = got /\ reg' = reg
        BY <1>2 DEF linkVars, vars, PeerStands
      <3>2. cb' = cb /\ rx' = rx /\ toPeer' = toPeer
        BY <1>2 DEF linkVars, vars
      <3>3. Numbers /\ Numbers'
        BY <1>1, <2>1, LinkNumbers, LinkNumbersNext
      <3> QED BY <1>1, <2>2, <3>1, <3>2, <3>3, AsideFlow
    <2>3. cb' = cb
      BY <1>2 DEF linkVars, vars
    <2> QED BY <2>1, <2>2, <2>3 DEF LinkInv
  <1>3. CASE LinkNext
    <2>1. PICK b \in Nat : Flow(b)
      BY <1>3 DEF LinkInv, LinkNext
    <2>2. cb.active /\ trial' = trial /\ trial.finWaits
      BY <1>1, <1>3 DEF LinkNext, Orderly, LinkTypes
    <2> SUFFICES LinkTypes' /\ (cb'.active => \E c \in Nat : Flow(c)')
      BY DEF LinkInv
    <2>3. Numbers /\ (LinkTypes' => Numbers')
      BY <1>1, LinkNumbers, LinkNumbersNext
    <2>4. CASE GuestCommand /\ UNCHANGED <<peer, peerGot, toGuest>>
      <3>1. PeerStands /\ toGuest' = toGuest
        BY <2>2, <2>4 DEF PeerStands
      <3>2. LinkTypes'
        BY <1>1, <2>4, <3>1, CommandTypes
      <3> QED BY <1>1, <2>1, <2>2, <2>3, <2>4, <3>1, <3>2, CommandFlow
    <2>5. CASE GuestReads /\ UNCHANGED <<peer, peerGot, toGuest>>
      <3>1. PeerStands /\ toGuest' = toGuest
        BY <2>2, <2>5 DEF PeerStands
      <3>2. PICK n \in 1 .. BufSize : CmdRecv(n) /\ got' = got \o SubSeq(rx, 1, n)
        BY <2>5 DEF GuestReads
      <3>3. LinkTypes'
        BY <1>1, <3>1, <3>2, ReadsTypes
      <3>4. Flow(b)'
        BY <1>1, <2>1, <2>3, <3>1, <3>2, <3>3, ReadsFlow
      <3> QED BY <3>3, <3>4
    <2>6. CASE GuestReceives
      <3>1. LinkTypes'
        BY <1>1, <2>6, GuestReceivesTypes
      <3> QED BY <1>1, <2>1, <2>6, <3>1, GuestReceivesFlow
    <2>7. CASE GuestTick
      <3>1. /\ tcp_tick /\ PeerStands /\ toGuest' = toGuest /\ got' = got
        BY <2>7 DEF GuestTick, PeerStands
      <3>2. LinkTypes'
        BY <1>1, <3>1, PollTypes
      <3>3. cb'.active => Flow(b)'
        BY <1>1, <2>1, <2>3, <3>1, <3>2, TickFlow
      <3> QED BY <3>2, <3>3
    <2>8. CASE GuestArp
      <3>1. /\ PeerStands /\ toGuest' = toGuest /\ got' = got
            /\ ArpLearn \/ ArpExpire
        BY <2>2, <2>8 DEF GuestArp, PeerStands
      <3>2. LinkTypes'
        BY <1>1, <3>1, PollTypes
      <3>3. cb' = cb /\ rx' = rx /\ toPeer' = toPeer /\ reg' = reg
        BY <3>1 DEF ArpLearn, ArpExpire
      <3>4. Flow(b)'
        BY <1>1, <2>1, <2>3, <3>1, <3>2, <3>3, AsideFlow
      <3> QED BY <3>2, <3>4
    <2>9. CASE (PeerSends \/ PeerDies) /\ UNCHANGED <<vars, got>>
      <3>1. GuestKeeps /\ toPeer' = toPeer
        BY <2>2, <2>9 DEF GuestKeeps, vars
      <3>2. LinkTypes'
        BY <1>1, <2>9, <3>1, PeerActsTypes
      <3>3. Flow(b)'
        BY <1>1, <2>1, <2>2, <2>9, <3>1, <3>2, PeerActsFlow
      <3> QED BY <3>2, <3>3
    <2>10. CASE PeerReceives /\ UNCHANGED <<cb, reg, rx, arp, await, polling, got>>
      <3>1. GuestKeeps
        BY <2>2, <2>10 DEF GuestKeeps
      <3>2. LinkTypes'
        BY <1>1, <2>10, <3>1, PeerReceivesTypes
      <3>3. Flow(b)'
        BY <1>1, <2>1, <2>10, <3>1, <3>2, PeerReceivesFlow
      <3> QED BY <3>2, <3>3
    <2>11. CASE WireLoses
      BY <1>1, <2>1, <2>2, <2>11, WireLosesKeeps
    <2> QED BY <1>3, <2>4, <2>5, <2>6, <2>7, <2>8, <2>9, <2>10, <2>11 DEF LinkNext
  <1> QED BY <1>2, <1>3
-----------------------------------------------------------------------------
(* Acknowledgements and the two ends *)

(* The peer never believes a byte arrived that the guest did not put in    *)
(* its RX ring, for any ring size, stream, faults of the wire and timing:  *)
(* an acknowledgement carries RCV.NXT, and RCV.NXT counts what was taken.  *)
THEOREM AcksFollowDelivery ==
  ASSUME Orderly
  PROVE  LinkSpec => []AckedBytesDelivered
  <1>1. LinkInv => AckedBytesDelivered
    <2> SUFFICES ASSUME LinkInv, cb.active
                 PROVE  (IF peer.finAt = 0 THEN peer.una ELSE AtMost(peer.una, peer.finAt))
                          <= Len(got) + Len(rx) + 1
      BY DEF AckedBytesDelivered
    <2>1. PICK b \in Nat : Flow(b)
      BY DEF LinkInv
    <2>2. /\ peer.una \in Nat /\ peer.finAt \in Nat /\ Len(got) \in Nat /\ Len(rx) \in Nat
      BY LinkNumbers DEF LinkInv, Numbers
    <2>3. CASE peer.finAt = 0
      <3>1. peer.una <= Arrived + 1
        BY <2>1, <2>3 DEF Flow, InFlow
      <3> QED BY <2>3, <3>1 DEF Arrived
    <2>4. CASE peer.finAt # 0
      <3>1. peer.finAt = Arrived + 1
        BY <2>1, <2>4 DEF Flow, InFlow
      <3> QED BY <2>2, <2>4, <3>1, AtMostType DEF Arrived
    <2> QED BY <2>3, <2>4
  <1>2. LinkInit => LinkInv
    BY InitLinkInv DEF Orderly
  <1>3. LinkInv /\ [LinkNext]_linkVars => LinkInv'
    BY NextLinkInv
  <1> QED BY <1>1, <1>2, <1>3, PTL DEF LinkSpec

(* TX_RD only passes bytes the peer has, so SEND_OK never frees the space  *)
(* of a byte that must still be sent again; and with both ends open each   *)
(* expects a sequence number the other has sent or is about to send.       *)
THEOREM EndsStayInStep ==
  ASSUME Orderly
  PROVE  LinkSpec => []EndsInStep
  <1>1. ASSUME LinkInv, cb.active, cb.state = "ESTABLISHED"
        PROVE  /\ reg.txRd <= Len(peerGot)
               /\ peer.st = "estab" =>
                    /\ PeerOff(cb.rcvNxt) \in peer.una .. peer.nxt
                    /\ (cb.sndNxt - peer.rcvNxt) % SeqMod <= (cb.sndNxt - cb.sndUna) % SeqMod
    <2>1. PICK b \in Nat : Flow(b)
      BY <1>1 DEF LinkInv
    <2>2. LinkTypes /\ Numbers
      BY <1>1, LinkNumbers DEF LinkInv
    <2>3. /\ peer.una \in Nat /\ peer.nxt \in Nat /\ Arrived \in Nat /\ PeerIsn \in Nat
          /\ cb.rcvNxt \in Nat /\ cb.sndNxt \in Nat /\ cb.sndUna \in Nat
          /\ peer.rcvNxt \in Nat /\ Len(peerGot) \in Nat /\ SeqMod \in Nat
      BY <2>2 DEF Numbers
    <2>4. cb.rcvNxt < SeqMod /\ cb.sndNxt < SeqMod
      BY <2>2, CbTypes, NumAssumption DEF SeqNum
    <2>5. cb.state \in Streaming /\ Opened /\ ~SawFin /\ ~cb.finSent
      BY <1>1, <2>1 DEF Flow, OutFlow, Opened, SawFin, Streaming
    <2>6. reg.txRd <= Len(peerGot)
      BY <1>1, <2>1 DEF Flow, OutFlow
    <2>7. PeerOff(cb.rcvNxt) \in peer.una .. peer.nxt
      <3>1. /\ cb.rcvNxt = PeerIsn + 1 + Arrived /\ Arrived + 1 <= peer.nxt
            /\ peer.una <= Arrived + 1
        BY <2>1, <2>5 DEF Flow, InFlow
      <3>2. PeerIsn <= cb.rcvNxt /\ cb.rcvNxt - PeerIsn = Arrived + 1
        BY <2>3, <3>1
      <3>3. PeerOff(cb.rcvNxt) = Arrived + 1
        BY <2>3, <2>4, <3>2, NoWrapLess DEF PeerOff
      <3> QED BY <2>3, <3>1, <3>3
    <2>8. (cb.sndNxt - peer.rcvNxt) % SeqMod <= (cb.sndNxt - cb.sndUna) % SeqMod
      <3>1. Heard /\ ~peer.finRcvd
        BY <2>1, <2>5 DEF Flow, Opening, OutFlow
      <3>2. /\ peer.rcvNxt = b + Len(peerGot) + One(peer.finRcvd)
            /\ cb.sndUna <= peer.rcvNxt /\ b + Len(peerGot) <= cb.sndNxt
        BY <2>1, <2>5, <3>1 DEF Flow, OutFlow
      <3>3. peer.rcvNxt <= cb.sndNxt /\ cb.sndUna <= cb.sndNxt
        BY <2>3, <3>1, <3>2 DEF One
      <3>4. /\ (cb.sndNxt - peer.rcvNxt) % SeqMod = cb.sndNxt - peer.rcvNxt
            /\ (cb.sndNxt - cb.sndUna) % SeqMod = cb.sndNxt - cb.sndUna
        BY <2>3, <2>4, <3>3, NoWrapLess
      <3> QED BY <2>3, <3>2, <3>4
    <2> QED BY <2>6, <2>7, <2>8
  <1>2. LinkInv => EndsInStep
    BY <1>1 DEF EndsInStep, FreedBytesArrived
  <1>3. LinkInit => LinkInv
    BY InitLinkInv DEF Orderly
  <1>4. LinkInv /\ [LinkNext]_linkVars => LinkInv'
    BY NextLinkInv
  <1> QED BY <1>2, <1>3, <1>4, PTL DEF LinkSpec
-----------------------------------------------------------------------------
(* Each direction is a pipe *)

(* What the guest's steps do to the bytes written and to those at the peer.*)
GuestSteps ==
  \/ (GuestCommand \/ GuestReads) /\ UNCHANGED <<peer, peerGot, toGuest>>
  \/ GuestReceives \/ GuestTick \/ GuestArp

LEMMA GuestWrites ==
  ASSUME LinkTypes, GuestSteps
  PROVE  /\ peer' = peer /\ peerGot' = peerGot
         /\ reg'.txWr \in Nat /\ reg'.txWr >= reg.txWr
         /\ got' = got \/ GuestReads
  <1>1. /\ StatusInv /\ cb \in TcpCb /\ reg \in SockRegs /\ reg.txWr \in Nat
        /\ toGuest \in Seq(Segment) /\ "CLOSED" \in SockStatus
    BY CbTypes, LinkNumbers DEF LinkTypes, SendInv, Numbers, SockStatus
  <1>2. CASE GuestCommand /\ UNCHANGED <<peer, peerGot, toGuest>>
    <2>1. CASE CmdListen \/ CmdConnect \/ ClearIr(reg.ir \cap {"SEND_OK"})
      <3>1. reg'.txWr = reg.txWr
        BY <1>1, <2>1 DEF CmdListen, CmdConnect, ClearIr, SockRegs
      <3> QED BY <1>1, <1>2, <3>1 DEF GuestCommand
    <2>2. CASE CmdDiscon
      <3> DEFINE next == IF cb.state = "ESTABLISHED" THEN "FIN_WAIT" ELSE "LAST_ACK"
      <3>1. reg' = stack_tcp_state(reg, next) /\ next \in SockStatus
        BY <2>2 DEF CmdDiscon, SockStatus
      <3> HIDE DEF next
      <3>2. reg'.txWr = reg.txWr
        BY <1>1, <3>1, StateCallbackType
      <3> QED BY <1>1, <1>2, <3>2 DEF GuestCommand
    <2>3. CASE CmdClose
      <3> DEFINE r == IF cb.active THEN stack_tcp_state(reg, "CLOSED") ELSE reg
      <3>1. r \in SockRegs /\ r.txWr = reg.txWr
        BY <1>1, StateCallbackType
      <3>2. reg' = [r EXCEPT !.sr = "CLOSED", !.rxRsr = 0, !.txFsr = 0]
        BY <2>3 DEF CmdClose
      <3> HIDE DEF r
      <3>3. reg'.txWr = reg.txWr
        BY <3>1, <3>2 DEF SockRegs
      <3> QED BY <1>1, <1>2, <3>3 DEF GuestCommand
    <2>4. ASSUME NEW n \in 0 .. MaxBytes, CmdSend(n)
          PROVE  reg'.txWr \in Nat /\ reg'.txWr >= reg.txWr
      <3>1. reg'.txWr = reg.txWr + n
        BY <1>1, <2>4 DEF CmdSend, SockRegs
      <3> QED BY <1>1, <3>1, NumAssumption
    <2> QED BY <1>2, <2>1, <2>2, <2>3, <2>4 DEF GuestCommand
  <1>3. CASE GuestReads /\ UNCHANGED <<peer, peerGot, toGuest>>
    <2>1. reg'.txWr = reg.txWr
      BY <1>1, <1>3 DEF GuestReads, CmdRecv, SockRegs
    <2> QED BY <1>1, <1>3, <2>1
  <1>4. CASE GuestReceives
    <2>1. PICK i \in InFlight(toGuest) :
            handle_tcp(toGuest[i]) /\ toGuest' \in Received(toGuest, i)
      BY <1>4 DEF GuestReceives
    <2>2. toGuest[i] \in Segment
      BY <1>1, <2>1, FromToGuest
    <2>3. reg'.txWr = reg.txWr
      BY <1>1, <2>1, <2>2, StreamEffect, HandshakeEffect DEF handle_tcp
    <2> QED BY <1>1, <1>4, <2>3 DEF GuestReceives
  <1>5. CASE GuestTick
    <2>1. CASE TickGiveUp
      BY <1>1, <1>5, <2>1, StateCallbackType DEF TickGiveUp, GuestTick
    <2>2. CASE ~TickGiveUp
      <3>1. reg' = reg
        BY <1>5, <2>2 DEF GuestTick, tcp_tick, TickWait, TickSyn, TickData, TickIdle
      <3> QED BY <1>1, <1>5, <3>1 DEF GuestTick
    <2> QED BY <2>1, <2>2
  <1>6. CASE GuestArp
    BY <1>1, <1>6 DEF GuestArp, ArpLearn, ArpExpire
  <1> QED BY <1>2, <1>3, <1>4, <1>5, <1>6 DEF GuestSteps

(* What the peer's steps do to the bytes it wrote and to those it has.     *)
PeerSteps ==
  \/ (PeerSends \/ PeerDies) /\ UNCHANGED <<vars, got>>
  \/ PeerReceives /\ UNCHANGED <<cb, reg, rx, arp, await, polling, got>>

LEMMA PeerWrittenType == Numbers => PeerWritten \in Nat
  <1> SUFFICES ASSUME Numbers PROVE PeerWritten \in Nat
    OBVIOUS
  <1>1. peer.nxt \in Nat /\ peer.finAt \in Nat
    BY DEF Numbers
  <1> QED BY <1>1 DEF PeerWritten

LEMMA PeerWrites ==
  ASSUME LinkTypes, NEW b \in Nat, Flow(b), PeerSteps
  PROVE  PeerWritten' \in Nat /\ PeerWritten' >= PeerWritten
  <1>1. /\ peer \in PeerCb /\ peer.nxt \in Nat /\ peer.una \in Nat /\ peer.finAt \in Nat
        /\ peer.una <= peer.nxt
    BY LinkNumbers DEF LinkTypes, Numbers, Flow, PeerSide
  <1>2. peer.st \in {"listen", "connect", "synsent", "synrcvd"} =>
          peer.finAt = 0 /\ peer.nxt \in {0, 1}
    BY DEF Flow, PeerSide
  <1>3. peer.st = "estab" => peer.nxt >= 1
    BY <1>1 DEF Flow, PeerSide
  <1>4. CASE peer'.nxt = peer.nxt /\ peer'.finAt = peer.finAt
    BY <1>1, <1>4 DEF PeerWritten
  <1>5. CASE PeerSyn
    <2>1. peer'.nxt = 1 /\ peer'.finAt = peer.finAt
      BY <1>1, <1>5, PeerSynEffect DEF PeerCb
    <2>2. peer.finAt = 0 /\ peer.nxt \in {0, 1}
      BY <1>2, <1>5 DEF PeerSyn
    <2> QED BY <2>1, <2>2 DEF PeerWritten
  <1>6. CASE PeerData
    <2>1. PICK off \in Nat, n \in Nat : peer' = [peer EXCEPT !.nxt = Later(peer.nxt, off + n)]
      BY <1>6, PeerDataEffect
    <2>2. peer'.finAt = peer.finAt /\ peer'.nxt = Later(peer.nxt, off + n)
      BY <1>1, <2>1 DEF PeerCb
    <2>3. peer'.nxt \in Nat /\ peer'.nxt >= peer.nxt
      BY <1>1, <2>2 DEF Later
    <2> QED BY <1>1, <2>2, <2>3 DEF PeerWritten
  <1>7. CASE PeerFin
    <2>1. PICK at \in Nat :
            /\ at = IF peer.finAt = 0 THEN peer.nxt ELSE peer.finAt
            /\ peer' = [peer EXCEPT !.finAt = at, !.nxt = at + 1, !.fins = peer.fins + 1]
      BY <1>7, PeerFinEffect
    <2>2. peer'.finAt = at
      BY <1>1, <2>1 DEF PeerCb
    <2>3. at >= 1
      BY <1>1, <1>3, <1>7, <2>1 DEF PeerFin
    <2> QED BY <1>1, <2>1, <2>2, <2>3 DEF PeerWritten
  <1>8. CASE PeerDies
    <2>1. peer'.nxt = peer.nxt /\ peer'.finAt = peer.finAt
      BY <1>1, <1>8 DEF PeerDies, PeerCb
    <2> QED BY <1>4, <2>1
  <1>9. CASE PeerReceives
    <2>1. PICK seg \in Segment : PeerTakes(seg)
      BY <1>9, PeerReceivesCases
    <2>2. CASE PeerReset(seg) \/ UNCHANGED <<peer, peerGot, toGuest>>
      BY <1>4, <2>2, PeerResetEffect
    <2>3. CASE PeerStream(seg)
      BY <1>4, <2>3, PeerStreamEffect
    <2>4. CASE PeerHandshake(seg)
      <3>1. CASE peer'.nxt = peer.nxt /\ peer'.finAt = peer.finAt
        BY <1>4, <3>1
      <3>2. CASE ~(peer'.nxt = peer.nxt /\ peer'.finAt = peer.finAt)
        <4>1. OpensPeer(seg) /\ peer'.nxt = 1 /\ peer'.finAt = peer.finAt
          BY <1>1, <2>4, <3>2, PeerHandshakeEffect DEF PeerCb
        <4>2. peer.finAt = 0 /\ peer.nxt \in {0, 1}
          BY <1>2, <4>1 DEF OpensPeer
        <4> QED BY <4>1, <4>2 DEF PeerWritten
      <3> QED BY <3>1, <3>2
    <2> QED BY <2>1, <2>2, <2>3, <2>4 DEF PeerTakes
  <1> QED BY <1>5, <1>6, <1>7, <1>8, <1>9 DEF PeerSteps, PeerSends

(* What the peer has only grows at its end. *)
LEMMA PeerGets ==
  ASSUME LinkTypes, PeerSteps
  PROVE  peerGot' = peerGot \/ Len(peerGot') > Len(peerGot)
  <1>1. CASE PeerSends \/ PeerDies
    BY <1>1 DEF PeerSends, PeerDies
  <1>2. CASE PeerReceives
    <2>1. PICK seg \in Segment : PeerTakes(seg)
      BY <1>2, PeerReceivesCases
    <2>2. CASE PeerReset(seg) \/ PeerHandshake(seg) \/ UNCHANGED <<peer, peerGot, toGuest>>
      BY <2>2, PeerResetEffect, PeerHandshakeEffect
    <2>3. CASE PeerStream(seg)
      <3> DEFINE old == (peer.rcvNxt - seg.seq) % SeqMod
      <3>1. \/ peerGot' = peerGot
            \/ /\ old < Len(seg.data) /\ old \in 0 .. Len(seg.data)
               /\ peerGot' = peerGot \o SubSeq(seg.data, old + 1, Len(seg.data))
        BY <2>3, PeerStreamEffect
      <3> HIDE DEF old
      <3>2. seg.data \in Seq(Nat) /\ peerGot \in Seq(Nat)
        BY SegmentNumbers DEF LinkTypes
      <3>3. CASE /\ old < Len(seg.data) /\ old \in 0 .. Len(seg.data)
                 /\ peerGot' = peerGot \o SubSeq(seg.data, old + 1, Len(seg.data))
        <4>1. PICK t : t = SubSeq(seg.data, old + 1, Len(seg.data))
          OBVIOUS
        <4>2. t \in Seq(Nat) /\ Len(t) = Len(seg.data) - old /\ Len(t) > 0
          BY <3>2, <3>3, <4>1, SMTT(20)
        <4>3. peerGot' = peerGot \o t
          BY <3>3, <4>1
        <4> QED BY <3>2, <4>2, <4>3
      <3> QED BY <3>1, <3>3
    <2> QED BY <2>1, <2>2, <2>3 DEF PeerTakes
  <1> QED BY <1>1, <1>2 DEF PeerSteps

(* Everything that arrived was written. *)
LEMMA ArrivedWasWritten ==
  ASSUME Numbers, NEW b \in Nat, Flow(b)
  PROVE  Len(got) <= PeerWritten
  <1>1. /\ peer.nxt \in Nat /\ peer.finAt \in Nat /\ Len(got) \in Nat /\ Len(rx) \in Nat
    BY DEF Numbers
  <1>2. CASE peer.finAt # 0
    <2>1. peer.finAt = Arrived + 1
      BY <1>2 DEF Flow, InFlow
    <2> QED BY <1>1, <1>2, <2>1 DEF Arrived, PeerWritten
  <1>3. CASE peer.finAt = 0 /\ cb.state \in Streaming
    <2>1. Opened /\ ~SawFin
      BY <1>3 DEF Flow, InFlow, Opened
    <2>2. Arrived + 1 <= peer.nxt
      BY <2>1 DEF Flow, InFlow
    <2> QED BY <1>1, <1>3, <2>2 DEF Arrived, PeerWritten
  <1>4. CASE peer.finAt = 0 /\ cb.state \notin Streaming
    <2>1. Len(got) = 0
      BY <1>4 DEF Flow, Quiet
    <2> QED BY <1>1, <1>4, <2>1 DEF PeerWritten
  <1> QED BY <1>2, <1>3, <1>4

(* A step of the connection is a step of either end or of the wire. *)
LEMMA LinkSteps ==
  LinkNext => GuestSteps \/ PeerSteps \/ WireLoses
  BY DEF LinkNext, GuestSteps, PeerSteps

(* A step is a write to the pipe towards the peer, a delivery or neither.  *)
LEMMA OutPipeStep ==
  ASSUME Orderly, LinkInv, LinkInv', [LinkNext]_linkVars
  PROVE  [OutPipe!Next]_<<reg.txWr, peerGot>>
  <1>1. LinkTypes /\ LinkTypes' /\ Numbers /\ Numbers'
    BY LinkNumbers, LinkNumbersNext DEF LinkInv
  <1>2. /\ reg.txWr \in Nat /\ reg'.txWr \in Nat
        /\ peerGot' \in Seq(Nat) /\ Len(peerGot) \in Nat /\ Len(peerGot') \in Nat
    BY <1>1 DEF Numbers
  <1>3. CASE UNCHANGED linkVars \/ WireLoses
    BY <1>3 DEF linkVars, vars, WireLoses
  <1>4. CASE GuestSteps
    <2>1. peerGot' = peerGot /\ reg'.txWr >= reg.txWr
      BY <1>1, <1>4, GuestWrites
    <2> QED BY <1>2, <2>1 DEF OutPipe!Next, OutPipe!Write
  <1>5. CASE LinkNext /\ PeerSteps
    <2>1. cb.active /\ cb' = cb /\ reg' = reg
      BY <1>5 DEF LinkNext, PeerSteps, vars
    <2>2. PICK b \in Nat : Flow(b)'
      BY <2>1 DEF LinkInv
    <2>3. Run(peerGot', 0) /\ Len(peerGot') <= reg'.txWr
      BY <2>2 DEF Flow, OutFlow, Run
    <2>4. peerGot' = [i \in 1 .. Len(peerGot') |-> i]
      BY <1>2, <2>3, RunIsInterval
    <2>5. CASE peerGot' = peerGot
      BY <2>1, <2>5
    <2>6. CASE Len(peerGot') > Len(peerGot)
      <3>1. Len(peerGot') \in Len(peerGot) + 1 .. reg.txWr
        BY <1>2, <2>1, <2>3, <2>6
      <3> QED BY <2>1, <2>4, <3>1 DEF OutPipe!Next, OutPipe!Deliver
    <2> QED BY <1>1, <1>5, <2>5, <2>6, PeerGets
  <1> QED BY <1>3, <1>4, <1>5, LinkSteps

(* So it is for the pipe towards the driver. *)
LEMMA InPipeStep ==
  ASSUME Orderly, LinkInv, LinkInv', [LinkNext]_linkVars
  PROVE  [InPipe!Next]_<<PeerWritten, got>>
  <1>1. LinkTypes /\ LinkTypes' /\ Numbers /\ Numbers'
    BY LinkNumbers, LinkNumbersNext DEF LinkInv
  <1>2. /\ got \in Seq(Nat) /\ got' \in Seq(Nat) /\ rx \in Seq(Nat)
        /\ Len(got) \in Nat /\ Len(got') \in Nat /\ PeerWritten \in Nat
    BY <1>1, PeerWrittenType DEF Numbers
  <1>3. CASE UNCHANGED linkVars \/ WireLoses
    BY <1>3 DEF linkVars, vars, WireLoses, PeerWritten
  <1>4. CASE LinkNext /\ GuestSteps
    <2>1. peer' = peer /\ (got' = got \/ GuestReads)
      BY <1>1, <1>4, GuestWrites
    <2>2. PeerWritten' = PeerWritten
      BY <2>1 DEF PeerWritten
    <2>3. CASE got' = got
      BY <2>2, <2>3
    <2>4. CASE GuestReads
      <3>1. PICK n \in 1 .. BufSize : CmdRecv(n) /\ got' = got \o SubSeq(rx, 1, n)
        BY <2>4 DEF GuestReads
      <3>2. cb.active /\ cb' = cb /\ n \in 1 .. Len(rx)
        BY <1>1, <1>4, <3>1, CbTypes DEF LinkNext, CmdRecv, RxRingSound
      <3>3. PICK b \in Nat : Flow(b)'
        BY <3>2 DEF LinkInv
      <3>4. Run(got', 0)
        BY <3>3 DEF Flow, InFlow, Run
      <3>5. Len(got') <= PeerWritten'
        <4>1. ASSUME Numbers', Flow(b)' PROVE (Len(got) <= PeerWritten)'
          BY <4>1, ArrivedWasWritten, PTL
        <4> QED BY <1>1, <3>3, <4>1
      <3>6. got' = [i \in 1 .. Len(got') |-> i]
        BY <1>2, <3>4, RunIsInterval
      <3>7. Len(got') > Len(got)
        <4>1. PICK t : t = SubSeq(rx, 1, n)
          OBVIOUS
        <4>2. t \in Seq(Nat) /\ Len(t) = n /\ n >= 1
          BY <1>2, <3>2, <4>1
        <4>3. got' = got \o t
          BY <3>1, <4>1
        <4> QED BY <1>2, <4>2, <4>3
      <3>8. Len(got') \in Len(got) + 1 .. PeerWritten
        BY <1>2, <2>2, <3>5, <3>7
      <3> QED BY <2>2, <3>6, <3>8 DEF InPipe!Next, InPipe!Deliver
    <2> QED BY <2>1, <2>3, <2>4
  <1>5. CASE LinkNext /\ PeerSteps
    <2>1. cb.active /\ got' = got
      BY <1>5 DEF LinkNext, PeerSteps
    <2>2. PICK b \in Nat : Flow(b)
      BY <2>1 DEF LinkInv
    <2>3. PeerWritten' \in Nat /\ PeerWritten' >= PeerWritten
      BY <1>1, <1>5, <2>2, PeerWrites
    <2> QED BY <1>2, <2>1, <2>3 DEF InPipe!Next, InPipe!Write
  <1> QED BY <1>3, <1>4, <1>5, LinkSteps

(* Guest to peer, the bytes handed to SEND reach the peer's application as *)
(* from a pipe; peer to guest, the driver reads the peer's stream as from  *)
(* another: in order, each byte once, none invented, whatever the wire     *)
(* loses, repeats and reorders, and wherever the connection breaks off.    *)
THEOREM LinkImplementsPipes ==
  ASSUME Orderly
  PROVE  LinkSpec => ImplementsPipes
  <1>1. LinkInit => OutPipe!Init /\ InPipe!Init
    BY DEF LinkInit, ClearedRegs, PeerWritten, OutPipe!Init, InPipe!Init
  <1>2. LinkInit => LinkInv
    BY InitLinkInv DEF Orderly
  <1>3. LinkInv /\ [LinkNext]_linkVars => LinkInv'
    BY NextLinkInv
  <1>4. LinkInv /\ LinkInv' /\ [LinkNext]_linkVars
          => [OutPipe!Next]_<<reg.txWr, peerGot>> /\ [InPipe!Next]_<<PeerWritten, got>>
    BY OutPipeStep, InPipeStep
  <1> QED BY <1>1, <1>2, <1>3, <1>4, PTL
          DEF LinkSpec, ImplementsPipes, OutPipe!Spec, InPipe!Spec
=============================================================================
