------------------------------- MODULE Serial -------------------------------
(***************************************************************************)
(* The USIfAC II serial interface (usifac.c) with its byte rings, over a   *)
(* pseudo terminal or a TCP listener of the host, and the PerryFi modem    *)
(* (perryfi.c) that takes the rings' place when it is plugged in.          *)
(*                                                                         *)
(* Abstracted: bytes are numbered in each direction, those the modem or    *)
(* the interface makes up are 0; a line of AT commands is its length until *)
(* its end, when it may be any command; V, X, & and S only change wording; *)
(* the clock is whether two bytes came within a second.                    *)
(***************************************************************************)
EXTENDS Integers, Sequences, SequencesExt

CONSTANTS
    Room,           \* USIFAC_RING - 1, PERRYFI_RING - 1
    ReplySize,      \* bytes of a result code
    LineMax,        \* PERRYFI_CMD_MAX
    Faulty,         \* whether the host's writes may fail
    MaxBytes, MaxEvents    \* bounds: each way; dials, hang-ups, resets

SerialAssumption == {Room, ReplySize, LineMax} \subseteq Nat \ {0}

VARIABLES
    u,      \* USIfAC: present, backend, rx, tx, burst; TCP: whether there is
            \* a client, and who waits to be accepted
    p,      \* Perryfi: present, state, echo, quiet, len, fd, esc, rx
    line,   \* the host's end of the terminal or connection in use: whether
            \* someone is there, has sent its last, what is on its way from
            \* him
    hist    \* history: bytes the guest read and the host got, how many were
            \* taken from the host and the guest wrote, which of these were
            \* lost, how many had been taken at the last clear, events

vars == <<u, p, line, hist>>

Unplugged == [present |-> FALSE, state |-> "CMD", echo |-> TRUE, quiet |-> FALSE, len |-> 0,
              fd |-> FALSE, esc |-> 0, rx |-> <<>>]
Ready(backend) == [present |-> TRUE, backend |-> backend, client |-> FALSE, waits |-> "none",
                   rx |-> <<>>, tx |-> <<>>, burst |-> FALSE]

Init == /\ u \in {Ready(k) : k \in {"pty", "tcp"}}
        /\ p \in {Unplugged, [Unplugged EXCEPT !.present = TRUE]}
        /\ line = [up |-> FALSE, fin |-> FALSE, wire |-> <<>>]
        /\ hist = [read |-> <<>>, got |-> <<>>, taken |-> 0, wrote |-> 0, lost |-> {},
                   cleared |-> 0, events |-> 0]

Event(h) == hist.events < MaxEvents /\ hist' = [h EXCEPT !.events = @ + 1]

(* rx_push, tx_push: what finds no room is dropped *)
First(n, s) == SubSeq(s, 1, IF n < Len(s) THEN n ELSE Len(s))
Pushed(s, bytes) == s \o First(Room - Len(s), bytes)
Zeroes(n) == [i \in 1 .. n |-> 0]
Modem == p.present

-----------------------------------------------------------------------------
(* The host's end *)

(* Whoever connects over TCP waits until poll_tcp accepts him; what he     *)
(* writes until then is on the wire once he is accepted.                   *)
Attach == /\ \/ /\ u.backend = "pty" /\ ~line.up
                /\ line' = [line EXCEPT !.up = TRUE, !.fin = FALSE] /\ UNCHANGED u
             \/ /\ u.backend = "tcp" /\ u.waits = "none"
                /\ u' = [u EXCEPT !.waits = "there"] /\ UNCHANGED line
          /\ Event(hist) /\ UNCHANGED p

HostWrites ==
    LET n == hist.taken + Len(line.wire) + 1
    IN  /\ line.up /\ ~line.fin /\ n <= MaxBytes
        /\ line' = [line EXCEPT !.wire = Append(@, n)] /\ UNCHANGED <<u, p, hist>>

HostFinishes == /\ line.up /\ ~line.fin /\ line' = [line EXCEPT !.fin = TRUE]
                /\ UNCHANGED <<u, p, hist>>

(* What he wrote before he left may still arrive.                          *)
HostLeaves ==
    /\ \/ /\ line.up /\ UNCHANGED u
          /\ \E w \in {<<>>, line.wire} : line' = [line EXCEPT !.up = FALSE, !.wire = w]
       \/ u.waits = "there" /\ u' = [u EXCEPT !.waits = "left"] /\ UNCHANGED line
    /\ Event(hist) /\ UNCHANGED p

-----------------------------------------------------------------------------
(* USIfAC *)

(* as many bytes as are on the line l and fit *)
Drained(s, l) == First(Room - Len(s), l.wire)

(* A poll of the line l.  A byte leaves the ring before its write, and is  *)
(* lost when that fails, which ends the poll.  The first k got through;    *)
(* with nobody at the other end none does, though writes may still         *)
(* succeed: a client that left is noticed only by the one that fails.      *)
Sent(l, k, out, failed) ==
    LET open == u.backend = "tcp" => ~failed
    IN  /\ out \in k .. Len(u.tx) /\ (IF failed THEN out > k ELSE out = Len(u.tx))
        /\ IF l.up THEN (failed => Faulty) /\ out <= k + 1 /\ (~failed => k = out)
                   ELSE k = 0
        /\ hist' = [hist EXCEPT !.got = @ \o First(k, u.tx), !.taken = @ + Len(Drained(u.rx, l)),
                                !.lost = @ \cup Range(SubSeq(u.tx, k + 1, out))]
        /\ u' = [u EXCEPT !.tx = SubSeq(@, out + 1, Len(@)), !.rx = @ \o Drained(u.rx, l),
                          !.client = u.backend = "tcp" /\ ~failed,
                          !.waits = IF u.client THEN @ ELSE "none"]
        /\ line' = [up |-> l.up /\ open, fin |-> l.fin /\ open,
                    wire |-> IF open THEN SubSeq(l.wire, Len(Drained(u.rx, l)) + 1, Len(l.wire))
                                     ELSE <<>>]

Sending(l) == \E k, out \in 0 .. Len(u.tx), failed \in BOOLEAN : Sent(l, k, out, failed)

poll_pty == u.backend = "pty" /\ Sending(line)

(* One client at a time: the next is accepted when a write to the last one *)
(* has failed, wherever that one is.                                       *)
Accepted == [up |-> u.waits = "there", fin |-> FALSE, wire |-> <<>>]
poll_tcp ==
    /\ u.backend = "tcp"
    /\ \/ u.client /\ Sending(line)
       \/ ~u.client /\ u.waits # "none" /\ Sending(Accepted)
       \/ ~u.client /\ u.waits = "none" /\ UNCHANGED <<u, line, hist>>

usifac_poll == u.present /\ (poll_pty \/ poll_tcp) /\ UNCHANGED p

PopRing(s, owner) ==
    /\ hist' = [hist EXCEPT !.read = IF Head(s) = 0 THEN @ ELSE Append(@, Head(s))]
    /\ owner

(* &FBD0: in burst mode an empty ring is polled first (a step of usifac_   *)
(* poll before this one)                                                   *)
ReadData ==
    \/ /\ ~Modem /\ u.rx # <<>> /\ PopRing(u.rx, u' = [u EXCEPT !.rx = Tail(@)])
       /\ UNCHANGED <<p, line>>
    \/ /\ Modem /\ p.rx # <<>> /\ PopRing(p.rx, p' = [p EXCEPT !.rx = Tail(@)])
       /\ UNCHANGED <<u, line>>

(* &FBD1 *)
Cleared(tx, fresh) ==
    /\ Event([hist EXCEPT !.cleared = hist.taken, !.read = <<>>, !.lost = @ \cup Range(tx)])
    /\ u' = fresh /\ UNCHANGED <<p, line>>
FullReset == ~Modem /\ Cleared(u.tx, [u EXCEPT !.rx = <<>>, !.tx = <<>>, !.burst = FALSE])
ClearRx == ~Modem /\ Cleared(<<>>, [u EXCEPT !.rx = <<>>])
Burst == \E on \in BOOLEAN : u.burst # on /\ u' = [u EXCEPT !.burst = on]
                             /\ UNCHANGED <<p, line, hist>>
Stat == ~Modem /\ u' = [u EXCEPT !.rx = Pushed(@, Zeroes(ReplySize))] /\ Event(hist)
        /\ UNCHANGED <<p, line>>

WriteData ==
    LET n == hist.wrote + 1
    IN  /\ ~Modem /\ n <= MaxBytes
        /\ u' = [u EXCEPT !.tx = Pushed(@, <<n>>)]
        /\ hist' = [hist EXCEPT !.wrote = n, !.lost = IF Len(u.tx) < Room THEN @ ELSE @ \cup {n}]
        /\ UNCHANGED <<p, line>>

-----------------------------------------------------------------------------
(* PerryFi *)

(* send_result on a modem q *)
Result(q) == IF q.quiet THEN q ELSE [q EXCEPT !.rx = Pushed(@, Zeroes(ReplySize))]
Echoed(q) == IF q.echo THEN [q EXCEPT !.rx = Pushed(@, <<0>>)] ELSE q
HungUpFaulty(q) == Result([q EXCEPT !.fd = FALSE])       \* still on line
HungUp(q) == Result([q EXCEPT !.fd = FALSE, !.state = "CMD"])
Gone == [up |-> FALSE, fin |-> FALSE, wire |-> <<>>]

(* While on line a byte goes to the peer; the third '+' within its time    *)
(* ends that, the first two were sent.  A write to a peer that left may    *)
(* still succeed.                                                          *)
EscapeCount(plus, soon) == IF plus /\ (p.esc = 0 \/ soon) THEN p.esc + 1 ELSE 0

OnlineByte(plus, soon, fails) ==
    LET n == hist.wrote + 1
        count == EscapeCount(plus, soon)
    IN  /\ p.state = "ONLINE" /\ n <= MaxBytes
        /\ IF count = 3
           THEN /\ p' = Result([p EXCEPT !.state = "CMD", !.esc = 0])
                /\ hist' = [hist EXCEPT !.wrote = n, !.lost = @ \cup {n}] /\ UNCHANGED line
           ELSE IF fails
           THEN /\ p' = HungUp([p EXCEPT !.esc = count]) /\ line' = Gone
                /\ hist' = [hist EXCEPT !.wrote = n, !.lost = @ \cup {n}]
           ELSE /\ p' = [p EXCEPT !.esc = count] /\ UNCHANGED line
                /\ hist' = IF line.up THEN [hist EXCEPT !.wrote = n, !.got = Append(@, n)]
                           ELSE [hist EXCEPT !.wrote = n, !.lost = @ \cup {n}]
        /\ UNCHANGED u

CommandByte == /\ p.state = "CMD" /\ p.len < LineMax
               /\ p' = Echoed([p EXCEPT !.len = @ + 1]) /\ UNCHANGED <<u, line, hist>>
RubOut == /\ p.state = "CMD" /\ p.len > 0
          /\ p' = Echoed([p EXCEPT !.len = @ - 1]) /\ UNCHANGED <<u, line, hist>>

(* exec_at, from the modem q its line left *)
Dial(q) ==
    \/ /\ line' = [up |-> TRUE, fin |-> FALSE, wire |-> <<>>]
       /\ p' = Result([q EXCEPT !.fd = TRUE, !.state = "ONLINE", !.esc = 0])
    \/ p' = Result(q) /\ UNCHANGED line         \* no host, or it refuses
Answer(q) == /\ p' = Result(IF q.fd THEN [q EXCEPT !.state = "ONLINE"] ELSE q)
             /\ UNCHANGED line
HangUp(q) == p' = HungUp(q) /\ line' = Gone
Settings(q) == /\ \E e, qu \in BOOLEAN : p' = Result([q EXCEPT !.echo = e, !.quiet = qu])
               /\ UNCHANGED line
Other(q) == p' = Result(q) /\ UNCHANGED line

EndOfLine ==
    LET q == [Echoed(p) EXCEPT !.len = 0]
    IN  /\ p.state = "CMD" /\ p.len > 0 /\ Event(hist)
        /\ (Dial(q) \/ Answer(q) \/ HangUp(q) \/ Settings(q) \/ Other(q))
        /\ UNCHANGED u

(* The peer's bytes, until the ring is full; its end or its loss hangs up. *)
perryfi_poll ==
    LET more == Drained(p.rx, line)
        q == [p EXCEPT !.rx = @ \o more]
        left == SubSeq(line.wire, Len(more) + 1, Len(line.wire))
        ends == /\ left = <<>> /\ Len(q.rx) < Room
                /\ line.fin \/ ~line.up
    IN  /\ p.state = "ONLINE" /\ p.fd
        /\ hist' = [hist EXCEPT !.taken = @ + Len(more)]
        /\ IF ends THEN p' = HungUp(q) /\ line' = Gone
           ELSE p' = q /\ line' = [line EXCEPT !.wire = left]
        /\ UNCHANGED u

perryfi_tx_push ==
    \/ \E plus, soon, fails \in BOOLEAN :
         (fails => Faulty \/ ~line.up) /\ OnlineByte(plus, soon, fails)
    \/ CommandByte \/ RubOut \/ EndOfLine

-----------------------------------------------------------------------------
Host == HostWrites \/ HostFinishes \/ HostLeaves \/ (~Modem /\ Attach)

Next == \/ Host \/ ReadData \/ Burst
        \/ ~Modem /\ (usifac_poll \/ WriteData)
        \/ FullReset \/ ClearRx \/ Stat
        \/ Modem /\ (perryfi_poll \/ perryfi_tx_push)

Spec == Init /\ [][Next]_vars

-----------------------------------------------------------------------------
(* What the host wrote reaches the guest in order, each byte once, and     *)
(* whatever was taken from the host's socket is kept for the guest however *)
(* full the ring is; what the guest wrote reaches the host in order, but   *)
(* for the bytes that a full ring, a failed write, a host that had left or *)
(* an escape sequence swallowed; the modem is on line only with a          *)
(* connection.  poll_tcp's comment takes the connection to end when a      *)
(* send fails: until then bytes go where nobody is.                        *)
Ring == IF Modem THEN p.rx ELSE u.rx
Rising(s) == \A i, j \in DOMAIN s : i < j /\ 0 \notin {s[i], s[j]} => s[i] < s[j]
ToGuest == LET s == hist.read \o Ring
           IN  Rising(s) /\ Range(s) \ {0} = hist.cleared + 1 .. hist.taken
ToHost == LET s == hist.got \o u.tx
          IN  Rising(s) /\ Range(s) = (1 .. hist.wrote) \ hist.lost
OnlineHasCarrier == p.state = "ONLINE" => p.fd
RingsFit == Len(p.rx) <= Room /\ Len(u.rx) <= Room /\ Len(u.tx) <= Room

SerialExact == ToGuest /\ ToHost /\ OnlineHasCarrier /\ RingsFit
=============================================================================
