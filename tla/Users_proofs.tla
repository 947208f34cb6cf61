---------------------------- MODULE Users_proofs ----------------------------
(* What users do to the emulator.  The hands on the keyboard (paste.c,     *)
(* kbd.c, pilot.c, joyscript.c): no key is forgotten down, text is typed   *)
(* once and in order, for texts, scripts and frame counts of any length.   *)
(* The web service and the gui (websvc.c, webgui.c): streams are counted   *)
(* exactly, sessions are there and their own, every request is answered    *)
(* once and in order, for any number of clients, sessions and requests.    *)
EXTENDS MCUsers, NatFacts, FiniteSetTheorems, SequenceTheorems, TLAPS

-----------------------------------------------------------------------------
(* The hands on the keyboard: the paste p, the pilot l, the other hands q  *)
(* and the keys k are followed through each turn of the main loop.         *)

Letter == UNION {{t[i] : i \in 1 .. Len(t)} : t \in Texts}
Strokes == [at : Nat, key : Letter]

PasteOk(p) ==
    /\ DOMAIN p = {"buf", "pos", "timer", "held"}
    /\ p.buf \in Seq(Letter) /\ p.pos \in 1 .. Len(p.buf) + 1 /\ p.held \in BOOLEAN
    /\ p.held => p.pos <= Len(p.buf) /\ Hands!Mapped(p.buf[p.pos])

PilotOk(l) ==
    /\ DOMAIN l = {"target", "dir", "moveLeft", "btn", "clickLeft", "joyHeld", "tapLeft", "wait",
                   "waitLeft", "quiet"}
    /\ {l.dir, l.btn, l.joyHeld} \subseteq BOOLEAN
    /\ {l.moveLeft, l.clickLeft, l.tapLeft} \subseteq Nat

OthersOk(q) ==
    /\ DOMAIN q = {"in", "wire", "script", "stepLeft", "host", "pad", "text", "typed", "sent", "given",
                   "stuck", "n"}
    /\ q.script \in 1 .. Len(Script) + 1 /\ q.typed \in Seq(Strokes)
    /\ {q.in, q.wire, q.text, q.sent, q.given} \subseteq Seq(Letter) /\ Len(q.in) <= PtyMax
    /\ q.pad \subseteq Hands!Row9

(* The texts up to the paste's are over: the paste's characters lie d      *)
(* further on.                                                             *)
Typed(typed, text, gone) ==
    /\ \A i \in 1 .. Len(typed) : /\ typed[i].at \in 1 .. gone
                                  /\ Hands!Mapped(text[typed[i].at]) /\ typed[i].key = text[typed[i].at]
    /\ \A i \in 1 .. gone : Hands!Mapped(text[i]) => \E j \in 1 .. Len(typed) : typed[j].at = i
    /\ \A i \in 1 .. Len(typed) : \A j \in 1 .. i - 1 : typed[j].at < typed[i].at
InOrder(p, q) ==
    LET d == Len(q.text) - Len(p.buf)
    IN  /\ d \in Nat
        /\ \A i \in p.pos .. Len(p.buf) : q.text[d + i] = p.buf[i]
        /\ Typed(q.typed, q.text, d + p.pos - 1)

TermOk(q) == q.sent = q.given \o (q.in \o q.wire)

Fine(p, q) == PasteOk(p) /\ OthersOk(q) /\ InOrder(p, q) /\ TermOk(q)

(* The hands but for the pilot, whose keys are the set of its own *)
By(x, p, q) ==
    \/ x \in q.host \cup q.pad \cup q.stuck
    \/ (p.held /\ x \in Hands!KeyOf(p.buf[p.pos]))
    \/ (~Hands!ScriptDone(q) /\ x \in Hands!Row9)
Held(k, p, q, own) == \A x \in k : By(x, p, q) \/ x \in own

LEMMA TextsOk ==
    /\ Texts \subseteq Seq(Letter) /\ <<>> \in Seq(Letter)
    /\ TapFrames \subseteq Nat \ {0} /\ ClickFrames \in Nat /\ PtyMax \in Nat
    /\ Len(Script) \in Nat /\ 1 <= Len(Script)
<1>1. ASSUME NEW t \in Texts PROVE t \in Seq(Letter)
  <2>1. Len(t) \in Nat /\ t = [i \in 1 .. Len(t) |-> t[i]]
    BY UsersAssumption DEF Hands!InputsAssumption
  <2>2. ASSUME NEW i \in 1 .. Len(t) PROVE t[i] \in Letter
    BY DEF Letter
  <2>3. PICK n \in Nat : n = Len(t)  BY <2>1
  <2>4. t \in [1 .. n -> Letter]  BY <2>1, <2>2, <2>3
  <2>. QED  BY <2>4
<1>. QED  BY <1>1, UsersAssumption DEF Hands!InputsAssumption

(* The next character with a key, if there is one *)
LEMMA Finds ==
    ASSUME NEW p, PasteOk(p),
           NEW at, at = Hands!SelectInSubSeq(p.buf, p.pos, Len(p.buf), Hands!Mapped)
    PROVE  \/ at = 0 /\ \A i \in p.pos .. Len(p.buf) : ~Hands!Mapped(p.buf[i])
           \/ at \in p.pos .. Len(p.buf) /\ Hands!Mapped(p.buf[at])
              /\ \A i \in p.pos .. at - 1 : ~Hands!Mapped(p.buf[i])
<1> DEFINE J == {i \in p.pos .. Len(p.buf) : Hands!Mapped(p.buf[i])}
<1>1. p.pos \in Nat /\ Len(p.buf) \in Nat  BY DEF PasteOk
<1>2. at = IF J # {} THEN Hands!Min(J) ELSE 0  BY DEF Hands!SelectInSubSeq
<1>3. CASE J = {}  BY <1>2, <1>3
<1>4. CASE J # {}
  <2>1. J \in SUBSET Nat  BY <1>1
  <2>2. PICK n \in J : \A m \in J : n <= m  BY <2>1, <1>4, LeastNat
  <2>3. at = CHOOSE i \in J : \A m \in J : i <= m  BY <1>2, <1>4 DEF Hands!Min
  <2>. HIDE DEF J
  <2>4. at \in J /\ \A m \in J : at <= m  BY <2>2, <2>3
  <2>5. at \in p.pos .. Len(p.buf) /\ Hands!Mapped(p.buf[at])  BY <2>4 DEF J
  <2>6. ASSUME NEW i \in p.pos .. at - 1, Hands!Mapped(p.buf[i]) PROVE FALSE
    <3>1. i \in p.pos .. Len(p.buf) /\ ~(at <= i)  BY <1>1, <2>5
    <3>2. i \in J  BY <3>1, <2>6 DEF J
    <3>. QED  BY <3>1, <3>2, <2>4
  <2>. QED  BY <2>5, <2>6
<1>. QED  BY <1>3, <1>4

(* Going over characters without a key types nothing. *)
LEMMA TypedOn ==
    ASSUME NEW typed \in Seq(Strokes), NEW text, NEW more, NEW gone \in Nat, NEW further \in Nat,
           gone <= further, Typed(typed, text, gone), \A i \in 1 .. gone : more[i] = text[i],
           \A i \in gone + 1 .. further : ~Hands!Mapped(more[i])
    PROVE  Typed(typed, more, further)
<1>1. ASSUME NEW i \in 1 .. Len(typed)
      PROVE  /\ typed[i].at \in 1 .. further
             /\ Hands!Mapped(more[typed[i].at]) /\ typed[i].key = more[typed[i].at]
  <2>1. /\ typed[i].at \in 1 .. gone
        /\ Hands!Mapped(text[typed[i].at]) /\ typed[i].key = text[typed[i].at]
    BY DEF Typed
  <2>2. more[typed[i].at] = text[typed[i].at]  BY <2>1
  <2>. QED  BY <2>1, <2>2
<1>2. ASSUME NEW i \in 1 .. further, Hands!Mapped(more[i])
      PROVE  \E j \in 1 .. Len(typed) : typed[j].at = i
  <2>1. i \in 1 .. gone  BY <1>2
  <2>2. Hands!Mapped(text[i])  BY <1>2, <2>1
  <2>. QED  BY <2>1, <2>2 DEF Typed
<1>. QED  BY <1>1, <1>2 DEF Typed

LEMMA Ordered ==
    ASSUME NEW p, NEW q, NEW d \in Nat, d = Len(q.text) - Len(p.buf),
           \A i \in p.pos .. Len(p.buf) : q.text[d + i] = p.buf[i],
           NEW gone, gone = d + p.pos - 1, Typed(q.typed, q.text, gone)
    PROVE  InOrder(p, q)
BY DEF InOrder

(* The fields a record of the others keeps when the texts change *)
Keeps(q, r) ==
    /\ DOMAIN r = DOMAIN q /\ r.script = q.script /\ r.host = q.host /\ r.pad = q.pad
    /\ r.in = q.in /\ r.wire = q.wire /\ r.sent = q.sent /\ r.given = q.given

LEMMA LetterJoined ==
    ASSUME NEW s \in Seq(Letter), NEW t \in Seq(Letter)
    PROVE  /\ s \o t \in Seq(Letter) /\ Len(s \o t) = Len(s) + Len(t)
           /\ \A i \in 1 .. Len(s) : (s \o t)[i] = s[i]
           /\ \A i \in 1 .. Len(t) : (s \o t)[Len(s) + i] = t[i]
<1>1. PICK m \in Nat, n \in Nat : m = Len(s) /\ n = Len(t)  OBVIOUS
<1>2. PICK u : u = s \o t  OBVIOUS
<1>3. /\ u \in Seq(Letter) /\ Len(u) = m + n
      /\ \A i \in 1 .. m + n : u[i] = IF i <= m THEN s[i] ELSE t[i - m]
  BY <1>1, <1>2, ConcatProperties, Zenon
<1>4. \A i \in 1 .. n : u[m + i] = t[i]
  <2>1. \A i \in 1 .. n : m + i \in 1 .. m + n /\ ~(m + i <= m) /\ m + i - m = i  OBVIOUS
  <2>. QED  BY <2>1, <1>3
<1>5. \A i \in 1 .. m : u[i] = s[i]  BY <1>3
<1>. QED  BY <1>1, <1>2, <1>3, <1>4, <1>5

LEMMA PasteText ==
    ASSUME NEW p, NEW q, NEW k, NEW own, NEW text \in Seq(Letter), Fine(p, q), Held(k, p, q, own),
           NEW np, np = Hands!paste_text_raw(text), NEW r, r = Hands!Retyped(p, text, q)
    PROVE  Fine(np, r) /\ Held(k, np, r, own) /\ Keeps(q, r)
<1>1. PasteOk(np) /\ np.buf = text /\ np.pos = 1 /\ np.held = FALSE
  BY DEF Hands!paste_text_raw, PasteOk
<1>2. PasteOk(p) /\ OthersOk(q) /\ InOrder(p, q)  BY DEF Fine
<1>3. /\ p.pos \in Nat /\ Len(p.buf) \in Nat /\ p.pos <= Len(p.buf) + 1 /\ p.held \in BOOLEAN
      /\ q.text \in Seq(Letter) /\ q.typed \in Seq(Strokes) /\ Len(q.text) \in Nat /\ Len(text) \in Nat
  BY <1>2 DEF PasteOk, OthersOk
<1>4. p.held => Hands!Waiting(p)  BY <1>2, <1>3 DEF PasteOk, Hands!Waiting
<1>5. CASE Hands!Waiting(p)
  <2>1. PICK st : st = IF p.held THEN q.stuck \cup Hands!KeyOf(p.buf[p.pos]) ELSE q.stuck  OBVIOUS
  <2>2. r = [q EXCEPT !.text = text, !.typed = <<>>, !.stuck = st]
    BY <1>5, <2>1 DEF Hands!Retyped
  <2>3. Keeps(q, r) /\ r.text = text /\ r.typed = <<>> /\ r.stuck = st
    BY <2>2, <1>2 DEF Keeps, OthersOk
  <2>4. OthersOk(r)  BY <2>3, <1>2 DEF OthersOk, Keeps
  <2>5. Typed(<<>>, text, 0)  BY DEF Typed
  <2>6. InOrder(np, r)
    <3>1. Len(r.text) - Len(np.buf) = 0 /\ 0 + np.pos - 1 = 0  BY <1>1, <1>3, <2>3
    <3>2. \A i \in np.pos .. Len(np.buf) : r.text[0 + i] = np.buf[i]  BY <1>1, <1>3, <2>3
    <3>3. Typed(r.typed, r.text, 0)  BY <2>3, <2>5
    <3>4. PICK d : d = 0  OBVIOUS
    <3>5. d \in Nat /\ d = Len(r.text) - Len(np.buf) /\ 0 = d + np.pos - 1  BY <3>1, <3>4
    <3>6. \A i \in np.pos .. Len(np.buf) : r.text[d + i] = np.buf[i]  BY <3>2, <3>4
    <3>. QED  BY <3>3, <3>5, <3>6, Ordered
  <2>7. Held(k, np, r, own)
    <3>1. ASSUME NEW x \in k, By(x, p, q) PROVE By(x, np, r)
      BY <3>1, <2>1, <2>3 DEF By, Keeps, Hands!ScriptDone
    <3>. QED  BY <3>1 DEF Held
  <2>. QED  BY <1>1, <2>3, <2>4, <2>6, <2>7 DEF Fine, TermOk, Keeps
<1>6. CASE ~Hands!Waiting(p)
  <2>1. PICK tt : tt = q.text \o text  OBVIOUS
  <2>2. r = [q EXCEPT !.text = tt]  BY <1>6, <2>1 DEF Hands!Retyped
  <2>3. Keeps(q, r) /\ r.text = tt /\ r.typed = q.typed /\ r.stuck = q.stuck
    BY <2>2, <1>2 DEF Keeps, OthersOk
  <2>4. /\ tt \in Seq(Letter) /\ Len(tt) = Len(q.text) + Len(text)
        /\ \A i \in 1 .. Len(q.text) : tt[i] = q.text[i]
        /\ \A i \in 1 .. Len(text) : tt[Len(q.text) + i] = text[i]
    BY <2>1, <1>3, LetterJoined, Zenon
  <2>5. OthersOk(r)  BY <2>3, <2>4, <1>2 DEF OthersOk, Keeps
  <2>6. PICK d : d = Len(q.text) - Len(p.buf)  OBVIOUS
  <2>7. /\ d \in Nat /\ \A i \in p.pos .. Len(p.buf) : q.text[d + i] = p.buf[i]
        /\ Typed(q.typed, q.text, d + p.pos - 1)
    BY <2>6, <1>2 DEF InOrder
  <2>8. PICK gone : gone = d + p.pos - 1  OBVIOUS
  <2>14. /\ gone \in Nat /\ gone <= Len(q.text) /\ 1 <= p.pos /\ d \in Nat
         /\ \A i \in gone + 1 .. Len(q.text) :
               i - d \in p.pos .. Len(p.buf) /\ d + (i - d) = i /\ i \in 1 .. Len(q.text)
    <3>1. d \in Nat /\ p.pos \in 1 .. Len(p.buf) + 1  BY <2>7, <1>2 DEF PasteOk
    <3>2. PICK n \in Nat, b \in Nat, a \in Nat : n = Len(q.text) /\ b = Len(p.buf) /\ a = p.pos
      BY <1>3
    <3>3. d = n - b /\ gone = d + a - 1 /\ 1 <= a /\ a <= b + 1  BY <2>6, <2>8, <3>1, <3>2
    <3>4. gone \in Nat /\ gone <= n /\ \A i \in gone + 1 .. n : i - d \in a .. b /\ d + (i - d) = i /\ i \in 1 .. n
      BY <3>1, <3>3
    <3>. QED  BY <3>1, <3>2, <3>3, <3>4
  <2>9. ASSUME NEW i \in gone + 1 .. Len(q.text) PROVE ~Hands!Mapped(tt[i])
    <3>1. i - d \in p.pos .. Len(p.buf) /\ d + (i - d) = i /\ i \in 1 .. Len(q.text)
      BY <2>14
    <3>2. tt[i] = p.buf[i - d]  BY <3>1, <2>4, <2>7
    <3>. QED  BY <3>1, <3>2, <1>6 DEF Hands!Waiting
  <2>10. \A i \in 1 .. gone : tt[i] = q.text[i]
    <3>1. \A i \in 1 .. gone : i \in 1 .. Len(q.text)  BY <2>14, <1>3
    <3>. QED  BY <3>1, <2>4
  <2>11. Typed(q.typed, tt, Len(q.text))
    <3>1. Typed(q.typed, q.text, gone)  BY <2>7, <2>8
    <3>2. q.typed \in Seq(Strokes) /\ Len(q.text) \in Nat /\ gone \in Nat /\ gone <= Len(q.text)
      BY <1>3, <2>14
    <3>. QED  BY <3>1, <3>2, <2>9, <2>10, TypedOn, Zenon
  <2>12. InOrder(np, r)
    <3>1. Len(r.text) - Len(np.buf) = Len(q.text) /\ Len(q.text) + np.pos - 1 = Len(q.text)
      BY <1>1, <1>3, <2>3, <2>4
    <3>2. \A i \in np.pos .. Len(np.buf) : r.text[Len(q.text) + i] = np.buf[i]
      BY <1>1, <2>3, <2>4
    <3>. QED  BY <3>1, <3>2, <2>3, <2>11, <1>3, Ordered
  <2>13. Held(k, np, r, own)
    <3>1. ASSUME NEW x \in k, By(x, p, q) PROVE By(x, np, r)
      BY <3>1, <2>3, <1>4, <1>6 DEF By, Keeps, Hands!ScriptDone
    <3>. QED  BY <3>1 DEF Held
  <2>. QED  BY <1>1, <2>3, <2>5, <2>12, <2>13 DEF Fine, TermOk, Keeps
<1>. QED  BY <1>5, <1>6
WireFront(wire, n) == SubSeq(wire, 1, n)
WireBack(wire, n) == SubSeq(wire, n + 1, Len(wire))

LEMMA WireCut ==
    ASSUME NEW wire \in Seq(Letter), NEW n \in 0 .. Len(wire)
    PROVE  /\ WireFront(wire, n) \in Seq(Letter) /\ WireBack(wire, n) \in Seq(Letter)
           /\ Len(WireFront(wire, n)) = n /\ WireFront(wire, n) \o WireBack(wire, n) = wire
<1> DEFINE more == SubSeq(wire, 1, n)
           rest == SubSeq(wire, n + 1, Len(wire))
<1>1. Len(wire) \in Nat /\ n \in Int /\ n + 1 \in Int /\ Len(wire) \in Int /\ 1 \in Int  OBVIOUS
<1>2. \A i \in 1 .. n : wire[i] \in Letter  OBVIOUS
<1>3. more \in Seq(Letter) /\ Len(more) = IF 1 <= n THEN n - 1 + 1 ELSE 0
  BY <1>1, <1>2, SubSeqProperties
<1>4. \A i \in n + 1 .. Len(wire) : wire[i] \in Letter  OBVIOUS
<1>5. rest \in Seq(Letter)  BY <1>1, <1>4, SubSeqProperties
<1>6. 1 \in 1 .. Len(wire) + 1 /\ n \in 1 - 1 .. Len(wire) /\ Len(wire) \in n .. Len(wire)
  BY <1>1
<1>7. SubSeq(wire, 1, n) \o SubSeq(wire, n + 1, Len(wire)) = SubSeq(wire, 1, Len(wire))
  BY <1>6, ConcatAdjacentSubSeq
<1>8. SubSeq(wire, 1, Len(wire)) = wire  BY SubSeqFull
<1>9. Len(more) = n
  <2>1. n = IF 1 <= n THEN n - 1 + 1 ELSE 0  BY <1>1
  <2>. QED  BY <2>1, <1>3, Zenon
<1>10. more \o rest = wire  BY <1>7, <1>8, Zenon
<1>. QED  BY <1>3, <1>5, <1>9, <1>10, Zenon DEF WireFront, WireBack

LEMMA LetterAssoc ==
    ASSUME NEW s \in Seq(Letter), NEW t \in Seq(Letter), NEW u \in Seq(Letter)
    PROVE  (s \o t) \o u = s \o (t \o u)
BY ConcatAssociative

(* kbd_pty_tick: what the terminal holds moves on, none of it lost *)
LEMMA PtyTick ==
    ASSUME NEW p, NEW q, NEW k, NEW own, Fine(p, q), Held(k, p, q, own),
           NEW r, r = Hands!kbd_pty_tick(p, q)
    PROVE  Fine(r[1], r[2]) /\ Held(k, r[1], r[2], own)
<1>1. PasteOk(p) /\ OthersOk(q) /\ InOrder(p, q) /\ TermOk(q)  BY DEF Fine
<1>2. PICK room : room = PtyMax - Len(q.in)  OBVIOUS
<1>3. PICK n : n = IF room < Len(q.wire) THEN room ELSE Len(q.wire)  OBVIOUS
<1>4. PICK more : more = SubSeq(q.wire, 1, n)  OBVIOUS
<1>5. PICK rest : rest = SubSeq(q.wire, Len(more) + 1, Len(q.wire))  OBVIOUS
<1>6. PICK all : all = q.in \o more  OBVIOUS
<1>7. PICK dr : dr = [q EXCEPT !.wire = rest, !.in = all]  OBVIOUS
<1>8. /\ q.in \in Seq(Letter) /\ q.wire \in Seq(Letter) /\ q.sent \in Seq(Letter) /\ q.given \in Seq(Letter)
      /\ Len(q.in) \in Nat /\ Len(q.wire) \in Nat /\ Len(q.in) <= PtyMax /\ PtyMax \in Nat
  BY <1>1, TextsOk DEF OthersOk
<1>9. n \in 0 .. Len(q.wire) /\ Len(q.in) + n <= PtyMax
  <2>1. PICK a \in Nat, b \in Nat, c \in Nat : a = Len(q.in) /\ b = Len(q.wire) /\ c = PtyMax
    BY <1>8
  <2>2. a <= c /\ n = IF c - a < b THEN c - a ELSE b  BY <2>1, <1>2, <1>3, <1>8
  <2>3. n \in 0 .. b /\ a + n <= c  BY <2>2
  <2>. QED  BY <2>1, <2>3
<1>10. more \in Seq(Letter) /\ Len(more) = n
  <2>1. more = WireFront(q.wire, n)  BY <1>4, Zenon DEF WireFront
  <2>. QED  BY <2>1, <1>8, <1>9, WireCut
<1>11. rest \in Seq(Letter) /\ more \o rest = q.wire
  <2>1. rest = SubSeq(q.wire, n + 1, Len(q.wire))  BY <1>5, <1>10
  <2>2. more = WireFront(q.wire, n) /\ rest = WireBack(q.wire, n)
    BY <2>1, <1>4, Zenon DEF WireFront, WireBack
  <2>. QED  BY <2>2, <1>8, <1>9, WireCut
<1>12. all \in Seq(Letter) /\ Len(all) = Len(q.in) + n  BY <1>6, <1>8, <1>10, ConcatProperties
<1>13. Len(all) <= PtyMax  BY <1>9, <1>12
<1>14. /\ DOMAIN dr = DOMAIN q /\ dr.script = q.script /\ dr.host = q.host /\ dr.pad = q.pad
       /\ dr.text = q.text /\ dr.typed = q.typed /\ dr.stuck = q.stuck
       /\ dr.sent = q.sent /\ dr.given = q.given /\ dr.in = all /\ dr.wire = rest
  BY <1>1, <1>7 DEF OthersOk
<1>15. OthersOk(dr)  BY <1>1, <1>11, <1>12, <1>13, <1>14 DEF OthersOk
<1>16. q.in \o q.wire = all \o rest
  <2>1. (q.in \o more) \o rest = q.in \o (more \o rest)
    BY <1>8, <1>10, <1>11, LetterAssoc, ZenonT(40)
  <2>. QED  BY <2>1, <1>6, <1>11, ZenonT(40)
<1>17. Fine(p, dr) /\ Held(k, p, dr, own)
  <2>1. InOrder(p, dr)  BY <1>1, <1>14 DEF InOrder
  <2>2. TermOk(dr)  BY <1>1, <1>14, <1>16 DEF TermOk
  <2>3. Held(k, p, dr, own)  BY <1>14 DEF Held, By, Hands!ScriptDone
  <2>. QED  BY <1>1, <1>15, <2>1, <2>2, <2>3 DEF Fine
<1>18. CASE Hands!Typing(p) \/ all = <<>>
  <2>1. r = <<p, dr>>  BY <1>18, <1>2, <1>3, <1>4, <1>5, <1>6, <1>7 DEF Hands!kbd_pty_tick
  <2>. QED  BY <2>1, <1>17
<1>19. CASE ~(Hands!Typing(p) \/ all = <<>>)
  <2>1. PICK np, re : np = Hands!paste_text_raw(all) /\ re = Hands!Retyped(p, all, dr)  OBVIOUS
  <2>2. Fine(np, re) /\ Held(k, np, re, own) /\ Keeps(dr, re)
    BY <2>1, <1>12, <1>17, PasteText
  <2>3. PICK gg : gg = re.given \o all  OBVIOUS
  <2>4. PICK fin : fin = [re EXCEPT !.in = <<>>, !.given = gg]  OBVIOUS
  <2>5. r = <<np, fin>>
    BY <1>19, <1>2, <1>3, <1>4, <1>5, <1>6, <1>7, <2>1, <2>3, <2>4 DEF Hands!kbd_pty_tick
  <2>6. /\ DOMAIN fin = DOMAIN re /\ fin.script = re.script /\ fin.host = re.host /\ fin.pad = re.pad
        /\ fin.text = re.text /\ fin.typed = re.typed /\ fin.stuck = re.stuck
        /\ fin.sent = re.sent /\ fin.given = gg /\ fin.in = <<>> /\ fin.wire = re.wire
    BY <2>2, <2>4 DEF OthersOk, Fine
  <2>7. re.sent = q.sent /\ re.given = q.given /\ re.wire = rest
    BY <2>2, <1>14 DEF Keeps
  <2>8. gg \in Seq(Letter)  BY <2>3, <2>7, <1>8, <1>12, ConcatProperties
  <2>9. OthersOk(fin)
    <3>1. Len(<<>>) <= PtyMax /\ <<>> \in Seq(Letter)  BY <1>8
    <3>. QED  BY <2>2, <2>6, <2>8, <3>1 DEF OthersOk, Fine
  <2>10. TermOk(fin)
    <3>1. q.sent = q.given \o (all \o rest)  BY <1>1, <1>16 DEF TermOk
    <3>2. q.given \o (all \o rest) = (q.given \o all) \o rest
      BY <1>8, <1>11, <1>12, LetterAssoc, ZenonT(40)
    <3>3. <<>> \o rest = rest  BY <1>11, ConcatEmptySeq
    <3>. QED  BY <2>3, <2>6, <2>7, <3>1, <3>2, <3>3 DEF TermOk
  <2>11. InOrder(np, fin)  BY <2>2, <2>6 DEF InOrder, Fine
  <2>12. Held(k, np, fin, own)  BY <2>2, <2>6 DEF Held, By, Hands!ScriptDone
  <2>. QED  BY <2>2, <2>5, <2>9, <2>10, <2>11, <2>12 DEF Fine
<1>. QED  BY <1>18, <1>19
Laid(text, buf, d, a, b) == \A i \in a .. b : text[d + i] = buf[i]

LEMMA OrderFacts ==
    ASSUME NEW p, NEW q, PasteOk(p), OthersOk(q), InOrder(p, q)
    PROVE  \E d \in Nat, b \in Nat, a \in Nat, gone \in Nat :
              /\ b = Len(p.buf) /\ a = p.pos /\ Len(q.text) = d + b /\ d = Len(q.text) - b
              /\ 1 <= a /\ a <= b + 1 /\ gone = d + a - 1
              /\ Laid(q.text, p.buf, d, a, b)
              /\ Typed(q.typed, q.text, gone)
<1>1. PICK n \in Nat, b \in Nat, a \in Nat : n = Len(q.text) /\ b = Len(p.buf) /\ a = p.pos
  BY DEF PasteOk, OthersOk
<1>2. PICK d : d = n - b  OBVIOUS
<1>3. PICK gone : gone = d + a - 1  OBVIOUS
<1>4. d \in Nat /\ (\A i \in a .. b : q.text[d + i] = p.buf[i]) /\ Typed(q.typed, q.text, gone)
  BY <1>1, <1>2, <1>3 DEF InOrder
<1>5. 1 <= a /\ a <= b + 1  BY <1>1 DEF PasteOk
<1>6. gone \in Nat /\ n = d + b  BY <1>2, <1>3, <1>4, <1>5
<1>7. Laid(q.text, p.buf, d, a, b)  BY <1>4 DEF Laid
<1>. QED  BY <1>1, <1>2, <1>3, <1>4, <1>5, <1>6, <1>7

LEMMA Moves ==
    ASSUME NEW p, NEW q, NEW np, PasteOk(p), OthersOk(q), InOrder(p, q),
           np.buf = p.buf, np.pos \in p.pos .. Len(p.buf) + 1,
           \A i \in p.pos .. np.pos - 1 : ~Hands!Mapped(p.buf[i])
    PROVE  InOrder(np, q)
<1>1. PICK d \in Nat, b \in Nat, a \in Nat, gone \in Nat :
              /\ b = Len(p.buf) /\ a = p.pos /\ Len(q.text) = d + b /\ d = Len(q.text) - b
              /\ 1 <= a /\ a <= b + 1 /\ gone = d + a - 1
              /\ Laid(q.text, p.buf, d, a, b)
              /\ Typed(q.typed, q.text, gone)
  BY OrderFacts, Zenon
<1>2. PICK c \in Nat : c = np.pos /\ a <= c /\ c <= b + 1  BY <1>1, SMTT(30)
<1>3. PICK further \in Nat : further = d + c - 1  BY <1>1, <1>2
<1>4. gone <= further  BY <1>1, <1>2, <1>3, SMTT(30)
<1>5. ASSUME NEW i \in gone + 1 .. further PROVE ~Hands!Mapped(q.text[i])
  <2>1. i - d \in a .. c - 1 /\ i - d \in a .. b /\ d + (i - d) = i
    <3>1. gone = d + a - 1 /\ further = d + c - 1 /\ c <= b + 1  BY <1>1, <1>2, <1>3
    <3>2. i \in Int /\ gone + 1 <= i /\ i <= further  OBVIOUS
    <3>. QED  BY <3>1, <3>2
  <2>2. q.text[i] = p.buf[i - d]  BY <2>1, <1>1 DEF Laid
  <2>3. ~Hands!Mapped(p.buf[i - d])  BY <2>1, <1>1, <1>2
  <2>. QED  BY <2>2, <2>3
<1>6. q.typed \in Seq(Strokes)  BY DEF OthersOk
<1>7. Typed(q.typed, q.text, further)
  <2>1. Typed(q.typed, q.text, gone)  BY <1>1
  <2>. QED  BY <2>1, <1>4, <1>5, <1>6, TypedOn
<1>8. \A i \in np.pos .. Len(np.buf) : q.text[d + i] = np.buf[i]
  <2>1. \A i \in c .. b : i \in a .. b  BY <1>2
  <2>. QED  BY <2>1, <1>1, <1>2 DEF Laid
<1>9. d = Len(q.text) - Len(np.buf) /\ further = d + np.pos - 1  BY <1>1, <1>2, <1>3
<1>. QED  BY <1>7, <1>8, <1>9, Ordered

LEMMA Strikes ==
    ASSUME NEW p, NEW q, NEW np, NEW r, PasteOk(p), OthersOk(q), InOrder(p, q),
           np.buf = p.buf, np.pos = p.pos + 1, p.pos <= Len(p.buf), Hands!Mapped(p.buf[p.pos]),
           r.text = q.text,
           r.typed = Append(q.typed, [at |-> Hands!Gone(p, q) + 1, key |-> p.buf[p.pos]])
    PROVE  InOrder(np, r) /\ r.typed \in Seq(Strokes)
<1>1. PICK d \in Nat, b \in Nat, a \in Nat, gone \in Nat :
              /\ b = Len(p.buf) /\ a = p.pos /\ Len(q.text) = d + b /\ d = Len(q.text) - b
              /\ 1 <= a /\ a <= b + 1 /\ gone = d + a - 1
              /\ Laid(q.text, p.buf, d, a, b)
              /\ Typed(q.typed, q.text, gone)
  BY OrderFacts, Zenon
<1>2. a <= b /\ a \in 1 .. b /\ a \in a .. b  BY <1>1
<1>3. Hands!Gone(p, q) + 1 = gone + 1
  <2>1. Hands!Gone(p, q) = Len(q.text) - b + a - 1  BY <1>1 DEF Hands!Gone
  <2>. QED  BY <2>1, <1>1
<1>4. p.buf[a] \in Letter /\ q.text[gone + 1] = p.buf[a]
  <2>1. gone + 1 = d + a  BY <1>1
  <2>2. p.buf \in Seq(Letter)  BY DEF PasteOk
  <2>3. q.text[d + a] = p.buf[a]  BY <1>1, <1>2 DEF Laid
  <2>4. a \in 1 .. Len(p.buf)  BY <1>1, <1>2
  <2>5. p.buf[a] \in Letter  BY <2>2, <2>4
  <2>6. q.text[gone + 1] = q.text[d + a]  BY <2>1
  <2>. QED  BY <2>3, <2>5, <2>6, Zenon
<1>5. PICK x : x = [at |-> gone + 1, key |-> p.buf[a]]  OBVIOUS
<1>6. x \in Strokes /\ x.at = gone + 1 /\ x.key = p.buf[a]  BY <1>4, <1>5 DEF Strokes
<1>7. q.typed \in Seq(Strokes)  BY DEF OthersOk
<1>8. PICK n \in Nat : n = Len(q.typed)  BY <1>7
<1>9. /\ r.typed \in Seq(Strokes) /\ Len(r.typed) = n + 1 /\ r.typed[n + 1] = x
      /\ \A i \in 1 .. n : r.typed[i] = q.typed[i]
  <2>1. r.typed = Append(q.typed, x)  BY <1>1, <1>3, <1>5
  <2>. QED  BY <2>1, <1>6, <1>7, <1>8
<1>10. /\ \A i \in 1 .. n : /\ q.typed[i].at \in 1 .. gone
                            /\ Hands!Mapped(q.text[q.typed[i].at]) /\ q.typed[i].key = q.text[q.typed[i].at]
       /\ \A i \in 1 .. gone : Hands!Mapped(q.text[i]) => \E j \in 1 .. n : q.typed[j].at = i
       /\ \A i \in 1 .. n : \A j \in 1 .. i - 1 : q.typed[j].at < q.typed[i].at
  BY <1>1, <1>8 DEF Typed
<1>11. ASSUME NEW i \in 1 .. n + 1
       PROVE  /\ r.typed[i].at \in 1 .. gone + 1
              /\ Hands!Mapped(q.text[r.typed[i].at]) /\ r.typed[i].key = q.text[r.typed[i].at]
  <2>1. CASE i \in 1 .. n
    <3>1. r.typed[i] = q.typed[i]  BY <2>1, <1>9
    <3>2. q.typed[i].at \in 1 .. gone + 1  BY <2>1, <1>10
    <3>. QED  BY <3>1, <3>2, <2>1, <1>10
  <2>2. CASE i = n + 1
    <3>1. r.typed[i] = x /\ gone + 1 \in 1 .. gone + 1  BY <2>2, <1>9
    <3>. QED  BY <3>1, <1>1, <1>4, <1>6
  <2>9. i \in 1 .. n \/ i = n + 1  OBVIOUS
  <2>. QED  BY <2>1, <2>2, <2>9
<1>12. ASSUME NEW i \in 1 .. gone + 1, Hands!Mapped(q.text[i])
       PROVE  \E j \in 1 .. n + 1 : r.typed[j].at = i
  <2>1. CASE i \in 1 .. gone
    <3>1. PICK j \in 1 .. n : q.typed[j].at = i  BY <2>1, <1>10, <1>12
    <3>2. j \in 1 .. n + 1 /\ r.typed[j] = q.typed[j]  BY <1>9
    <3>. QED  BY <3>1, <3>2
  <2>2. CASE i = gone + 1
    <3>1. n + 1 \in 1 .. n + 1 /\ r.typed[n + 1].at = i  BY <2>2, <1>6, <1>9
    <3>. QED  BY <3>1
  <2>9. i \in 1 .. gone \/ i = gone + 1  OBVIOUS
  <2>. QED  BY <2>1, <2>2, <2>9
<1>13. ASSUME NEW i \in 1 .. n + 1, NEW j \in 1 .. i - 1
       PROVE  r.typed[j].at < r.typed[i].at
  <2>0. j \in 1 .. n /\ r.typed[j] = q.typed[j]  BY <1>9
  <2>1. CASE i \in 1 .. n  BY <2>0, <2>1, <1>9, <1>10
  <2>2. CASE i = n + 1
    <3>1. q.typed[j].at \in 1 .. gone  BY <2>0, <1>10
    <3>2. r.typed[i].at = gone + 1  BY <2>2, <1>6, <1>9
    <3>3. PICK m \in 1 .. gone : m = q.typed[j].at  BY <3>1
    <3>4. m < gone + 1  OBVIOUS
    <3>. QED  BY <3>2, <3>3, <3>4, <2>0
  <2>9. i \in 1 .. n \/ i = n + 1  OBVIOUS
  <2>. QED  BY <2>1, <2>2, <2>9
<1>14. Typed(r.typed, r.text, gone + 1)  BY <1>9, <1>11, <1>12, <1>13 DEF Typed
<1>15. \A i \in np.pos .. Len(np.buf) : r.text[d + i] = np.buf[i]
  <2>1. \A i \in a + 1 .. b : i \in a .. b  BY <1>2
  <2>. QED  BY <2>1, <1>1 DEF Laid
<1>16. d = Len(r.text) - Len(np.buf) /\ gone + 1 = d + np.pos - 1  BY <1>1
<1>. QED  BY <1>9, <1>14, <1>15, <1>16, Ordered

LEMMA PasteTick ==
    ASSUME NEW p, NEW q, NEW k, NEW own, Fine(p, q), Held(k, p, q, own),
           NEW r, r = Hands!paste_tick(p, k), NEW nq, nq = Hands!Noted(p, r[1], q)
    PROVE  Fine(r[1], nq) /\ Held(r[2], r[1], nq, own)
<1>1. PasteOk(p) /\ OthersOk(q) /\ InOrder(p, q) /\ TermOk(q)  BY DEF Fine
<1>2. PICK at : at = Hands!SelectInSubSeq(p.buf, p.pos, Len(p.buf), Hands!Mapped)  OBVIOUS
<1>3. \/ at = 0 /\ \A i \in p.pos .. Len(p.buf) : ~Hands!Mapped(p.buf[i])
      \/ at \in p.pos .. Len(p.buf) /\ Hands!Mapped(p.buf[at])
         /\ \A i \in p.pos .. at - 1 : ~Hands!Mapped(p.buf[i])
  BY <1>1, <1>2, Finds
<1>4. PICK np : np = [p EXCEPT !.pos = IF at = 0 THEN Len(p.buf) + 1 ELSE at]  OBVIOUS
<1>5. /\ p.pos \in Nat /\ Len(p.buf) \in Nat /\ 1 <= p.pos /\ p.pos <= Len(p.buf) + 1
      /\ p.held \in BOOLEAN
  BY <1>1 DEF PasteOk
<1>6. /\ DOMAIN np = DOMAIN p /\ np.buf = p.buf /\ np.held = p.held
      /\ np.pos = IF at = 0 THEN Len(p.buf) + 1 ELSE at
  BY <1>1, <1>4 DEF PasteOk
<1>7. CASE ~Hands!Typing(p)
  <2>1. r = <<p, k>>  BY <1>7 DEF Hands!paste_tick
  <2>2. nq = q  BY <2>1 DEF Hands!Noted
  <2>. QED  BY <2>1, <2>2
<1>8. CASE Hands!Typing(p) /\ p.timer > 0
  <2>1. PICK t : t = p.timer - 1  OBVIOUS
  <2>2. PICK z : z = [p EXCEPT !.timer = t]  OBVIOUS
  <2>3. r = <<z, k>>  BY <1>8, <2>1, <2>2 DEF Hands!paste_tick
  <2>4. z.buf = p.buf /\ z.pos = p.pos /\ z.held = p.held /\ DOMAIN z = DOMAIN p
    BY <1>1, <2>2 DEF PasteOk
  <2>5. nq = q  BY <2>3, <2>4 DEF Hands!Noted
  <2>6. PasteOk(z) /\ InOrder(z, q)  BY <1>1, <2>4 DEF PasteOk, InOrder
  <2>7. Held(k, z, q, own)  BY <2>4 DEF Held, By
  <2>. QED  BY <1>1, <2>3, <2>5, <2>6, <2>7 DEF Fine
<1>9. CASE Hands!Typing(p) /\ ~(p.timer > 0) /\ at = 0
  <2>1. r = <<np, k>>  BY <1>9, <1>2, <1>4 DEF Hands!paste_tick
  <2>2. p.held = FALSE
    <3>1. p.held => p.pos \in p.pos .. Len(p.buf) /\ Hands!Mapped(p.buf[p.pos])
      BY <1>1, <1>5 DEF PasteOk
    <3>2. \A i \in p.pos .. Len(p.buf) : ~Hands!Mapped(p.buf[i])  BY <1>3, <1>5, <1>9
    <3>. QED  BY <3>1, <3>2, <1>5
  <2>3. nq = q  BY <2>1, <2>2 DEF Hands!Noted
  <2>4. np.pos = Len(p.buf) + 1  BY <1>6, <1>9
  <2>5. PasteOk(np)  BY <1>1, <1>5, <1>6, <2>2, <2>4 DEF PasteOk
  <2>6. InOrder(np, q)
    <3>1. np.pos \in p.pos .. Len(p.buf) + 1  BY <1>5, <2>4
    <3>2. \A i \in p.pos .. np.pos - 1 : ~Hands!Mapped(p.buf[i])
      <4>1. \A i \in p.pos .. np.pos - 1 : i \in p.pos .. Len(p.buf)  BY <1>5, <2>4
      <4>2. \A i \in p.pos .. Len(p.buf) : ~Hands!Mapped(p.buf[i])  BY <1>3, <1>5, <1>9
      <4>. QED  BY <4>1, <4>2
    <3>. QED  BY <3>1, <3>2, <1>1, <1>6, Moves
  <2>7. Held(k, np, q, own)  BY <1>6, <2>2 DEF Held, By
  <2>. QED  BY <1>1, <2>1, <2>3, <2>5, <2>6, <2>7 DEF Fine
<1>10. ASSUME Hands!Typing(p), ~(p.timer > 0), at # 0
       PROVE  /\ at \in p.pos .. Len(p.buf) /\ Hands!Mapped(p.buf[at])
              /\ \A i \in p.pos .. at - 1 : ~Hands!Mapped(p.buf[i])
              /\ np.pos = at
  BY <1>3, <1>6, <1>10
<1>11. CASE Hands!Typing(p) /\ ~(p.timer > 0) /\ at # 0 /\ ~p.held
  <2>1. PICK z : z = [np EXCEPT !.held = TRUE, !.timer = HoldFrames]  OBVIOUS
  <2>2. r = <<z, k \cup Hands!KeyOf(p.buf[at])>>
    BY <1>11, <1>2, <1>4, <2>1 DEF Hands!paste_tick
  <2>3. DOMAIN z = DOMAIN p /\ z.buf = p.buf /\ z.pos = at /\ z.held = TRUE
    BY <1>1, <1>6, <1>10, <1>11, <2>1 DEF PasteOk
  <2>4. nq = q  BY <2>2, <2>3, <1>11 DEF Hands!Noted
  <2>5. at \in 1 .. Len(p.buf) + 1 /\ at <= Len(p.buf) /\ at \in p.pos .. Len(p.buf) + 1
    BY <1>5, <1>10, <1>11
  <2>6. PasteOk(z)  BY <1>1, <1>10, <1>11, <2>3, <2>5 DEF PasteOk
  <2>7. InOrder(z, q)
    <3>1. z.pos \in p.pos .. Len(p.buf) + 1 /\ \A i \in p.pos .. z.pos - 1 : ~Hands!Mapped(p.buf[i])
      BY <1>10, <1>11, <2>3, <2>5
    <3>. QED  BY <3>1, <1>1, <2>3, Moves
  <2>8. Held(k \cup Hands!KeyOf(p.buf[at]), z, q, own)
    <3>1. ASSUME NEW x \in k \cup Hands!KeyOf(p.buf[at])
          PROVE  By(x, z, q) \/ x \in own
      <4>1. CASE x \in Hands!KeyOf(p.buf[at])  BY <4>1, <2>3 DEF By
      <4>2. CASE x \in k
        <5>1. By(x, p, q) \/ x \in own  BY <4>2 DEF Held
        <5>2. By(x, p, q) => By(x, z, q)  BY <1>11 DEF By
        <5>. QED  BY <5>1, <5>2
      <4>. QED  BY <4>1, <4>2
    <3>. QED  BY <3>1 DEF Held
  <2>. QED  BY <1>1, <2>2, <2>4, <2>6, <2>7, <2>8 DEF Fine
<1>12. CASE Hands!Typing(p) /\ ~(p.timer > 0) /\ at # 0 /\ p.held
  <2>1. PICK more : more = at + 1  OBVIOUS
  <2>2. PICK z : z = [np EXCEPT !.held = FALSE, !.pos = more, !.timer = GapFrames]  OBVIOUS
  <2>3. r = <<z, k \ Hands!KeyOf(p.buf[at])>>
    BY <1>12, <1>2, <1>4, <2>1, <2>2 DEF Hands!paste_tick
  <2>4. Hands!Mapped(p.buf[p.pos]) /\ p.pos <= Len(p.buf)  BY <1>1, <1>12 DEF PasteOk
  <2>5. at = p.pos
    <3>1. at \in p.pos .. Len(p.buf) /\ \A i \in p.pos .. at - 1 : ~Hands!Mapped(p.buf[i])
      BY <1>10, <1>12
    <3>2. ~(p.pos \in p.pos .. at - 1)  BY <3>1, <2>4
    <3>. QED  BY <3>1, <3>2, <1>5
  <2>6. DOMAIN z = DOMAIN p /\ z.buf = p.buf /\ z.pos = p.pos + 1 /\ z.held = FALSE
    BY <1>1, <1>6, <2>1, <2>2, <2>5 DEF PasteOk
  <2>7. PasteOk(z)
    <3>1. p.pos + 1 \in 1 .. Len(p.buf) + 1  BY <1>5, <2>4
    <3>2. z.buf \in Seq(Letter) /\ z.pos \in 1 .. Len(z.buf) + 1  BY <1>1, <2>6, <3>1 DEF PasteOk
    <3>3. DOMAIN z = {"buf", "pos", "timer", "held"}  BY <1>1, <2>6 DEF PasteOk
    <3>. QED  BY <2>6, <3>2, <3>3 DEF PasteOk
  <2>8. PICK ty : ty = Append(q.typed, [at |-> Hands!Gone(p, q) + 1, key |-> p.buf[p.pos]])  OBVIOUS
  <2>9. PICK st : st = q.stuck \ Hands!KeyOf(p.buf[p.pos])  OBVIOUS
  <2>10. nq = [q EXCEPT !.typed = ty, !.stuck = st]
    BY <2>3, <2>6, <2>8, <2>9, <1>12 DEF Hands!Noted
  <2>11. Keeps(q, nq) /\ nq.text = q.text /\ nq.typed = ty /\ nq.stuck = st
    BY <2>10, <1>1 DEF Keeps, OthersOk
  <2>12. InOrder(z, nq) /\ ty \in Seq(Strokes)
    BY <1>1, <2>4, <2>6, <2>8, <2>11, Strikes
  <2>13. OthersOk(nq) /\ TermOk(nq)
    BY <1>1, <2>11, <2>12 DEF OthersOk, TermOk, Keeps
  <2>14. Held(k \ Hands!KeyOf(p.buf[at]), z, nq, own)
    <3>1. ASSUME NEW x \in k \ Hands!KeyOf(p.buf[p.pos]), By(x, p, q) PROVE By(x, z, nq)
      BY <3>1, <2>9, <2>11 DEF By, Keeps, Hands!ScriptDone
    <3>. QED  BY <3>1, <2>5 DEF Held
  <2>. QED  BY <2>3, <2>7, <2>12, <2>13, <2>14 DEF Fine
<1>. QED  BY <1>7, <1>8, <1>9, <1>11, <1>12

(* joyscript_tick: after the last step the row is let go *)
LEMMA ScriptTick ==
    ASSUME NEW p, NEW q, NEW k, NEW own, Fine(p, q), Held(k, p, q, own),
           NEW r, r = Hands!joyscript_tick(q, k)
    PROVE  Fine(p, r[1]) /\ Held(r[2], p, r[1], own)
<1>1. PasteOk(p) /\ OthersOk(q) /\ InOrder(p, q) /\ TermOk(q)  BY DEF Fine
<1>2. PICK mask : mask = Script[q.script].keys  OBVIOUS
<1>3. PICK set : set = (k \ Hands!Row9) \cup mask  OBVIOUS
<1>4. q.script \in Nat /\ Len(Script) \in Nat /\ q.script <= Len(Script) + 1
  BY <1>1, TextsOk DEF OthersOk
<1>5. CASE Hands!ScriptDone(q)
  <2>1. r = <<q, k>>  BY <1>5 DEF Hands!joyscript_tick
  <2>. QED  BY <2>1
<1>6. CASE ~Hands!ScriptDone(q)
  <2>1. q.script <= Len(Script) /\ q.script \in 1 .. Len(Script)
    BY <1>4, <1>6, <1>1 DEF Hands!ScriptDone, OthersOk
  <2>2. mask \subseteq Hands!Row9
    BY <1>2, <2>1, UsersAssumption DEF Hands!InputsAssumption
  <2>4. \A x \in set : By(x, p, q) \/ x \in own
    BY <1>3, <1>6, <2>2 DEF Held, By
  <2>5. CASE q.stepLeft > 1
    <3>1. PICK left : left = q.stepLeft - 1  OBVIOUS
    <3>2. PICK nq : nq = [q EXCEPT !.stepLeft = left]  OBVIOUS
    <3>3. r = <<nq, set>>  BY <1>2, <1>3, <1>6, <2>5, <3>1, <3>2 DEF Hands!joyscript_tick
    <3>4. Keeps(q, nq) /\ nq.text = q.text /\ nq.typed = q.typed /\ nq.stuck = q.stuck
      BY <1>1, <3>2 DEF Keeps, OthersOk
    <3>5. Fine(p, nq)  BY <1>1, <3>4 DEF Fine, OthersOk, InOrder, TermOk, Keeps
    <3>6. Held(set, p, nq, own)  BY <2>4, <3>4 DEF Held, By, Keeps, Hands!ScriptDone
    <3>. QED  BY <3>3, <3>5, <3>6
  <2>6. CASE ~(q.stepLeft > 1)
    <3>1. PICK next : next = q.script + 1  OBVIOUS
    <3>2. PICK left : left = IF q.script < Len(Script) THEN Script[q.script + 1].frames ELSE q.stepLeft
      OBVIOUS
    <3>3. PICK nq : nq = [q EXCEPT !.script = next, !.stepLeft = left]  OBVIOUS
    <3>4. /\ DOMAIN nq = DOMAIN q /\ nq.host = q.host /\ nq.pad = q.pad /\ nq.in = q.in
          /\ nq.wire = q.wire /\ nq.sent = q.sent /\ nq.given = q.given /\ nq.text = q.text
          /\ nq.typed = q.typed /\ nq.stuck = q.stuck /\ nq.script = next
      BY <1>1, <3>3 DEF OthersOk
    <3>5. next \in 1 .. Len(Script) + 1  BY <1>4, <2>1, <3>1
    <3>6. Fine(p, nq)
      <4>1. OthersOk(nq)  BY <1>1, <3>4, <3>5 DEF OthersOk
      <4>2. InOrder(p, nq) /\ TermOk(nq)  BY <1>1, <3>4 DEF InOrder, TermOk
      <4>. QED  BY <1>1, <4>1, <4>2 DEF Fine
    <3>7. CASE q.script < Len(Script)
      <4>1. r = <<nq, set>>
        BY <1>2, <1>3, <1>6, <2>6, <3>1, <3>2, <3>3, <3>7 DEF Hands!joyscript_tick
      <4>2. ~Hands!ScriptDone(nq)  BY <1>4, <2>1, <3>1, <3>4, <3>7 DEF Hands!ScriptDone
      <4>3. Held(set, p, nq, own)  BY <2>4, <3>4, <4>2, <1>6 DEF Held, By
      <4>. QED  BY <4>1, <4>3, <3>6
    <3>8. CASE ~(q.script < Len(Script))
      <4>1. PICK same : same = [q EXCEPT !.script = next]  OBVIOUS
      <4>2. r = <<same, k \ Hands!Row9>>
        BY <1>6, <2>6, <3>1, <3>8, <4>1 DEF Hands!joyscript_tick
      <4>3. same = nq  BY <1>1, <3>2, <3>3, <3>8, <4>1 DEF OthersOk
      <4>4. Held(k \ Hands!Row9, p, nq, own)  BY <3>4 DEF Held, By
      <4>. QED  BY <4>2, <4>3, <4>4, <3>6
    <3>. QED  BY <3>7, <3>8
  <2>. QED  BY <2>5, <2>6
<1>. QED  BY <1>5, <1>6

(* What the pilot holds: a tap, and of row 9 what it last set, of which    *)
(* its next turn is to lift what it has let go of meanwhile                *)
TapOf(l) == IF l.tapLeft > 0 THEN {Hands!TapKey} ELSE {}
Row(l) == TapOf(l) \cup (IF l.joyHeld THEN Hands!Row9 ELSE {})
Own(l) == TapOf(l) \cup (IF l.joyHeld THEN Hands!Mask(l) \cup {"up"} ELSE {})

LEMMA OwnRow == \A l : Own(l) \subseteq Row(l)
BY DEF Own, Row, Hands!Mask, Hands!Row9

LEMMA HeldMore ==
    ASSUME NEW k, NEW p, NEW q, NEW a, NEW b, a \subseteq b, Held(k, p, q, a)
    PROVE  Held(k, p, q, b)
BY DEF Held

LEMMA Taps ==
    ASSUME NEW p, NEW q, NEW k, NEW l, PilotOk(l), Held(k, p, q, Row(l)), NEW f \in TapFrames,
           NEW r, r = Hands!KeyTap(l, k, f)
    PROVE  PilotOk(r[1]) /\ Held(r[2], p, q, Row(r[1]))
<1>1. PICK z : z = Hands!release_keytap(l, k \cup {Hands!TapKey})  OBVIOUS
<1>2. /\ PilotOk(z[1]) /\ z[1].joyHeld = l.joyHeld
      /\ z[2] \subseteq k \cup {Hands!TapKey}
  <2>1. /\ PilotOk(z[1]) /\ z[1].tapLeft = 0 /\ z[1].joyHeld = l.joyHeld
        /\ z[2] = IF l.tapLeft > 0 THEN (k \cup {Hands!TapKey}) \ {Hands!TapKey} ELSE k \cup {Hands!TapKey}
    <3>1. PICK y : y = [l EXCEPT !.tapLeft = 0]  OBVIOUS
    <3>2. z = <<y, IF l.tapLeft > 0 THEN (k \cup {Hands!TapKey}) \ {Hands!TapKey} ELSE k \cup {Hands!TapKey}>>
      BY <1>1, <3>1, Zenon DEF Hands!release_keytap
    <3>3. PilotOk(y) /\ y.tapLeft = 0 /\ y.joyHeld = l.joyHeld  BY <3>1 DEF PilotOk
    <3>. QED  BY <3>2, <3>3
  <2>. QED  BY <2>1
<1>3. PICK nl : nl = [z[1] EXCEPT !.tapLeft = f]  OBVIOUS
<1>4. r[1] = nl /\ r[2] = z[2]  BY <1>1, <1>3 DEF Hands!KeyTap
<1>5. f \in Nat /\ f > 0  BY TextsOk
<1>6. PilotOk(nl) /\ nl.tapLeft = f /\ nl.joyHeld = l.joyHeld  BY <1>2, <1>3, <1>5 DEF PilotOk
<1>7. Row(l) \cup {Hands!TapKey} \subseteq Row(nl)  BY <1>5, <1>6 DEF Row, TapOf
<1>8. Held(z[2], p, q, Row(nl))
  <2>1. ASSUME NEW x \in z[2] PROVE By(x, p, q) \/ x \in Row(nl)
    <3>1. x \in k \/ x = Hands!TapKey  BY <1>2
    <3>2. x \in k => By(x, p, q) \/ x \in Row(l)  BY DEF Held
    <3>. QED  BY <3>1, <3>2, <1>7
  <2>. QED  BY <2>1 DEF Held
<1>. QED  BY <1>4, <1>6, <1>8

LEMMA Resets ==
    ASSUME NEW p, NEW q, NEW k, NEW l, PilotOk(l), Held(k, p, q, Row(l)),
           NEW r, r = Hands!PilotReset(l, k)
    PROVE  PilotOk(r[1]) /\ Held(r[2], p, q, Row(r[1]))
<1>1. PICK z : z = [Hands!Stop(l) EXCEPT !.btn = FALSE, !.clickLeft = 0]  OBVIOUS
<1>2. PICK y : y = Hands!Stop(l)  OBVIOUS
<1>3. PilotOk(y) /\ y.tapLeft = l.tapLeft /\ y.joyHeld = l.joyHeld
  BY <1>2 DEF Hands!Stop, PilotOk
<1>4. PilotOk(z) /\ z.tapLeft = l.tapLeft /\ z.joyHeld = l.joyHeld
  BY <1>1, <1>2, <1>3 DEF PilotOk
<1>5. r = Hands!release_keytap(z, k)  BY <1>1 DEF Hands!PilotReset
<1>6. /\ PilotOk(r[1]) /\ r[1].tapLeft = 0 /\ r[1].joyHeld = l.joyHeld
      /\ r[2] = IF l.tapLeft > 0 THEN k \ {Hands!TapKey} ELSE k
  <2>1. /\ PilotOk(r[1]) /\ r[1].tapLeft = 0 /\ r[1].joyHeld = z.joyHeld
        /\ r[2] = IF z.tapLeft > 0 THEN k \ {Hands!TapKey} ELSE k
    <3>1. PICK yy : yy = [z EXCEPT !.tapLeft = 0]  OBVIOUS
    <3>2. r = <<yy, IF z.tapLeft > 0 THEN k \ {Hands!TapKey} ELSE k>>
      BY <1>5, <3>1, Zenon DEF Hands!release_keytap
    <3>3. PilotOk(yy) /\ yy.tapLeft = 0 /\ yy.joyHeld = z.joyHeld  BY <1>4, <3>1 DEF PilotOk
    <3>. QED  BY <3>2, <3>3
  <2>. QED  BY <2>1, <1>4
<1>7. ASSUME NEW x \in r[2] PROVE By(x, p, q) \/ x \in Row(r[1])
  <2>1. x \in k /\ (By(x, p, q) \/ x \in Row(l))  BY <1>6 DEF Held
  <2>2. x \in TapOf(l) => FALSE  BY <1>6 DEF TapOf
  <2>. QED  BY <2>1, <2>2, <1>6 DEF Row
<1>. QED  BY <1>6, <1>7 DEF Held

LEMMA PlainOnes ==
    ASSUME NEW l, PilotOk(l), NEW nl \in Hands!PlainCommands(l)
    PROVE  PilotOk(nl) /\ Row(nl) = Row(l)
<1>1. ASSUME NEW f \in TapFrames \cup {ClickFrames} PROVE f \in Nat  BY <1>1, TextsOk
<1>2. ASSUME NEW z, PilotOk(z), z.tapLeft = l.tapLeft, z.joyHeld = l.joyHeld
      PROVE  PilotOk(z) /\ Row(z) = Row(l)
  BY <1>2 DEF Row, TapOf
<1>3. CASE nl \in {Hands!Move(l), Hands!Stop(l), Hands!Press(l, TRUE), Hands!Press(l, FALSE)}
  <2>1. PilotOk(nl) /\ nl.tapLeft = l.tapLeft /\ nl.joyHeld = l.joyHeld
    <3>1. CASE nl = Hands!Move(l)  BY <3>1 DEF Hands!Move, PilotOk
    <3>2. CASE nl = Hands!Stop(l)  BY <3>2 DEF Hands!Stop, PilotOk
    <3>3. CASE nl = Hands!Press(l, TRUE)  BY <3>3 DEF Hands!Press, PilotOk
    <3>4. CASE nl = Hands!Press(l, FALSE)  BY <3>4 DEF Hands!Press, PilotOk
    <3>. QED  BY <3>1, <3>2, <3>3, <3>4, <1>3
  <2>. QED  BY <2>1, <1>2
<1>4. CASE nl \in {[l EXCEPT !.target = "joy"], [l EXCEPT !.target = "mouse"]}
  <2>1. PilotOk(nl) /\ nl.tapLeft = l.tapLeft /\ nl.joyHeld = l.joyHeld
    <3>1. CASE nl = [l EXCEPT !.target = "joy"]  BY <3>1 DEF PilotOk
    <3>2. CASE nl = [l EXCEPT !.target = "mouse"]  BY <3>2 DEF PilotOk
    <3>. QED  BY <3>1, <3>2, <1>4
  <2>. QED  BY <2>1, <1>2
<1>5. ASSUME NEW f \in TapFrames \cup {ClickFrames}, nl = Hands!Click(l, f) \/ nl = Hands!Hold(l, f)
      PROVE  PilotOk(nl) /\ Row(nl) = Row(l)
  <2>1. PilotOk(nl) /\ nl.tapLeft = l.tapLeft /\ nl.joyHeld = l.joyHeld
    <3>1. CASE nl = Hands!Click(l, f)  BY <3>1, <1>1 DEF Hands!Click, PilotOk
    <3>2. CASE nl = Hands!Hold(l, f)  BY <3>2, <1>1 DEF Hands!Hold, PilotOk
    <3>. QED  BY <3>1, <3>2, <1>5
  <2>. QED  BY <2>1, <1>2
<1>6. ASSUME NEW m \in {"change", "quiet", "frames"}, NEW f \in TapFrames, nl = Hands!Wait(l, m, f)
      PROVE  PilotOk(nl) /\ Row(nl) = Row(l)
  <2>1. PilotOk(nl) /\ nl.tapLeft = l.tapLeft /\ nl.joyHeld = l.joyHeld
    BY <1>6 DEF Hands!Wait, PilotOk
  <2>. QED  BY <2>1, <1>2
<1>7. \/ nl \in {Hands!Move(l), Hands!Stop(l), Hands!Press(l, TRUE), Hands!Press(l, FALSE)}
      \/ nl \in {[l EXCEPT !.target = "joy"], [l EXCEPT !.target = "mouse"]}
      \/ \E f \in TapFrames \cup {ClickFrames} : nl = Hands!Click(l, f) \/ nl = Hands!Hold(l, f)
      \/ \E m \in {"change", "quiet", "frames"} : \E f \in TapFrames : nl = Hands!Wait(l, m, f)
  <2> DEFINE Plain == {Hands!Move(l), Hands!Stop(l), Hands!Press(l, TRUE), Hands!Press(l, FALSE),
                       Hands!Click(l, ClickFrames), [l EXCEPT !.target = "joy"],
                       [l EXCEPT !.target = "mouse"]}
             Holds == {Hands!Hold(l, f) : f \in TapFrames}
             Clicks == {Hands!Click(l, f) : f \in TapFrames}
             Waits == {Hands!Wait(l, m, f) : m \in {"change", "quiet"}, f \in TapFrames}
             Pauses == {Hands!Wait(l, "frames", f) : f \in TapFrames}
  <2>1. Hands!PlainCommands(l) = Plain \cup Holds \cup Clicks \cup Waits \cup Pauses
    BY DEF Hands!PlainCommands
  <2>2. nl \in Waits => \E m \in {"change", "quiet"}, f \in TapFrames : nl = Hands!Wait(l, m, f)
    OBVIOUS
  <2>3. nl \in Pauses => \E f \in TapFrames : nl = Hands!Wait(l, "frames", f)
    OBVIOUS
  <2>4. nl \in Clicks \cup Holds => \E f \in TapFrames : nl = Hands!Click(l, f) \/ nl = Hands!Hold(l, f)
    OBVIOUS
  <2>5. nl \in Plain =>
          \/ nl \in {Hands!Move(l), Hands!Stop(l), Hands!Press(l, TRUE), Hands!Press(l, FALSE)}
          \/ nl \in {[l EXCEPT !.target = "joy"], [l EXCEPT !.target = "mouse"]}
          \/ nl = Hands!Click(l, ClickFrames)
    OBVIOUS
  <2>. HIDE DEF Plain, Holds, Clicks, Waits, Pauses
  <2>6. nl \in Plain \/ nl \in Clicks \cup Holds \/ nl \in Waits \/ nl \in Pauses  BY <2>1
  <2>7. CASE nl \in Waits \/ nl \in Pauses
    <3>1. \E m \in {"change", "quiet", "frames"} : \E f \in TapFrames : nl = Hands!Wait(l, m, f)
      BY <2>2, <2>3, <2>7
    <3>. QED  BY <3>1
  <2>8. CASE nl \in Clicks \cup Holds
    <3>1. \E f \in TapFrames \cup {ClickFrames} : nl = Hands!Click(l, f) \/ nl = Hands!Hold(l, f)
      BY <2>4, <2>8
    <3>. QED  BY <3>1
  <2>9. CASE nl \in Plain
    <3>1. ClickFrames \in TapFrames \cup {ClickFrames}  OBVIOUS
    <3>. QED  BY <2>5, <2>9, <3>1
  <2>. QED  BY <2>6, <2>7, <2>8, <2>9
<1>. QED  BY <1>3, <1>4, <1>5, <1>6, <1>7

LEMMA AgedOk ==
    ASSUME NEW l, PilotOk(l), NEW a, a = Hands!Aged(l)
    PROVE  PilotOk(a) /\ a.joyHeld = l.joyHeld /\ a.target = l.target
<1>1. PICK c : c = IF l.clickLeft > 0 THEN l.clickLeft - 1 ELSE 0  OBVIOUS
<1>2. PICK b : b = (l.btn /\ l.clickLeft # 1)  OBVIOUS
<1>3. PICK t : t = IF l.tapLeft > 0 THEN l.tapLeft - 1 ELSE 0  OBVIOUS
<1>4. a = [l EXCEPT !.clickLeft = c, !.btn = b, !.tapLeft = t]
  BY <1>1, <1>2, <1>3 DEF Hands!Aged
<1>5. c \in Nat /\ t \in Nat  BY <1>1, <1>3 DEF PilotOk
<1>6. b \in BOOLEAN  BY <1>2
<1>7. /\ DOMAIN a = DOMAIN l /\ a.clickLeft = c /\ a.btn = b /\ a.tapLeft = t /\ a.dir = l.dir
      /\ a.joyHeld = l.joyHeld /\ a.target = l.target /\ a.moveLeft = l.moveLeft
  BY <1>4 DEF PilotOk
<1>. QED  BY <1>5, <1>6, <1>7 DEF PilotOk

LEMMA MovedOk ==
    ASSUME NEW b, PilotOk(b), NEW m, m = Hands!Moved(b)
    PROVE  PilotOk(m) /\ m.joyHeld = b.joyHeld /\ m.btn = b.btn /\ m.tapLeft = b.tapLeft
<1>1. PICK n : n = IF b.moveLeft > 0 THEN b.moveLeft - 1 ELSE 0  OBVIOUS
<1>2. PICK d : d = (b.dir /\ b.moveLeft # 1)  OBVIOUS
<1>3. m = [b EXCEPT !.moveLeft = n, !.dir = d]  BY <1>1, <1>2 DEF Hands!Moved
<1>4. n \in Nat  BY <1>1 DEF PilotOk
<1>5. d \in BOOLEAN  BY <1>2
<1>6. /\ DOMAIN m = DOMAIN b /\ m.clickLeft = b.clickLeft /\ m.btn = b.btn /\ m.tapLeft = b.tapLeft
      /\ m.dir = d /\ m.joyHeld = b.joyHeld /\ m.moveLeft = n
  BY <1>3 DEF PilotOk
<1>. QED  BY <1>4, <1>5, <1>6 DEF PilotOk

(* pilot_tick: the joystick is set to what the pilot holds, or let go of   *)
LEMMA Applies ==
    ASSUME NEW p, NEW q, NEW k, NEW l, PilotOk(l), Held(k, p, q, Row(l)),
           NEW r, r = Hands!pilot_apply(l, k)
    PROVE  PilotOk(r[1]) /\ Held(r[2], p, q, Own(r[1]) \cup {Hands!TapKey})
<1>1. PICK a : a = Hands!Aged(l)  OBVIOUS
<1>2. PICK e : e = Hands!Expired(l, k)  OBVIOUS
<1>3. PICK z : z = Hands!Applied(a, e)  OBVIOUS
<1>4. PICK m : m = Hands!Moved(z[1])  OBVIOUS
<1>5. r = <<m, z[2]>>  BY <1>1, <1>2, <1>3, <1>4 DEF Hands!pilot_apply
<1>6. PilotOk(a) /\ a.joyHeld = l.joyHeld /\ a.target = l.target  BY <1>1, AgedOk
<1>7. e \subseteq k  BY <1>2 DEF Hands!Expired, Hands!release_keytap
<1>8. ASSUME NEW x \in e, ~By(x, p, q), x # Hands!TapKey PROVE l.joyHeld /\ x \in Hands!Row9
  BY <1>7, <1>8 DEF Held, Row, TapOf
<1>9. CASE a.target = "joy"
  <2>1. PICK b : b = [a EXCEPT !.joyHeld = TRUE]  OBVIOUS
  <2>2. z = <<b, (e \ Hands!Row9) \cup Hands!Mask(a)>>  BY <1>3, <1>9, <2>1 DEF Hands!Applied
  <2>3. PilotOk(b) /\ b.joyHeld = TRUE /\ b.btn = a.btn  BY <1>6, <2>1 DEF PilotOk
  <2>4. m = Hands!Moved(b)  BY <1>4, <2>2
  <2>5. PilotOk(m) /\ m.joyHeld = TRUE /\ m.btn = a.btn  BY <2>3, <2>4, MovedOk
  <2>6. Hands!Mask(a) \subseteq Own(m)  BY <2>5 DEF Hands!Mask, Own
  <2>7. \A x \in (e \ Hands!Row9) \cup Hands!Mask(a) : By(x, p, q) \/ x \in Own(m) \cup {Hands!TapKey}
    BY <1>8, <2>6
  <2>. QED  BY <1>5, <2>2, <2>5, <2>7 DEF Held
<1>10. CASE a.target # "joy"
  <2>1. PICK b : b = [a EXCEPT !.joyHeld = FALSE]  OBVIOUS
  <2>2. z = <<b, IF a.joyHeld THEN e \ Hands!Row9 ELSE e>>
    BY <1>3, <1>10, <2>1 DEF Hands!Applied
  <2>3. PilotOk(b)  BY <1>6, <2>1 DEF PilotOk
  <2>4. m = Hands!Moved(b)  BY <1>4, <2>2
  <2>5. PilotOk(m)  BY <2>3, <2>4, MovedOk
  <2>6. \A x \in (IF a.joyHeld THEN e \ Hands!Row9 ELSE e) : By(x, p, q) \/ x = Hands!TapKey
    BY <1>6, <1>8
  <2>. QED  BY <1>5, <2>2, <2>5, <2>6 DEF Held
<1>. QED  BY <1>9, <1>10

LEMMA PostFrame ==
    ASSUME NEW l, PilotOk(l), NEW ch \in BOOLEAN, NEW m, m = Hands!pilot_post_frame(l, ch)
    PROVE  PilotOk(m) /\ Own(m) = Own(l) /\ m.tapLeft = l.tapLeft
<1>1. PICK qu : qu = IF ch THEN 0 ELSE 1  OBVIOUS
<1>2. PICK w : w = IF l.waitLeft > 0 THEN l.waitLeft - 1 ELSE 0  OBVIOUS
<1>3. PICK z : z = [l EXCEPT !.quiet = qu, !.waitLeft = w]  OBVIOUS
<1>4. PICK y : y = [z EXCEPT !.wait = "none", !.waitLeft = 0]  OBVIOUS
<1>5. m = z \/ m = y  BY <1>1, <1>2, <1>3, <1>4 DEF Hands!pilot_post_frame
<1>6. ASSUME NEW x, x = z \/ x = y
      PROVE  /\ DOMAIN x = DOMAIN l /\ x.clickLeft = l.clickLeft /\ x.btn = l.btn /\ x.dir = l.dir
             /\ x.tapLeft = l.tapLeft /\ x.joyHeld = l.joyHeld /\ x.moveLeft = l.moveLeft
  <2>1. CASE x = z  BY <2>1, <1>3 DEF PilotOk
  <2>2. CASE x = y  BY <2>2, <1>3, <1>4 DEF PilotOk
  <2>. QED  BY <2>1, <2>2, <1>6
<1>. QED  BY <1>5, <1>6 DEF PilotOk, Own, TapOf, Hands!Mask

-----------------------------------------------------------------------------
HandInv == Fine(v2, v4) /\ PilotOk(v3) /\ Held(v1, v2, v4, Own(v3))

LEMMA FrameStep ==
    ASSUME NEW x, Fine(x.ps, x.o), PilotOk(x.pl), Held(x.keys, x.ps, x.o, Row(x.pl)),
           NEW cmd \in BOOLEAN, NEW ch \in BOOLEAN, Hands!Frame(x, cmd, ch)
    PROVE  HandInv'
<1>1. PICK ap : ap = Hands!pilot_apply(x.pl, x.keys)  OBVIOUS
<1>2. PICK n : n = IF cmd THEN x.o.n + 1 ELSE x.o.n  OBVIOUS
<1>3. PICK st : st = IF Hands!TapKey \in ap[2] /\ ap[1].tapLeft = 0
                     THEN x.o.stuck \cup {Hands!TapKey} ELSE x.o.stuck  OBVIOUS
<1>4. /\ v1' = ap[2] /\ v2' = x.ps /\ v3' = Hands!pilot_post_frame(ap[1], ch)
      /\ v4' = [x.o EXCEPT !.n = n, !.stuck = st]
  BY <1>1, <1>2, <1>3 DEF Hands!Frame
<1>5. PilotOk(ap[1]) /\ Held(ap[2], x.ps, x.o, Own(ap[1]) \cup {Hands!TapKey})  BY <1>1, Applies
<1>6. PilotOk(v3') /\ Own(v3') = Own(ap[1])  BY <1>4, <1>5, PostFrame
<1>7. PICK q : q = v4'  OBVIOUS
<1>8. Keeps(x.o, q) /\ q.text = x.o.text /\ q.typed = x.o.typed /\ q.stuck = st
  BY <1>4, <1>7 DEF Keeps, Fine, OthersOk
<1>9. Fine(x.ps, q)
  <2>1. OthersOk(q)  BY <1>8 DEF OthersOk, Fine, Keeps
  <2>2. InOrder(x.ps, q) /\ TermOk(q)  BY <1>8 DEF InOrder, TermOk, Fine, Keeps
  <2>. QED  BY <2>1, <2>2 DEF Fine
<1>10. ASSUME NEW y \in ap[2] PROVE By(y, x.ps, q) \/ y \in Own(ap[1])
  <2>1. By(y, x.ps, x.o) \/ y \in Own(ap[1]) \/ y = Hands!TapKey  BY <1>5 DEF Held
  <2>2. By(y, x.ps, x.o) => By(y, x.ps, q)  BY <1>3, <1>8 DEF By, Keeps, Hands!ScriptDone
  <2>3. CASE y = Hands!TapKey
    <3>1. CASE ap[1].tapLeft = 0
      <4>1. y \in q.stuck  BY <1>3, <1>8, <2>3, <3>1
      <4>. QED  BY <4>1 DEF By
    <3>2. CASE ap[1].tapLeft # 0
      <4>1. ap[1].tapLeft > 0  BY <1>5, <3>2 DEF PilotOk
      <4>. QED  BY <4>1, <2>3 DEF Own, TapOf
    <3>. QED  BY <3>1, <3>2
  <2>. QED  BY <2>1, <2>2, <2>3
<1>11. Held(v1', v2', q, Own(v3'))  BY <1>4, <1>6, <1>10 DEF Held
<1>. QED  BY <1>4, <1>6, <1>7, <1>9, <1>11 DEF HandInv

LEMMA TickedFine ==
    ASSUME HandInv, NEW x, x = Hands!Ticked
    PROVE  /\ Fine(x.ps, x.o) /\ x.pl = v3 /\ PilotOk(x.pl) /\ Held(x.keys, x.ps, x.o, Row(x.pl))
           /\ DOMAIN x = {"pl", "keys", "ps", "o"}
<1>1. PICK y : y = Hands!kbd_pty_tick(v2, v4)  OBVIOUS
<1>2. PICK t : t = Hands!paste_tick(y[1], v1)  OBVIOUS
<1>3. PICK q : q = Hands!Noted(y[1], t[1], y[2])  OBVIOUS
<1>4. PICK s : s = Hands!joyscript_tick(q, t[2])  OBVIOUS
<1>5. x = [pl |-> v3, keys |-> s[2], ps |-> t[1], o |-> s[1]]
  BY <1>1, <1>2, <1>3, <1>4 DEF Hands!Ticked
<1>6. Fine(v2, v4) /\ PilotOk(v3) /\ Held(v1, v2, v4, Row(v3))
  BY OwnRow, HeldMore DEF HandInv
<1>7. Fine(y[1], y[2]) /\ Held(v1, y[1], y[2], Row(v3))  BY <1>1, <1>6, PtyTick
<1>8. Fine(t[1], q) /\ Held(t[2], t[1], q, Row(v3))  BY <1>2, <1>3, <1>7, PasteTick
<1>9. Fine(t[1], s[1]) /\ Held(s[2], t[1], s[1], Row(v3))  BY <1>4, <1>8, ScriptTick
<1>. QED  BY <1>5, <1>6, <1>9

LEMMA CommandsStep == HandInv /\ (Hands!FrameOnly \/ Hands!Pilot) => HandInv'
<1> SUFFICES ASSUME HandInv, Hands!FrameOnly \/ Hands!Pilot PROVE HandInv'  OBVIOUS
<1>1. PICK x : x = Hands!Ticked  OBVIOUS
<1>2. /\ Fine(x.ps, x.o) /\ x.pl = v3 /\ PilotOk(x.pl) /\ Held(x.keys, x.ps, x.o, Row(x.pl))
      /\ DOMAIN x = {"pl", "keys", "ps", "o"}
  BY <1>1, TickedFine
<1>3. CASE Hands!FrameOnly
  <2>1. PICK ch \in BOOLEAN : Hands!Frame(x, FALSE, ch)  BY <1>1, <1>3 DEF Hands!FrameOnly
  <2>. QED  BY <1>2, <2>1, FrameStep
<1>4. ASSUME NEW r, PilotOk(r[1]), Held(r[2], x.ps, x.o, Row(r[1])), Hands!Frame(Hands!Keyed(x, r), TRUE, FALSE)
      PROVE  HandInv'
  <2>1. PICK z : z = Hands!Keyed(x, r)  OBVIOUS
  <2>2. z.ps = x.ps /\ z.o = x.o /\ z.pl = r[1] /\ z.keys = r[2]
    BY <1>2, <2>1 DEF Hands!Keyed
  <2>3. Hands!Frame(z, TRUE, FALSE)  BY <2>1, <1>4
  <2>. QED  BY <1>2, <1>4, <2>2, <2>3, FrameStep
<1>5. CASE Hands!PilotTap
  <2>1. PICK f \in TapFrames : Hands!Frame(Hands!Keyed(x, Hands!KeyTap(x.pl, x.keys, f)), TRUE, FALSE)
    BY <1>1, <1>5 DEF Hands!PilotTap
  <2>2. PICK r : r = Hands!KeyTap(x.pl, x.keys, f)  OBVIOUS
  <2>3. PilotOk(r[1]) /\ Held(r[2], x.ps, x.o, Row(r[1]))  BY <1>2, <2>2, Taps
  <2>. QED  BY <2>1, <2>2, <2>3, <1>4
<1>6. CASE Hands!PilotResets
  <2>1. Hands!Frame(Hands!Keyed(x, Hands!PilotReset(x.pl, x.keys)), TRUE, FALSE)
    BY <1>1, <1>6 DEF Hands!PilotResets
  <2>2. PICK r : r = Hands!PilotReset(x.pl, x.keys)  OBVIOUS
  <2>3. PilotOk(r[1]) /\ Held(r[2], x.ps, x.o, Row(r[1]))  BY <1>2, <2>2, Resets
  <2>. QED  BY <2>1, <2>2, <2>3, <1>4
<1>7. CASE Hands!PilotPaste
  <2>1. PICK t \in Texts : Hands!Frame([x EXCEPT !.ps = Hands!paste_text_raw(t),
                                                 !.o = Hands!Retyped(x.ps, t, @)], TRUE, FALSE)
    BY <1>1, <1>7 DEF Hands!PilotPaste
  <2>2. PICK np, nq : np = Hands!paste_text_raw(t) /\ nq = Hands!Retyped(x.ps, t, x.o)  OBVIOUS
  <2>3. PICK z : z = [x EXCEPT !.ps = np, !.o = nq]  OBVIOUS
  <2>4. Hands!Frame(z, TRUE, FALSE)  BY <2>1, <2>2, <2>3
  <2>5. z.ps = np /\ z.o = nq /\ z.pl = x.pl /\ z.keys = x.keys  BY <1>2, <2>3
  <2>6. Fine(np, nq) /\ Held(x.keys, np, nq, Row(x.pl))  BY <1>2, <2>2, TextsOk, PasteText
  <2>. QED  BY <1>2, <2>4, <2>5, <2>6, FrameStep
<1>8. CASE Hands!PilotPlain
  <2>1. PICK nl \in Hands!PlainCommands(v3) : Hands!Frame([x EXCEPT !.pl = nl], TRUE, FALSE)
    BY <1>1, <1>8 DEF Hands!PilotPlain
  <2>2. PICK z : z = [x EXCEPT !.pl = nl]  OBVIOUS
  <2>3. z.ps = x.ps /\ z.o = x.o /\ z.pl = nl /\ z.keys = x.keys  BY <1>2, <2>2
  <2>4. PilotOk(nl) /\ Row(nl) = Row(v3)  BY <1>2, PlainOnes
  <2>5. Hands!Frame(z, TRUE, FALSE)  BY <2>1, <2>2
  <2>. QED  BY <1>2, <2>3, <2>4, <2>5, FrameStep
<1>. QED  BY <1>3, <1>5, <1>6, <1>7, <1>8 DEF Hands!Pilot

(* What a hand does leaves the texts alone *)
SameTexts(q, r) ==
    /\ DOMAIN r = DOMAIN q /\ r.script = q.script /\ r.in = q.in /\ r.wire = q.wire
    /\ r.sent = q.sent /\ r.given = q.given /\ r.text = q.text /\ r.typed = q.typed

LEMMA SameFine ==
    ASSUME NEW p, NEW q, NEW r, Fine(p, q), SameTexts(q, r),
           r.pad \subseteq Hands!Row9
    PROVE  Fine(p, r)
<1>1. OthersOk(r)  BY DEF Fine, OthersOk, SameTexts
<1>2. InOrder(p, r) /\ TermOk(r)  BY DEF Fine, InOrder, TermOk, SameTexts
<1>. QED  BY <1>1, <1>2 DEF Fine

LEMMA EventKeeps ==
    ASSUME NEW q, OthersOk(q), Hands!Event(q)
    PROVE  /\ SameTexts(q, v4') /\ v4'.host = q.host /\ v4'.pad = q.pad /\ v4'.stuck = q.stuck
<1>1. PICK n : n = q.n + 1  OBVIOUS
<1>2. v4' = [q EXCEPT !.n = n]  BY <1>1 DEF Hands!Event
<1>. QED  BY <1>2 DEF OthersOk, SameTexts

(* A hand presses a key or lifts some. *)
LEMMA HandStep ==
    ASSUME HandInv, UNCHANGED <<v2, v3>>, NEW host, NEW pad \in SUBSET Hands!Row9, NEW stuck,
           Hands!Event([v4 EXCEPT !.host = host, !.pad = pad, !.stuck = stuck]),
           \A y \in v1' : \/ y \in host \cup pad
                          \/ /\ y \in v1
                             /\ y \in v4.host => y \in host
                             /\ y \in v4.pad => y \in pad
                             /\ y \in v4.stuck => y \in stuck
    PROVE  HandInv'
<1>1. PICK q : q = [v4 EXCEPT !.host = host, !.pad = pad, !.stuck = stuck]  OBVIOUS
<1>2. OthersOk(v4) /\ Fine(v2, v4) /\ Held(v1, v2, v4, Own(v3))  BY DEF HandInv, Fine
<1>3. SameTexts(v4, q) /\ q.host = host /\ q.pad = pad /\ q.stuck = stuck
  BY <1>1, <1>2 DEF SameTexts, OthersOk
<1>4. Fine(v2, q)  BY <1>2, <1>3, SameFine
<1>5. OthersOk(q) /\ Hands!Event(q)  BY <1>1, <1>4 DEF Fine
<1>6. PICK r : r = v4'  OBVIOUS
<1>7. SameTexts(q, r) /\ r.host = host /\ r.pad = pad /\ r.stuck = stuck
  BY <1>3, <1>5, <1>6, EventKeeps
<1>8. Fine(v2, r)  BY <1>4, <1>7, SameFine
<1>9. ASSUME NEW y \in v1' PROVE By(y, v2, r) \/ y \in Own(v3)
  <2>1. CASE y \in host \cup pad  BY <2>1, <1>7 DEF By
  <2>2. CASE y \notin host \cup pad
    <3>1. y \in v1 /\ y \notin v4.host /\ y \notin v4.pad /\ (y \in v4.stuck => y \in stuck)
      BY <2>2
    <3>2. By(y, v2, v4) \/ y \in Own(v3)  BY <3>1, <1>2 DEF Held
    <3>3. r.script = v4.script  BY <1>3, <1>7 DEF SameTexts
    <3>. QED  BY <3>1, <3>2, <3>3, <1>7 DEF By, Hands!ScriptDone
  <2>. QED  BY <2>1, <2>2
<1>10. Held(v1', v2, r, Own(v3))  BY <1>9 DEF Held
<1>. QED  BY <1>6, <1>8, <1>10 DEF HandInv

LEMMA HandsStep == HandInv /\ Hands!Hands => HandInv'
<1> SUFFICES ASSUME HandInv, Hands!Hands PROVE HandInv'  OBVIOUS
<1>1. OthersOk(v4) /\ UNCHANGED <<v2, v3>>  BY DEF HandInv, Fine, Hands!Hands
<1>2. ASSUME NEW host, NEW pad, NEW stuck
      PROVE  /\ [v4 EXCEPT !.host = host] = [v4 EXCEPT !.host = host, !.pad = v4.pad, !.stuck = v4.stuck]
             /\ [v4 EXCEPT !.pad = pad] = [v4 EXCEPT !.host = v4.host, !.pad = pad, !.stuck = v4.stuck]
             /\ [v4 EXCEPT !.stuck = stuck] = [v4 EXCEPT !.host = v4.host, !.pad = v4.pad, !.stuck = stuck]
             /\ [v4 EXCEPT !.host = host, !.stuck = stuck]
                  = [v4 EXCEPT !.host = host, !.pad = v4.pad, !.stuck = stuck]
  BY <1>1 DEF OthersOk
<1>3. CASE Hands!HostKey
  <2>1. PICK x : \/ /\ v1' = v1 \cup {x} /\ Hands!Event([v4 EXCEPT !.host = v4.host \cup {x}])
                 \/ /\ v1' = v1 \ {x}
                    /\ Hands!Event([v4 EXCEPT !.host = v4.host \ {x}, !.stuck = v4.stuck \ {x}])
    BY <1>3 DEF Hands!HostKey
  <2>2. CASE v1' = v1 \cup {x} /\ Hands!Event([v4 EXCEPT !.host = v4.host \cup {x}])
    <3>1. PICK host : host = v4.host \cup {x}  OBVIOUS
    <3>2. Hands!Event([v4 EXCEPT !.host = host, !.pad = v4.pad, !.stuck = v4.stuck])
      BY <1>2, <2>2, <3>1
    <3>3. v4.pad \in SUBSET Hands!Row9  BY <1>1 DEF OthersOk
    <3>4. \A y \in v1' : y \in host \cup v4.pad \/ (y \in v1 /\ (y \in v4.host => y \in host))
      BY <2>2, <3>1
    <3>. QED  BY <1>1, <3>2, <3>3, <3>4, HandStep
  <2>3. CASE /\ v1' = v1 \ {x}
             /\ Hands!Event([v4 EXCEPT !.host = v4.host \ {x}, !.stuck = v4.stuck \ {x}])
    <3>1. PICK host, stuck : host = v4.host \ {x} /\ stuck = v4.stuck \ {x}  OBVIOUS
    <3>2. Hands!Event([v4 EXCEPT !.host = host, !.pad = v4.pad, !.stuck = stuck])
      BY <1>2, <2>3, <3>1
    <3>3. v4.pad \in SUBSET Hands!Row9  BY <1>1 DEF OthersOk
    <3>4. \A y \in v1' : \/ y \in host \cup v4.pad
                          \/ /\ y \in v1
                             /\ y \in v4.host => y \in host
                             /\ y \in v4.pad => y \in v4.pad
                             /\ y \in v4.stuck => y \in stuck
      BY <2>3, <3>1
    <3>. QED  BY <1>1, <3>2, <3>3, <3>4, HandStep, ZenonT(40)
  <2>. QED  BY <2>1, <2>2, <2>3
<1>4. CASE Hands!PadButton
  <2>1. PICK x \in Hands!Row9 :
                 \/ v1' = v1 \cup {x} /\ Hands!Event([v4 EXCEPT !.pad = v4.pad \cup {x}])
                 \/ v1' = v1 \ {x} /\ Hands!Event([v4 EXCEPT !.pad = v4.pad \ {x}])
    BY <1>4 DEF Hands!PadButton
  <2>2. PICK pad : \/ v1' = v1 \cup {x} /\ pad = v4.pad \cup {x} /\ Hands!Event([v4 EXCEPT !.pad = pad])
                   \/ v1' = v1 \ {x} /\ pad = v4.pad \ {x} /\ Hands!Event([v4 EXCEPT !.pad = pad])
    BY <2>1
  <2>3. Hands!Event([v4 EXCEPT !.host = v4.host, !.pad = pad, !.stuck = v4.stuck])
    BY <1>2, <2>2
  <2>4. \A y \in v1' : y \in v4.host \cup pad \/ (y \in v1 /\ (y \in v4.pad => y \in pad))
    BY <2>2
  <2>5. pad \in SUBSET Hands!Row9  BY <1>1, <2>2 DEF OthersOk
  <2>. QED  BY <1>1, <2>3, <2>4, <2>5, HandStep
<1>5. CASE Hands!PadRemoved
  <2>1. v1' = v1 \ Hands!Row9 /\ Hands!Event([v4 EXCEPT !.pad = {}])  BY <1>5 DEF Hands!PadRemoved
  <2>2. Hands!Event([v4 EXCEPT !.host = v4.host, !.pad = {}, !.stuck = v4.stuck])
    BY <1>2, <2>1
  <2>3. v4.pad \subseteq Hands!Row9 /\ {} \in SUBSET Hands!Row9  BY <1>1 DEF OthersOk
  <2>4. \A y \in v1' : \/ y \in v4.host \cup {}
                        \/ /\ y \in v1
                           /\ y \in v4.host => y \in v4.host
                           /\ y \in v4.pad => y \in {}
                           /\ y \in v4.stuck => y \in v4.stuck
    BY <2>1, <2>3
  <2>. QED  BY <1>1, <2>2, <2>3, <2>4, HandStep, ZenonT(40)
<1>6. CASE Hands!CpcReset
  <2>1. v1' = {} /\ Hands!Event([v4 EXCEPT !.stuck = {}])  BY <1>6 DEF Hands!CpcReset
  <2>2. Hands!Event([v4 EXCEPT !.host = v4.host, !.pad = v4.pad, !.stuck = {}])
    BY <1>2, <2>1
  <2>3. v4.pad \in SUBSET Hands!Row9  BY <1>1 DEF OthersOk
  <2>4. \A y \in v1' : FALSE  BY <2>1
  <2>. QED  BY <1>1, <2>2, <2>3, <2>4, HandStep
<1>. QED  BY <1>3, <1>4, <1>5, <1>6 DEF Hands!Hands

LEMMA TextsStep == HandInv /\ (Hands!Clipboard \/ Hands!TerminalWrites) => HandInv'
<1> SUFFICES ASSUME HandInv, Hands!Clipboard \/ Hands!TerminalWrites PROVE HandInv'  OBVIOUS
<1>1. Fine(v2, v4) /\ OthersOk(v4) /\ PilotOk(v3) /\ Held(v1, v2, v4, Own(v3))  BY DEF HandInv, Fine
<1>2. ASSUME NEW q, NEW p, Fine(p, q), Held(v1, p, q, Own(v3)), Hands!Event(q), v2' = p,
             UNCHANGED <<v1, v3>>
      PROVE  HandInv'
  <2>1. PICK r : r = v4'  OBVIOUS
  <2>2. SameTexts(q, r) /\ r.host = q.host /\ r.pad = q.pad /\ r.stuck = q.stuck
    BY <1>2, <2>1, EventKeeps DEF Fine
  <2>3. r.pad \subseteq Hands!Row9  BY <1>2, <2>2 DEF Fine, OthersOk
  <2>4. Fine(p, r)  BY <1>2, <2>2, <2>3, SameFine
  <2>5. Held(v1, p, r, Own(v3))  BY <1>2, <2>2 DEF Held, By, SameTexts, Hands!ScriptDone
  <2>. QED  BY <1>1, <1>2, <2>1, <2>4, <2>5 DEF HandInv
<1>3. CASE Hands!Clipboard
  <2>1. PICK t \in Texts : /\ v2' = Hands!paste_text_raw(t) /\ Hands!Event(Hands!Retyped(v2, t, v4))
                           /\ UNCHANGED <<v1, v3>>
    BY <1>3 DEF Hands!Clipboard
  <2>2. PICK np, nq : np = Hands!paste_text_raw(t) /\ nq = Hands!Retyped(v2, t, v4)  OBVIOUS
  <2>3. t \in Seq(Letter)  BY TextsOk
  <2>4. Fine(np, nq) /\ Held(v1, np, nq, Own(v3))  BY <1>1, <2>2, <2>3, PasteText
  <2>. QED  BY <1>2, <2>1, <2>2, <2>4
<1>4. CASE Hands!TerminalWrites
  <2>1. PICK t \in Texts : /\ Hands!Event([v4 EXCEPT !.wire = v4.wire \o t, !.sent = v4.sent \o t])
                           /\ UNCHANGED <<v1, v2, v3>>
    BY <1>4 DEF Hands!TerminalWrites
  <2>2. PICK wi, se : wi = v4.wire \o t /\ se = v4.sent \o t  OBVIOUS
  <2>3. PICK q : q = [v4 EXCEPT !.wire = wi, !.sent = se]  OBVIOUS
  <2>4. Hands!Event(q)  BY <2>1, <2>2, <2>3
  <2>5. /\ DOMAIN q = DOMAIN v4 /\ q.script = v4.script /\ q.in = v4.in /\ q.wire = wi
        /\ q.sent = se /\ q.given = v4.given /\ q.text = v4.text /\ q.typed = v4.typed
        /\ q.host = v4.host /\ q.pad = v4.pad /\ q.stuck = v4.stuck
    BY <1>1, <2>3 DEF OthersOk
  <2>6. /\ t \in Seq(Letter) /\ v4.wire \in Seq(Letter) /\ v4.sent \in Seq(Letter)
        /\ v4.in \in Seq(Letter) /\ v4.given \in Seq(Letter)
    BY <1>1, TextsOk DEF OthersOk
  <2>7. wi \in Seq(Letter) /\ se \in Seq(Letter)  BY <2>2, <2>6, ConcatProperties
  <2>8. OthersOk(q)  BY <1>1, <2>5, <2>7 DEF OthersOk
  <2>9. TermOk(q)
    <3>1. v4.sent = v4.given \o (v4.in \o v4.wire)  BY <1>1 DEF Fine, TermOk
    <3>2. v4.in \o v4.wire \in Seq(Letter)  BY <2>6, ConcatProperties
    <3>3. (v4.given \o (v4.in \o v4.wire)) \o t = v4.given \o ((v4.in \o v4.wire) \o t)
      BY <2>6, <3>2, LetterAssoc, ZenonT(40)
    <3>4. (v4.in \o v4.wire) \o t = v4.in \o (v4.wire \o t)  BY <2>6, LetterAssoc, ZenonT(40)
    <3>5. se = v4.given \o (v4.in \o wi)  BY <2>2, <3>1, <3>3, <3>4, Zenon
    <3>. QED  BY <2>5, <3>5 DEF TermOk
  <2>10. InOrder(v2, q)  BY <1>1, <2>5 DEF Fine, InOrder
  <2>11. Fine(v2, q)  BY <1>1, <2>8, <2>9, <2>10 DEF Fine
  <2>12. Held(v1, v2, q, Own(v3))  BY <1>1, <2>5 DEF Held, By, Hands!ScriptDone
  <2>. QED  BY <1>2, <2>1, <2>4, <2>11, <2>12
<1>. QED  BY <1>3, <1>4

LEMMA HandsStart == Hands!Init => HandInv
<1> SUFFICES ASSUME Hands!Init PROVE HandInv  OBVIOUS
<1>1. v1 = {} /\ v2 = [buf |-> <<>>, pos |-> 1, timer |-> 0, held |-> FALSE]  BY DEF Hands!Init
<1>2. PICK script \in {1, Len(Script) + 1} :
         v4 = [in |-> <<>>, wire |-> <<>>, script |-> script, stepLeft |-> Script[1].frames,
               host |-> {}, pad |-> {}, text |-> <<>>, typed |-> <<>>, sent |-> <<>>, given |-> <<>>,
               stuck |-> {}, n |-> 0]
  BY DEF Hands!Init
<1>3. PasteOk(v2)  BY <1>1 DEF PasteOk
<1>4. script \in 1 .. Len(Script) + 1 /\ 0 <= PtyMax  BY TextsOk
<1>5. OthersOk(v4)
  <2>1. Len(<<>>) = 0 /\ <<>> \in Seq(Letter) /\ <<>> \in Seq(Strokes)  OBVIOUS
  <2>2. /\ DOMAIN v4 = {"in", "wire", "script", "stepLeft", "host", "pad", "text", "typed", "sent", "given",
                        "stuck", "n"}
        /\ v4.script = script /\ v4.in = <<>> /\ v4.wire = <<>> /\ v4.text = <<>> /\ v4.typed = <<>>
        /\ v4.sent = <<>> /\ v4.given = <<>> /\ v4.pad = {}
    BY <1>2
  <2>. QED  BY <1>4, <2>1, <2>2 DEF OthersOk
<1>6. InOrder(v2, v4)
  <2>1. v4.text = <<>> /\ v4.typed = <<>> /\ v2.buf = <<>> /\ v2.pos = 1  BY <1>1, <1>2
  <2>2. Typed(<<>>, <<>>, 0)  BY DEF Typed
  <2>3. PICK d \in Nat : d = 0  OBVIOUS
  <2>4. /\ d = Len(v4.text) - Len(v2.buf) /\ 0 = d + v2.pos - 1
        /\ \A i \in v2.pos .. Len(v2.buf) : v4.text[d + i] = v2.buf[i]
    BY <2>1, <2>3
  <2>5. Typed(v4.typed, v4.text, 0)  BY <2>1, <2>2
  <2>. QED  BY <2>4, <2>5, Ordered
<1>7. TermOk(v4)
  <2>1. v4.in = <<>> /\ v4.wire = <<>> /\ v4.sent = <<>> /\ v4.given = <<>>  BY <1>2
  <2>2. <<>> \o (<<>> \o <<>>) = <<>>  BY ConcatEmptySeq
  <2>. QED  BY <2>1, <2>2 DEF TermOk
<1>8. PilotOk(v3)  BY DEF Hands!Init, PilotOk
<1>9. Held(v1, v2, v4, Own(v3))  BY <1>1 DEF Held
<1>. QED  BY <1>3, <1>5, <1>6, <1>7, <1>8, <1>9 DEF HandInv, Fine

LEMMA SameSlices ==
    ASSUME NEW text \in Seq(Letter), NEW buf \in Seq(Letter), NEW d \in Nat, NEW a \in Nat, NEW b \in Nat,
           Laid(text, buf, d, a, b), 1 <= a, b <= Len(buf), d + b <= Len(text)
    PROVE  SubSeq(text, d + a, d + b) = SubSeq(buf, a, b)
<1>1. \A i \in d + a .. d + b : text[i] \in Letter
  <2>1. \A i \in d + a .. d + b : i \in 1 .. Len(text)  OBVIOUS
  <2>. QED  BY <2>1
<1>2. \A i \in a .. b : buf[i] \in Letter
  <2>1. \A i \in a .. b : i \in 1 .. Len(buf)  OBVIOUS
  <2>. QED  BY <2>1
<1>3. PICK m \in Int, n \in Int : m = d + a /\ n = d + b  OBVIOUS
<1>4. PICK s, t : s = SubSeq(text, m, n) /\ t = SubSeq(buf, a, b)  OBVIOUS
<1>5. s \in Seq(Letter) /\ Len(s) = (IF m <= n THEN n - m + 1 ELSE 0)
      /\ \A i \in 1 .. n - m + 1 : s[i] = text[m + i - 1]
  <2>1. \A i \in m .. n : text[i] \in Letter  BY <1>1, <1>3
  <2>2. s = SubSeq(text, m, n)  BY <1>4
  <2>. QED  BY <2>1, <2>2, SubSeqProperties
<1>6. t \in Seq(Letter) /\ Len(t) = (IF a <= b THEN b - a + 1 ELSE 0)
      /\ \A i \in 1 .. b - a + 1 : t[i] = buf[a + i - 1]
  <2>1. PICK e \in Int, f \in Int : e = a /\ f = b  OBVIOUS
  <2>2. \A i \in e .. f : buf[i] \in Letter  BY <1>2, <2>1
  <2>3. t = SubSeq(buf, e, f)  BY <1>4, <2>1
  <2>4. t \in Seq(Letter) /\ Len(t) = (IF e <= f THEN f - e + 1 ELSE 0)
        /\ \A i \in 1 .. f - e + 1 : t[i] = buf[e + i - 1]
    BY <2>2, <2>3, SubSeqProperties
  <2>. QED  BY <2>1, <2>4
<1>7. Len(s) = Len(t)  BY <1>3, <1>5, <1>6
<1>8. ASSUME NEW i \in 1 .. Len(s) PROVE s[i] = t[i]
  <2>1. /\ i \in 1 .. n - m + 1 /\ i \in 1 .. b - a + 1
        /\ m + i - 1 = d + (a + i - 1) /\ a + i - 1 \in a .. b
    <3>1. n - m = b - a /\ m = d + a  BY <1>3
    <3>2. Len(s) = IF m <= n THEN n - m + 1 ELSE 0  BY <1>5
    <3>3. i \in 1 .. n - m + 1  BY <3>2
    <3>4. i \in Int /\ 1 <= i /\ i <= b - a + 1  BY <3>1, <3>3
    <3>5. a + i - 1 \in a .. b  BY <3>4
    <3>. QED  BY <3>1, <3>3, <3>4, <3>5
  <2>2. text[d + (a + i - 1)] = buf[a + i - 1]  BY <2>1 DEF Laid
  <2>. QED  BY <2>1, <2>2, <1>5, <1>6
<1>9. s = t  BY <1>5, <1>6, <1>7, <1>8, SeqEqual
<1>. QED  BY <1>3, <1>4, <1>9

LEMMA HandsShow == HandInv => Hands!InputsSound
<1> SUFFICES ASSUME HandInv PROVE Hands!InputsSound  OBVIOUS
<1>1. /\ PasteOk(v2) /\ OthersOk(v4) /\ InOrder(v2, v4) /\ TermOk(v4) /\ PilotOk(v3)
      /\ Held(v1, v2, v4, Own(v3))
  BY DEF HandInv, Fine
<1>2. Hands!NothingForgotten
  <2>1. ASSUME NEW x \in v1 PROVE x \in Hands!Holders \cup v4.stuck
    <3>1. By(x, v2, v4) \/ x \in Own(v3)  BY <1>1 DEF Held
    <3>2. By(x, v2, v4) => x \in Hands!Holders \cup v4.stuck  BY DEF By, Hands!Holders
    <3>3. x \in Own(v3) => x \in Hands!Holders  BY DEF Own, TapOf, Hands!Holders
    <3>. QED  BY <3>1, <3>2, <3>3
  <2>. QED  BY <2>1 DEF Hands!NothingForgotten
<1>3. Hands!TerminalKept
  <2>1. v4.in \in Seq(Letter) /\ v4.given \in Seq(Letter) /\ v4.wire \in Seq(Letter)
    BY <1>1 DEF OthersOk
  <2>2. (v4.given \o v4.in) \o v4.wire = v4.given \o (v4.in \o v4.wire)  BY <2>1, LetterAssoc
  <2>3. Len(v4.in) <= PtyMax  BY <1>1 DEF OthersOk
  <2>. QED  BY <1>1, <2>2, <2>3 DEF TermOk, Hands!TerminalKept
<1>4. Hands!TypedInOrder
  <2>0. PICK p, q : p = v2 /\ q = v4  OBVIOUS
  <2>7. PasteOk(p) /\ OthersOk(q) /\ InOrder(p, q)  BY <1>1, <2>0
  <2>1. PICK d \in Nat, b \in Nat, a \in Nat, gone \in Nat :
              /\ b = Len(p.buf) /\ a = p.pos /\ Len(q.text) = d + b /\ d = Len(q.text) - b
              /\ 1 <= a /\ a <= b + 1 /\ gone = d + a - 1
              /\ Laid(q.text, p.buf, d, a, b)
              /\ Typed(q.typed, q.text, gone)
    BY <2>7, OrderFacts
  <2>2. Hands!Gone(p, q) = gone
    <3>1. Hands!Gone(p, q) = Len(q.text) - b + a - 1  BY <2>1 DEF Hands!Gone
    <3>. QED  BY <3>1, <2>1
  <2>3. /\ q.typed \in Seq(Strokes) /\ q.text \in Seq(Letter) /\ p.buf \in Seq(Letter)
        /\ DOMAIN q.typed = 1 .. Len(q.typed) /\ Len(q.typed) \in Nat
    BY <2>7 DEF OthersOk, PasteOk
  <2>4. SubSeq(q.text, gone + 1, Len(q.text)) = SubSeq(p.buf, p.pos, Len(p.buf))
    <3>1. PICK text \in Seq(Letter), buf \in Seq(Letter) : text = q.text /\ buf = p.buf  BY <2>3
    <3>2. Len(text) = d + b /\ Len(buf) = b /\ gone + 1 = d + a  BY <2>1, <3>1
    <3>3. SubSeq(text, d + a, d + b) = SubSeq(buf, a, b)
      <4>1. Laid(text, buf, d, a, b) /\ 1 <= a /\ b <= Len(buf) /\ d + b <= Len(text)
        BY <2>1, <3>1, <3>2
      <4>. QED  BY <4>1, SameSlices
    <3>. QED  BY <3>1, <3>2, <3>3, <2>1
  <2>5. {q.typed[i].at : i \in DOMAIN q.typed} = {i \in 1 .. gone : Hands!Mapped(q.text[i])}
    <3>1. \A i \in DOMAIN q.typed : q.typed[i].at \in 1 .. gone /\ Hands!Mapped(q.text[q.typed[i].at])
      BY <2>1, <2>3 DEF Typed
    <3>2. \A i \in 1 .. gone : Hands!Mapped(q.text[i]) => \E j \in DOMAIN q.typed : q.typed[j].at = i
      BY <2>1, <2>3 DEF Typed
    <3>. QED  BY <3>1, <3>2
  <2>6. \A i \in DOMAIN q.typed : /\ q.typed[i].key = q.text[q.typed[i].at]
                                   /\ \A j \in 1 .. i - 1 : q.typed[j].at < q.typed[i].at
    BY <2>1, <2>3 DEF Typed
  <2>8. Hands!Gone(v2, v4) = gone  BY <2>0, <2>2
  <2>9. /\ SubSeq(v4.text, gone + 1, Len(v4.text)) = SubSeq(v2.buf, v2.pos, Len(v2.buf))
        /\ {v4.typed[i].at : i \in DOMAIN v4.typed} = {i \in 1 .. gone : Hands!Mapped(v4.text[i])}
        /\ \A i \in DOMAIN v4.typed : /\ v4.typed[i].key = v4.text[v4.typed[i].at]
                                      /\ \A j \in 1 .. i - 1 : v4.typed[j].at < v4.typed[i].at
    BY <2>0, <2>4, <2>5, <2>6, ZenonT(40)
  <2>. QED  BY <2>8, <2>9, ZenonT(40) DEF Hands!TypedInOrder
<1>. QED  BY <1>2, <1>3, <1>4 DEF Hands!InputsSound

(* A key that is down has a hand that holds it and will lift it, but for   *)
(* the key of a paste another took the place of and of a tap that is over; *)
(* the characters pasted are typed each once and in order, those with a    *)
(* key all of them, unless another paste cuts in; what is written to the   *)
(* terminal is pasted so, within its buffer: for texts, scripts and counts *)
(* of frames of any length (paste.c, kbd_pty.c, kbd.c, joy.c, pilot.c).    *)
THEOREM InputsHold == UsersSpec => []InputsSound
<1>1. UsersInit => (part = "input" => HandInv)  BY HandsStart DEF UsersInit
<1>2. (part = "input" => HandInv) /\ [part' = part /\ UsersNext]_hostVars => (part = "input" => HandInv)'
  <2>. SUFFICES ASSUME part = "input" => HandInv, [part' = part /\ UsersNext]_hostVars, part' = "input"
                PROVE  HandInv'
    OBVIOUS
  <2>1. CASE UNCHANGED hostVars  BY <2>1 DEF hostVars, HandInv
  <2>2. CASE part' = part /\ UsersNext
    <3>1. part = "input" /\ Hands!Next  BY <2>2 DEF UsersNext
    <3>. QED  BY <3>1, HandsStep, TextsStep, CommandsStep DEF Hands!Next
  <2>. QED  BY <2>1, <2>2
<1>3. (part = "input" => HandInv) => InputsSound  BY HandsShow DEF InputsSound
<1>. QED  BY <1>1, <1>2, <1>3, PTL DEF UsersSpec

-----------------------------------------------------------------------------
(* The web service: one world is followed through each operation. *)

LEMMA SameFinite == \A S : Webs!IsFiniteSet(S) <=> IsFiniteSet(S)
BY DEF Webs!IsFiniteSet, IsFiniteSet

LEMMA SameCardinality == \A S : Webs!Cardinality(S) = Cardinality(S)
BY DEF Webs!Cardinality, Cardinality

LEMMA ClientsFinite == IsFiniteSet(Clients)
BY UsersAssumption, SameFinite DEF Webs!WebAssumption

Items == [request : Nat] \cup [half : {1, 2}]
Letters == Seq(Items)
Watching == {"video", "audio"}
Answering == {"request", "upload"}

(* Answers numbered from 1, then the halves of parts in turn. *)
Told(all, done, watching) ==
    /\ done <= Len(all)
    /\ \A i \in 1 .. Len(all) :
          IF i <= done THEN all[i] = [request |-> i]
          ELSE watching /\ all[i] = [half |-> 2 - ((i - done) % 2)]

(* A part is in the hands of the network whole, so what is sent next is the *)
(* first half of one.                                                       *)
Client(k) ==
    /\ DOMAIN k = {"state", "sess", "cookie", "reqs", "done", "have", "out", "closing", "got", "fin"}
    /\ k.state \in {"free"} \cup Answering \cup Watching
    /\ k.out \in Letters /\ k.got \in Letters /\ k.done \in Nat
    /\ Told(k.got \o k.out, k.done, k.state \in Watching)
    /\ (Len(k.got \o k.out) - k.done) % 2 = 0
    /\ k.state = "free" => k.sess = 0
    /\ k.state = "upload" => k.sess # 0

LEMMA Joined ==
    ASSUME NEW s \in Letters, NEW t \in Letters
    PROVE  /\ s \o t \in Letters /\ Len(s \o t) = Len(s) + Len(t)
           /\ Len(s) \in Nat /\ Len(t) \in Nat
           /\ \A i \in 1 .. Len(s) : (s \o t)[i] = s[i]
           /\ \A i \in 1 .. Len(t) : (s \o t)[Len(s) + i] = t[i]
<1>1. \A i \in 1 .. Len(t) : Len(s) + i - Len(s) = i /\ Len(s) + i \in 1 .. Len(s) + Len(t)
                             /\ ~(Len(s) + i <= Len(s))
  BY DEF Letters
<1>. QED  BY <1>1 DEF Letters

LEMMA LettersAssoc ==
    ASSUME NEW s \in Letters, NEW t \in Letters, NEW u \in Letters
    PROVE  (s \o t) \o u = s \o (t \o u)
BY ConcatAssociative DEF Letters

LEMMA AnswerTold ==
    ASSUME NEW got \in Letters, NEW out \in Letters, NEW n \in Nat, Told(got \o out, n, FALSE)
    PROVE  /\ Append(out, [request |-> n + 1]) \in Letters
           /\ Told(got \o Append(out, [request |-> n + 1]), n + 1, FALSE)
           /\ (Len(got \o Append(out, [request |-> n + 1])) - (n + 1)) % 2 = 0
<1> DEFINE x == [request |-> n + 1]
           more == Append(out, x)
           all == got \o out
           m == Len(got)
           l == Len(out)
<1>1. x \in Items  BY DEF Items
<1>. HIDE DEF x
<1>2. more \in Letters /\ Len(more) = l + 1 /\ more[l + 1] = x /\ \A i \in 1 .. l : more[i] = out[i]
  BY <1>1 DEF Letters
<1>3. /\ m \in Nat /\ l \in Nat /\ Len(all) = m + l
      /\ \A i \in 1 .. m : all[i] = got[i]
      /\ \A i \in 1 .. l : all[m + i] = out[i]
  BY Joined
<1>. HIDE DEF more
<1>4. /\ Len(got \o more) = m + Len(more)
      /\ \A i \in 1 .. m : (got \o more)[i] = got[i]
      /\ \A i \in 1 .. Len(more) : (got \o more)[m + i] = more[i]
  BY <1>2, Joined
<1>. HIDE DEF all, m, l
<1>5. m + l = n
  <2>1. CASE n < m + l
    <3>1. n + 1 \in 1 .. Len(all) /\ ~(n + 1 <= n)  BY <2>1, <1>3
    <3>. QED  BY <3>1 DEF Told, all
  <2>2. n <= m + l  BY <1>3 DEF Told, all
  <2>. QED  BY <2>1, <2>2, <1>3
<1>6. Len(got \o more) = n + 1
  <2>1. Len(got \o more) = m + (l + 1)  BY <1>2, <1>4
  <2>. QED  BY <2>1, <1>3, <1>5
<1>7. ASSUME NEW i \in 1 .. n + 1
      PROVE  (got \o more)[i] = [request |-> i]
  <2>1. CASE i = n + 1
    <3>1. i = m + (l + 1) /\ l + 1 \in 1 .. l + 1  BY <2>1, <1>3, <1>5
    <3>2. (got \o more)[m + (l + 1)] = x  BY <3>1, <1>2, <1>4
    <3>. QED  BY <2>1, <3>1, <3>2 DEF x
  <2>2. CASE i \in 1 .. n
    <3>0. i <= n /\ i \in 1 .. Len(all)  BY <2>2, <1>3, <1>5
    <3>1. all[i] = [request |-> i]  BY <3>0 DEF Told, all
    <3>2. CASE i \in 1 .. m  BY <3>1, <3>2, <1>3, <1>4
    <3>3. CASE i \notin 1 .. m
      <4>1. i - m \in 1 .. l /\ i - m \in 1 .. l + 1 /\ m + (i - m) = i  BY <2>2, <3>3, <1>3, <1>5
      <4>2. more[i - m] = out[i - m] /\ all[i] = out[i - m]  BY <4>1, <1>2, <1>3
      <4>3. (got \o more)[i] = more[i - m]  BY <4>1, <1>2, <1>4
      <4>. QED  BY <3>1, <4>2, <4>3
    <3>. QED  BY <3>2, <3>3
  <2>3. i = n + 1 \/ i \in 1 .. n  OBVIOUS
  <2>. QED  BY <2>1, <2>2, <2>3
<1>8. Told(got \o more, n + 1, FALSE)
  <2>1. n + 1 <= n + 1 /\ \A i \in 1 .. n + 1 : i <= n + 1  OBVIOUS
  <2>. QED  BY <2>1, <1>6, <1>7 DEF Told
<1>9. (Len(got \o more) - (n + 1)) % 2 = 0
  <2>1. (n + 1) - (n + 1) = 0 /\ 0 % 2 = 0  OBVIOUS
  <2>. QED  BY <2>1, <1>6
<1>. QED  BY <1>2, <1>8, <1>9 DEF more, x

(* Two halves follow whole parts. *)
LEMMA PartTold ==
    ASSUME NEW got \in Letters, NEW n \in Nat, Told(got \o <<>>, n, TRUE),
           (Len(got \o <<>>) - n) % 2 = 0
    PROVE  /\ Webs!Part \in Letters
           /\ Told(got \o Webs!Part, n, TRUE)
           /\ (Len(got \o Webs!Part) - n) % 2 = 0
<1> DEFINE part2 == Webs!Part
           m == Len(got)
<1>1. /\ part2 \in Letters /\ Len(part2) = 2
      /\ part2[1] = [half |-> 1] /\ part2[2] = [half |-> 2]
  BY DEF Webs!Part, Letters, Items
<1>2. got \o <<>> = got /\ m \in Nat  BY ConcatEmptySeq DEF Letters
<1>. HIDE DEF part2, m
<1>3. /\ Len(got \o part2) = m + 2
      /\ \A i \in 1 .. m : (got \o part2)[i] = got[i]
      /\ (got \o part2)[m + 1] = part2[1] /\ (got \o part2)[m + 2] = part2[2]
  <2>1. /\ Len(got \o part2) = m + Len(part2)
        /\ \A i \in 1 .. m : (got \o part2)[i] = got[i]
        /\ \A i \in 1 .. Len(part2) : (got \o part2)[m + i] = part2[i]
    BY <1>1, Joined DEF m
  <2>2. 1 \in 1 .. Len(part2) /\ 2 \in 1 .. Len(part2)  BY <1>1
  <2>. QED  BY <1>1, <2>1, <2>2
<1>4. n <= m /\ (m - n) % 2 = 0  BY <1>2 DEF Told, m
<1>5. (m + 1 - n) % 2 = 1 /\ (m + 2 - n) % 2 = 0  BY <1>2, <1>4
<1>6. ASSUME NEW i \in 1 .. m + 2
      PROVE  IF i <= n THEN (got \o part2)[i] = [request |-> i]
             ELSE (got \o part2)[i] = [half |-> 2 - ((i - n) % 2)]
  <2>1. CASE i <= m
    <3>1. i \in 1 .. m /\ (got \o part2)[i] = got[i]  BY <2>1, <1>2, <1>3
    <3>. QED  BY <3>1, <1>2 DEF Told, m
  <2>2. CASE i = m + 1
    <3>1. ~(i <= n) /\ 2 - ((i - n) % 2) = 1  BY <2>2, <1>2, <1>4, <1>5
    <3>2. (got \o part2)[i] = [half |-> 1]  BY <2>2, <1>1, <1>3
    <3>. QED  BY <3>1, <3>2
  <2>3. CASE i = m + 2
    <3>1. ~(i <= n) /\ 2 - ((i - n) % 2) = 2  BY <2>3, <1>2, <1>4, <1>5
    <3>2. (got \o part2)[i] = [half |-> 2]  BY <2>3, <1>1, <1>3
    <3>. QED  BY <3>1, <3>2
  <2>4. i <= m \/ i = m + 1 \/ i = m + 2  BY <1>2
  <2>. QED  BY <2>1, <2>2, <2>3, <2>4
<1>7. Told(got \o part2, n, TRUE)
  <2>1. n <= m + 2  BY <1>2, <1>4
  <2>. QED  BY <2>1, <1>3, <1>6 DEF Told
<1>8. (Len(got \o part2) - n) % 2 = 0
  <2>1. PICK z \in Nat : z = m + 2  BY <1>2
  <2>2. (z - n) % 2 = 0  BY <2>1, <1>2, <1>5
  <2>3. Len(got \o part2) = z  BY <2>1, <1>3
  <2>. QED  BY <2>2, <2>3
<1>. QED  BY <1>1, <1>7, <1>8 DEF part2

(* What is sent was at the front of what was to be sent. *)
LEMMA Moved ==
    ASSUME NEW got \in Letters, NEW out \in Letters, NEW n \in 1 .. Len(out)
    PROVE  /\ got \o SubSeq(out, 1, n) \in Letters
           /\ SubSeq(out, n + 1, Len(out)) \in Letters
           /\ (got \o SubSeq(out, 1, n)) \o SubSeq(out, n + 1, Len(out)) = got \o out
<1> DEFINE a == SubSeq(out, 1, n)
           b == SubSeq(out, n + 1, Len(out))
<1>0. Len(out) \in Nat /\ \A i \in 1 .. Len(out) : out[i] \in Items  BY DEF Letters
<1>1. a \in Letters /\ Len(a) = n /\ \A i \in 1 .. n : a[i] = out[i]
  BY <1>0, SMTT(20) DEF Letters
<1>2. /\ b \in Letters /\ Len(b) = Len(out) - n
      /\ \A i \in 1 .. Len(out) - n : b[i] = out[n + i]
  BY <1>0, SMTT(20) DEF Letters
<1>. HIDE DEF a, b
<1>3. /\ a \o b \in Letters /\ Len(a \o b) = Len(a) + Len(b)
      /\ \A i \in 1 .. Len(a) : (a \o b)[i] = a[i]
      /\ \A i \in 1 .. Len(b) : (a \o b)[Len(a) + i] = b[i]
  BY <1>1, <1>2, Joined
<1>4. a \o b = out
  <2>1. Len(a \o b) = Len(out)  BY <1>0, <1>1, <1>2, <1>3
  <2>2. ASSUME NEW i \in 1 .. Len(out) PROVE (a \o b)[i] = out[i]
    <3>1. CASE i <= n
      <4>1. i \in 1 .. n  BY <3>1, <1>0
      <4>. QED  BY <4>1, <1>1, <1>3
    <3>2. CASE n < i
      <4>1. i - n \in 1 .. Len(out) - n /\ n + (i - n) = i  BY <3>2, <1>0
      <4>2. b[i - n] = out[i]  BY <4>1, <1>2
      <4>3. (a \o b)[i] = b[i - n]  BY <4>1, <1>1, <1>2, <1>3
      <4>. QED  BY <4>2, <4>3
    <3>3. i <= n \/ n < i  BY <1>0
    <3>. QED  BY <3>1, <3>2, <3>3
  <2>3. a \o b \in Seq(Items) /\ out \in Seq(Items)  BY <1>3 DEF Letters
  <2>. QED  BY <2>1, <2>2, <2>3, SeqEqual
<1>5. got \o a \in Letters  BY <1>1, Joined
<1>6. (got \o a) \o b = got \o (a \o b)
  BY <1>1, <1>2, LettersAssoc, Zenon
<1>. QED  BY <1>2, <1>4, <1>5, <1>6 DEF a, b

(* A session: no key is down that its client neither holds nor named. *)
Machine(x) == /\ DOMAIN x = {"use", "cookie", "attached", "last", "held", "keys", "named", "disk", "built"}
              /\ x.keys \subseteq x.held \cup x.named

(* A session without a machine is one whose own could not be built. *)
Has(x, failed) == x.use /\ ~x.built => x.cookie \in failed

(* A client that has a session has one that is there, and its own. *)
Live(w, k) == k.sess # 0 => /\ k.sess \in Slots /\ w.se[k.sess].use
                            /\ w.se[k.sess].cookie = k.cookie
Counted(w) == Webs!Service => \A s \in Slots : w.se[s].attached = Cardinality(Webs!Watchers(w, Clients, s))

(* The gui's one machine is there, and nobody has a cookie. *)
OneMachine(w) == ~Webs!Service => /\ w.se[1].use /\ w.se[1].cookie = 0
                                  /\ \A c \in Clients : w.cl[c].cookie = 0
Shape(w) == /\ DOMAIN w = {"cl", "se", "h"} /\ DOMAIN w.cl = Clients /\ DOMAIN w.se = Slots
            /\ DOMAIN w.h = {"cookies", "sent", "cut", "failed", "n"}
Good(w) == /\ Shape(w)
           /\ \A c \in Clients : Client(w.cl[c]) /\ Live(w, w.cl[c])
           /\ \A s \in Slots : Machine(w.se[s]) /\ Has(w.se[s], w.h.failed)
           /\ Counted(w) /\ OneMachine(w) /\ ~w.h.cut

SameWatch(k, j) == \/ k.state \notin Watching /\ j.state \notin Watching
                   \/ k.state = j.state /\ k.sess = j.sess

LEMMA SameWatchers ==
    ASSUME NEW w, NEW v, \A c \in Clients : SameWatch(v.cl[c], w.cl[c]), NEW s
    PROVE  Webs!Watchers(v, Clients, s) = Webs!Watchers(w, Clients, s)
BY DEF SameWatch, Watching, Webs!Watchers, Webs!Streaming

LEMMA PutClient ==
    ASSUME NEW w, Good(w), NEW c \in Clients, NEW k, Client(k), Live(w, k),
           ~Webs!Service => k.cookie = 0, SameWatch(k, w.cl[c])
    PROVE  Good([w EXCEPT !.cl[c] = k])
<1>1. PICK v : v = [w EXCEPT !.cl[c] = k]  OBVIOUS
<1>2. /\ Shape(v) /\ v.se = w.se /\ v.h = w.h /\ v.cl[c] = k
      /\ \A d \in Clients : d # c => v.cl[d] = w.cl[d]
  BY <1>1 DEF Good, Shape
<1>3. \A d \in Clients : Client(v.cl[d]) /\ Live(v, v.cl[d])
  BY <1>2 DEF Good, Live
<1>4. \A d \in Clients : SameWatch(v.cl[d], w.cl[d])  BY <1>2 DEF SameWatch
<1>5. Counted(v)  BY <1>2, <1>4, SameWatchers DEF Good, Counted
<1>6. OneMachine(v)  BY <1>2 DEF Good, OneMachine
<1>7. Good(v)  BY <1>2, <1>3, <1>5, <1>6 DEF Good
<1>. QED  BY <1>1, <1>7

LEMMA FirstSlot == 1 \in Slots
BY UsersAssumption DEF Webs!WebAssumption

LEMMA PutMachine ==
    ASSUME NEW w, Good(w), NEW s \in Slots, NEW x, Machine(x), Has(x, w.h.failed),
           x.use = w.se[s].use, x.cookie = w.se[s].cookie, x.attached = w.se[s].attached
    PROVE  Good([w EXCEPT !.se[s] = x])
<1>1. PICK v : v = [w EXCEPT !.se[s] = x]  OBVIOUS
<1>2. /\ Shape(v) /\ v.cl = w.cl /\ v.h = w.h /\ v.se[s] = x
      /\ \A t \in Slots : t # s => v.se[t] = w.se[t]
  BY <1>1 DEF Good, Shape
<1>3. /\ \A d \in Clients : Client(v.cl[d]) /\ Live(v, v.cl[d])
      /\ \A t \in Slots : Machine(v.se[t]) /\ Has(v.se[t], v.h.failed)
  BY <1>2 DEF Good, Live
<1>4. \A t \in Slots : Webs!Watchers(v, Clients, t) = Webs!Watchers(w, Clients, t)
  BY <1>2 DEF Webs!Watchers
<1>5. Counted(v)  BY <1>2, <1>4 DEF Good, Counted
<1>6. OneMachine(v)  BY <1>2, FirstSlot DEF Good, OneMachine
<1>7. Good(v)  BY <1>2, <1>3, <1>5, <1>6 DEF Good
<1>. QED  BY <1>1, <1>7

(* World v is w with c answered. *)
Renewed(v, w, c) ==
    /\ Good(v) /\ v.se = w.se /\ v.cl[c].state = "request"
    /\ v.cl[c].sess = w.cl[c].sess /\ v.cl[c].cookie = w.cl[c].cookie
    /\ Told(v.cl[c].got \o v.cl[c].out, v.cl[c].done, FALSE)
    /\ v.h = w.h /\ \A d \in Clients : d # c => v.cl[d] = w.cl[d]

LEMMA Answers ==
    ASSUME NEW w, Good(w), NEW c \in Clients, NEW keep, w.cl[c].state \in Answering,
           NEW v, v = Webs!Answer(w, c, keep)
    PROVE  Renewed(v, w, c)
<1> DEFINE j == w.cl[c]
<1>1. Client(j) /\ Live(w, j) /\ Shape(w)  BY DEF Good
<1>2. PICK out2, done2, closing2 : /\ out2 = Append(j.out, [request |-> j.done + 1])
                                   /\ done2 = j.done + 1 /\ closing2 = (j.closing \/ ~keep)
  OBVIOUS
<1>3. PICK k : k = [j EXCEPT !.out = out2, !.done = done2, !.have = 0, !.state = "request",
                             !.closing = closing2]
  OBVIOUS
<1>4. Webs!Answer(w, c, keep) = [w EXCEPT !.cl[c] = k]  BY <1>2, <1>3 DEF Webs!Answer
<1>5. /\ DOMAIN k = DOMAIN j /\ k.state = "request" /\ k.out = out2 /\ k.got = j.got /\ k.done = done2
      /\ k.sess = j.sess /\ k.cookie = j.cookie
  BY <1>1, <1>3 DEF Client
<1>6. /\ out2 \in Letters /\ done2 \in Nat /\ Told(j.got \o out2, done2, FALSE)
      /\ (Len(j.got \o out2) - done2) % 2 = 0
  <2>1. j.got \in Letters /\ j.out \in Letters /\ j.done \in Nat  BY <1>1 DEF Client
  <2>2. (j.state \in Watching) = FALSE  BY DEF Answering, Watching
  <2>3. Told(j.got \o j.out, j.done, FALSE)  BY <1>1, <2>2 DEF Client
  <2>4. /\ Append(j.out, [request |-> j.done + 1]) \in Letters
        /\ Told(j.got \o Append(j.out, [request |-> j.done + 1]), j.done + 1, FALSE)
        /\ (Len(j.got \o Append(j.out, [request |-> j.done + 1])) - (j.done + 1)) % 2 = 0
    BY <2>1, <2>3, AnswerTold, Zenon
  <2>5. done2 \in Nat  BY <1>2, <2>1
  <2>. QED  BY <1>2, <2>4, <2>5, Zenon
<1>7. (k.state \in Watching) = FALSE /\ k.state \in Answering /\ k.state # "free"
  BY <1>5 DEF Watching, Answering
<1>8. Client(k)  BY <1>1, <1>5, <1>6, <1>7 DEF Client
<1>9. Live(w, k) /\ (~Webs!Service => k.cookie = 0) /\ SameWatch(k, j)
  BY <1>1, <1>5, <1>7 DEF Live, SameWatch, Good, OneMachine, Answering, Watching
<1>10. Good([w EXCEPT !.cl[c] = k])  BY <1>8, <1>9, PutClient
<1>. QED  BY <1>1, <1>4, <1>5, <1>6, <1>10 DEF Shape, Renewed

LEMMA Binds ==
    ASSUME NEW w, Good(w), NEW c \in Clients, w.cl[c].state \in Answering,
           NEW s \in Slots, w.se[s].use, Webs!Service, NEW v, v = Webs!Bound(w, c, s)
    PROVE  /\ Good(v) /\ v.se = w.se /\ v.cl[c].sess = s /\ v.cl[c].cookie = w.se[s].cookie
           /\ v.cl[c].state = w.cl[c].state
           /\ v.h = w.h /\ \A d \in Clients : d # c => v.cl[d] = w.cl[d]
<1> DEFINE j == w.cl[c]
<1>1. Client(j) /\ Shape(w) /\ s # 0
  BY UsersAssumption DEF Good, Webs!WebAssumption
<1>2. PICK k : k = [j EXCEPT !.sess = s, !.cookie = w.se[s].cookie]  OBVIOUS
<1>3. Webs!Bound(w, c, s) = [w EXCEPT !.cl[c] = k]  BY <1>2 DEF Webs!Bound
<1>4. /\ DOMAIN k = DOMAIN j /\ k.state = j.state /\ k.out = j.out /\ k.got = j.got
      /\ k.done = j.done /\ k.sess = s /\ k.cookie = w.se[s].cookie
  BY <1>1, <1>2 DEF Client
<1>5. k.state # "free" /\ k.state \notin Watching /\ j.state \notin Watching
  BY <1>4 DEF Answering, Watching
<1>6. Client(k)  BY <1>1, <1>4, <1>5 DEF Client
<1>7. Live(w, k) /\ SameWatch(k, j)  BY <1>4, <1>5 DEF Live, SameWatch
<1>8. Good([w EXCEPT !.cl[c] = k])  BY <1>6, <1>7, PutClient
<1>. QED  BY <1>1, <1>3, <1>4, <1>8 DEF Shape

(* A client that begins to watch is counted. *)
LEMMA StreamBegins ==
    ASSUME NEW w, Good(w), NEW c \in Clients, w.cl[c].state \in Answering, Webs!Service,
           NEW kind \in Watching, w.cl[c].sess \in Slots,
           NEW v \in Webs!route_stream(w, c, kind)
    PROVE  Good(v)
<1> DEFINE s == w.cl[c].sess
<1>1. PICK b : b = Webs!Answer(w, c, TRUE)  OBVIOUS
<1>2. /\ Good(b) /\ b.se = w.se /\ b.cl[c].state = "request" /\ b.cl[c].sess = s
      /\ b.cl[c].cookie = w.cl[c].cookie /\ b.h = w.h
      /\ Told(b.cl[c].got \o b.cl[c].out, b.cl[c].done, FALSE)
      /\ \A d \in Clients : d # c => b.cl[d] = w.cl[d]
  <2>1. Renewed(b, w, c)  BY <1>1, Answers
  <2>. QED  BY <2>1 DEF Renewed
<1>3. PICK x : x = [w.se[s] EXCEPT !.attached = w.se[s].attached + 1, !.last = v3.now]  OBVIOUS
<1>4. v = [b EXCEPT !.cl[c].state = kind, !.se[s] = x]
  BY <1>1, <1>3 DEF Webs!route_stream, Webs!Header
<1>5. PICK k : k = [b.cl[c] EXCEPT !.state = kind]  OBVIOUS
<1>6. Shape(b) /\ Client(b.cl[c]) /\ Machine(w.se[s])  BY <1>2 DEF Good
<1>7. /\ Shape(v) /\ v.h = b.h /\ v.cl[c] = k /\ \A d \in Clients : d # c => v.cl[d] = b.cl[d]
      /\ v.se[s] = x /\ \A t \in Slots : t # s => v.se[t] = w.se[t]
  <2>1. v.cl = [b.cl EXCEPT ![c] = k] /\ v.se = [b.se EXCEPT ![s] = x]
        /\ v.h = b.h /\ DOMAIN v = DOMAIN b
    BY <1>4, <1>5, <1>6 DEF Shape
  <2>. QED  BY <2>1, <1>2, <1>6 DEF Shape
<1>8. /\ x.attached = w.se[s].attached + 1 /\ x.use = w.se[s].use /\ x.cookie = w.se[s].cookie
      /\ x.keys = w.se[s].keys /\ x.held = w.se[s].held /\ x.named = w.se[s].named
      /\ x.built = w.se[s].built /\ DOMAIN x = DOMAIN w.se[s]
  BY <1>3, <1>6 DEF Machine
<1>9. /\ DOMAIN k = DOMAIN b.cl[c] /\ k.state = kind /\ k.out = b.cl[c].out /\ k.got = b.cl[c].got
      /\ k.done = b.cl[c].done /\ k.sess = s /\ k.cookie = b.cl[c].cookie
  BY <1>2, <1>5, <1>6 DEF Client
<1>10. Client(k)
  <2>1. (kind \in Watching) = TRUE /\ kind # "free" /\ kind # "upload"  BY DEF Watching
  <2>2. Told(k.got \o k.out, k.done, TRUE)  BY <1>2, <1>9 DEF Told
  <2>. QED  BY <1>6, <1>9, <2>1, <2>2 DEF Client
<1>11. \A d \in Clients : Client(v.cl[d]) /\ Live(v, v.cl[d])
  <2>1. ASSUME NEW d \in Clients PROVE Client(v.cl[d])  BY <1>2, <1>7, <1>10 DEF Good
  <2>2. \A t \in Slots : v.se[t].use = b.se[t].use /\ v.se[t].cookie = b.se[t].cookie
    BY <1>2, <1>7, <1>8
  <2>3. ASSUME NEW d \in Clients PROVE Live(v, v.cl[d])
    <3>1. Live(b, b.cl[d])  BY <1>2 DEF Good
    <3>2. v.cl[d].sess = b.cl[d].sess /\ v.cl[d].cookie = b.cl[d].cookie  BY <1>2, <1>7, <1>9
    <3>. QED  BY <2>2, <3>1, <3>2 DEF Live
  <2>. QED  BY <2>1, <2>3
<1>12. \A t \in Slots : Machine(v.se[t]) /\ Has(v.se[t], v.h.failed)
  <2>1. \A t \in Slots : Machine(w.se[t]) /\ Has(w.se[t], w.h.failed)  BY DEF Good
  <2>2. Machine(w.se[s]) /\ Has(w.se[s], w.h.failed)  BY <2>1
  <2>3. Machine(x)  BY <1>8, <2>2 DEF Machine
  <2>4. Has(x, w.h.failed)  BY <1>8, <2>2 DEF Has
  <2>5. v.h.failed = w.h.failed  BY <1>2, <1>7
  <2>. QED  BY <1>7, <2>1, <2>3, <2>4, <2>5
<1>13. Counted(v)
  <2>1. ASSUME NEW t \in Slots PROVE v.se[t].attached = Cardinality(Webs!Watchers(v, Clients, t))
    <3> DEFINE W == Webs!Watchers(b, Clients, t)
    <3>1. b.se[t].attached = Cardinality(W)  BY <1>2 DEF Good, Counted
    <3>2. IsFiniteSet(W) /\ Cardinality(W) \in Nat
      <4>2. W \in SUBSET Clients  BY DEF Webs!Watchers
      <4>. QED  BY <4>2, ClientsFinite, FS_Subset, FS_CardinalityType
    <3>3. c \notin W  BY <1>2 DEF Webs!Watchers, Webs!Streaming
    <3>4. CASE t = s
      <4>1. Webs!Watchers(v, Clients, t) = W \cup {c}
        BY <3>4, <1>7, <1>9 DEF Webs!Watchers, Webs!Streaming, Watching
      <4>. HIDE DEF W
      <4>2. Cardinality(W \cup {c}) = Cardinality(W) + 1  BY <3>2, <3>3, FS_AddElement
      <4>. QED  BY <3>1, <3>4, <4>1, <4>2, <1>2, <1>7, <1>8
    <3>5. CASE t # s
      <4>1. Webs!Watchers(v, Clients, t) = W
        BY <3>5, <3>3, <1>7, <1>9 DEF Webs!Watchers
      <4>. QED  BY <3>1, <3>5, <4>1, <1>2, <1>7
    <3>. QED  BY <3>4, <3>5
  <2>. QED  BY <2>1 DEF Counted
<1>. QED  BY <1>2, <1>7, <1>11, <1>12, <1>13 DEF Good, OneMachine

(* Who closes is no longer counted. *)
LEMMA Closes ==
    ASSUME NEW w, Good(w), NEW set \in SUBSET Clients, NEW v, v = Webs!wc_close(w, set)
    PROVE  /\ Good(v) /\ v.h = w.h
           /\ \A c \in Clients : v.cl[c] = IF c \in set THEN Webs!FreeClient ELSE w.cl[c]
           /\ \A s \in Slots : /\ v.se[s].use = w.se[s].use /\ v.se[s].cookie = w.se[s].cookie
                               /\ v.se[s].keys = w.se[s].keys
                               /\ Webs!Watchers(w, set, s) = {} => v.se[s] = w.se[s]
<1>1. /\ v.cl = [c \in Clients |-> IF c \in set THEN Webs!FreeClient ELSE w.cl[c]]
      /\ v.se = [s \in Slots |->
                    IF Webs!Leaving(w, set, s) = {} THEN w.se[s]
                    ELSE [w.se[s] EXCEPT !.last = v3.now,
                             !.attached = w.se[s].attached - Webs!Cardinality(Webs!Leaving(w, set, s))]]
      /\ v.h = w.h /\ DOMAIN v = DOMAIN w
  BY DEF Webs!wc_close, Good, Shape
<1>2. \A c \in Clients : v.cl[c] = IF c \in set THEN Webs!FreeClient ELSE w.cl[c]
  BY <1>1
<1>3. ASSUME NEW s \in Slots
      PROVE  /\ v.se[s].use = w.se[s].use /\ v.se[s].cookie = w.se[s].cookie
             /\ v.se[s].keys = w.se[s].keys /\ v.se[s].held = w.se[s].held
             /\ v.se[s].named = w.se[s].named /\ v.se[s].built = w.se[s].built
             /\ DOMAIN v.se[s] = DOMAIN w.se[s]
             /\ Webs!Leaving(w, set, s) = {} => v.se[s] = w.se[s]
             /\ Webs!Leaving(w, set, s) # {} =>
                   v.se[s].attached = w.se[s].attached - Cardinality(Webs!Leaving(w, set, s))
  <2>1. PICK n : n = w.se[s].attached - Cardinality(Webs!Leaving(w, set, s))  OBVIOUS
  <2>2. v.se[s] = IF Webs!Leaving(w, set, s) = {} THEN w.se[s]
                  ELSE [w.se[s] EXCEPT !.last = v3.now, !.attached = n]
    BY <1>1, <2>1, SameCardinality
  <2>3. Machine(w.se[s])  BY DEF Good
  <2>. QED  BY <2>1, <2>2, <2>3 DEF Machine
<1>4. Shape(v)  BY <1>1 DEF Good, Shape
<1>5. Client(Webs!FreeClient)
  <2>1. /\ <<>> \in Letters /\ Len(<<>> \o <<>>) = 0  BY DEF Letters
  <2>2. Told(<<>> \o <<>>, 0, FALSE)  BY <2>1 DEF Told
  <2>3. ("free" \in Watching) = FALSE  BY DEF Watching
  <2>4. (0 - 0) % 2 = 0 /\ 0 \in Nat  OBVIOUS
  <2>. QED  BY <2>1, <2>2, <2>3, <2>4 DEF Client, Webs!FreeClient, Webs!NoSession
<1>6. \A c \in Clients : Client(v.cl[c])  BY <1>2, <1>5 DEF Good
<1>7. ASSUME NEW c \in Clients PROVE Live(v, v.cl[c])
  <2>1. Live(w, w.cl[c])  BY DEF Good
  <2>2. CASE c \in set
    <3>1. v.cl[c].sess = 0  BY <1>2, <2>2 DEF Webs!FreeClient, Webs!NoSession
    <3>. QED  BY <3>1 DEF Live
  <2>3. CASE c \notin set
    <3>1. v.cl[c] = w.cl[c]  BY <1>2, <2>3
    <3>. QED  BY <1>3, <2>1, <3>1 DEF Live
  <2>. QED  BY <2>2, <2>3
<1>8. ASSUME NEW s \in Slots PROVE Machine(v.se[s]) /\ Has(v.se[s], v.h.failed)
  <2>1. Machine(w.se[s]) /\ Has(w.se[s], w.h.failed)  BY DEF Good
  <2>2. Machine(v.se[s])  BY <1>1, <1>3, <2>1 DEF Machine
  <2>3. Has(v.se[s], v.h.failed)  BY <1>1, <1>3, <2>1 DEF Has
  <2>. QED  BY <2>2, <2>3
<1>9. ASSUME NEW s \in Slots, Webs!Service
      PROVE  v.se[s].attached = Cardinality(Webs!Watchers(v, Clients, s))
  <2> DEFINE W == Webs!Watchers(w, Clients, s)
             L == Webs!Leaving(w, set, s)
  <2>1. w.se[s].attached = Cardinality(W)  BY <1>9 DEF Good, Counted
  <2>2. L \in SUBSET W  BY DEF Webs!Leaving, Webs!Watchers
  <2>3. Webs!Watchers(v, Clients, s) = W \ L
    BY <1>2, <1>9 DEF Webs!Watchers, Webs!Leaving, Webs!Streaming, Webs!FreeClient
  <2>4. W \in SUBSET Clients  BY DEF Webs!Watchers
  <2>. HIDE DEF W
  <2>5. IsFiniteSet(W) /\ IsFiniteSet(L)  BY <2>2, <2>4, ClientsFinite, FS_Subset
  <2>6. CASE L = {}
    <3>1. W \ L = W  BY <2>6
    <3>. QED  BY <2>1, <2>3, <2>6, <3>1, <1>3
  <2>7. CASE L # {}
    <3>1. v.se[s].attached = w.se[s].attached - Cardinality(L)  BY <2>7, <1>3
    <3>. HIDE DEF L
    <3>2. Cardinality(W \ L) = Cardinality(W) - Cardinality(W \cap L)  BY <2>5, FS_Difference
    <3>3. W \cap L = L  BY <2>2
    <3>. QED  BY <2>1, <2>3, <3>1, <3>2, <3>3
  <2>. QED  BY <2>6, <2>7
<1>10. OneMachine(v)
  BY <1>2, <1>3, FirstSlot DEF Good, OneMachine, Webs!FreeClient
<1>11. Good(v)  BY <1>1, <1>4, <1>6, <1>7, <1>8, <1>9, <1>10 DEF Good, Counted
<1>. QED  BY <1>1, <1>2, <1>3, <1>11 DEF Webs!Leaving

(* Sessions that nobody watches can go: no stream is cut. *)
LEMMA Destroys ==
    ASSUME NEW w, Good(w), Webs!Service, NEW set \in SUBSET Slots,
           \A s \in set : w.se[s].attached = 0, NEW v, v = Webs!session_destroy(w, set)
    PROVE  /\ Good(v) /\ v.h.failed = w.h.failed /\ v.h.cookies = w.h.cookies /\ v.h.n = w.h.n /\ v.h.sent = w.h.sent
           /\ \A c \in Clients : v.cl[c] = w.cl[c] \/ v.cl[c] = Webs!FreeClient
           /\ \A s \in Slots : v.se[s] = IF s \in set THEN Webs!NoMachine ELSE w.se[s]
<1>1. PICK its : its = {c \in Clients : w.cl[c].sess \in set}  OBVIOUS
<1>2. PICK u : u = Webs!wc_close(w, its)  OBVIOUS
<1>3. /\ Good(u) /\ u.h = w.h
      /\ \A c \in Clients : u.cl[c] = IF c \in its THEN Webs!FreeClient ELSE w.cl[c]
      /\ \A s \in Slots : /\ u.se[s].use = w.se[s].use /\ u.se[s].cookie = w.se[s].cookie
                          /\ u.se[s].keys = w.se[s].keys
                          /\ Webs!Watchers(w, its, s) = {} => u.se[s] = w.se[s]
  <2>1. its \in SUBSET Clients  BY <1>1
  <2>. QED  BY <1>2, <2>1, Closes
<1>4. ASSUME NEW s \in set PROVE Webs!Watchers(w, Clients, s) = {}
  <2>1. Cardinality(Webs!Watchers(w, Clients, s)) = 0  BY DEF Good, Counted
  <2>2. IsFiniteSet(Webs!Watchers(w, Clients, s))
    <3>1. Webs!Watchers(w, Clients, s) \in SUBSET Clients  BY DEF Webs!Watchers
    <3>. QED  BY <3>1, ClientsFinite, FS_Subset
  <2>. QED  BY <2>1, <2>2, FS_EmptySet
<1>5. \A c \in its : w.cl[c].state \notin Webs!Streaming
  BY <1>1, <1>4 DEF Webs!Watchers
<1>6. \A s \in Slots : u.se[s] = w.se[s]
  BY <1>1, <1>3, <1>5 DEF Webs!Watchers
<1>7. /\ v.cl = u.cl /\ v.se = [s \in Slots |-> IF s \in set THEN Webs!NoMachine ELSE u.se[s]]
      /\ DOMAIN v = DOMAIN u /\ v.h = [u.h EXCEPT !.cut = u.h.cut \/ \E c \in its : w.cl[c].state \in Webs!Streaming]
  BY <1>1, <1>2, <1>3 DEF Webs!session_destroy, Good, Shape
<1>8. /\ DOMAIN v.h = DOMAIN w.h /\ ~v.h.cut /\ v.h.cookies = w.h.cookies /\ v.h.n = w.h.n
      /\ v.h.sent = w.h.sent /\ v.h.failed = w.h.failed
  BY <1>3, <1>5, <1>7 DEF Good, Shape
<1>9. \A s \in Slots : v.se[s] = IF s \in set THEN Webs!NoMachine ELSE w.se[s]
  BY <1>6, <1>7
<1>10. \A c \in Clients : /\ v.cl[c] = w.cl[c] \/ v.cl[c] = Webs!FreeClient
                          /\ v.cl[c].sess \notin set /\ Client(v.cl[c])
  <2>1. 0 \notin set  BY UsersAssumption DEF Webs!WebAssumption
  <2>. QED  BY <1>1, <1>3, <1>7, <2>1 DEF Webs!FreeClient, Webs!NoSession, Good
<1>11. ASSUME NEW c \in Clients PROVE Live(v, v.cl[c])
  <2>1. Live(u, u.cl[c]) /\ u.cl[c] = v.cl[c]  BY <1>3, <1>7 DEF Good
  <2>. QED  BY <1>6, <1>9, <1>10, <2>1 DEF Live
<1>12. \A s \in Slots : Machine(v.se[s]) /\ Has(v.se[s], v.h.failed)
  BY <1>8, <1>9 DEF Good, Machine, Has, Webs!NoMachine
<1>13. ASSUME NEW s \in Slots PROVE v.se[s].attached = Cardinality(Webs!Watchers(v, Clients, s))
  <2>1. Webs!Watchers(v, Clients, s) = Webs!Watchers(w, Clients, s)
    BY <1>1, <1>3, <1>5, <1>7 DEF Webs!Watchers, Webs!Streaming, Webs!FreeClient
  <2>2. CASE s \in set
    <3>1. v.se[s].attached = 0  BY <1>9, <2>2 DEF Webs!NoMachine
    <3>. QED  BY <1>4, <2>1, <2>2, <3>1, FS_EmptySet
  <2>3. CASE s \notin set  BY <1>9, <2>1, <2>3 DEF Good, Counted
  <2>. QED  BY <2>2, <2>3
<1>14. Shape(v)  BY <1>3, <1>7, <1>8 DEF Good, Shape
<1>15. Good(v)  BY <1>8, <1>10, <1>11, <1>12, <1>13, <1>14 DEF Good, Counted, OneMachine
<1>. QED  BY <1>8, <1>9, <1>10, <1>15

(* A client either stays as it was or is let go. *)
SomeLetGo(v, w) == \A c \in Clients : v.cl[c] = w.cl[c] \/ v.cl[c] = Webs!FreeClient

LEMMA Reaps ==
    ASSUME NEW w, Good(w), Webs!Service, NEW v, v = Webs!session_reap_one_idle(w)
    PROVE  Good(v) /\ SomeLetGo(v, w)
<1> DEFINE idle == {s \in Slots : Webs!Idle(w, s)}
           oldest == {s \in idle : \A t \in idle : w.se[s].last <= w.se[t].last}
           gone == {s \in oldest : \A t \in oldest : s <= t}
<1>1. v = IF idle = {} THEN w ELSE Webs!session_destroy(w, gone)
  BY DEF Webs!session_reap_one_idle
<1>2. gone \in SUBSET Slots /\ \A s \in gone : w.se[s].attached = 0  BY DEF Webs!Idle
<1>. HIDE DEF idle, gone
<1>3. CASE idle = {}  BY <1>1, <1>3 DEF SomeLetGo
<1>4. CASE idle # {}
  <2>1. v = Webs!session_destroy(w, gone)  BY <1>1, <1>4
  <2>. QED  BY <1>2, <2>1, Destroys DEF SomeLetGo
<1>. QED  BY <1>3, <1>4

(* A free slot, a machine of its own. *)
LEMMA Builds ==
    ASSUME NEW w, Good(w), Webs!Service, NEW slot \in Slots, ~w.se[slot].use, NEW n,
           NEW x, x = [Webs!NoMachine EXCEPT !.use = TRUE, !.built = TRUE, !.cookie = n, !.last = v3.now],
           NEW v, v = [w EXCEPT !.se[slot] = x, !.h.cookies = n]
    PROVE  Good(v) /\ SomeLetGo(v, w) /\ v.se[slot].use
<1>1. /\ Machine(x) /\ x.attached = 0 /\ x.use /\ x.built
  BY DEF Machine, Webs!NoMachine
<1>2. /\ Shape(v) /\ v.cl = w.cl /\ ~v.h.cut /\ v.se[slot] = x /\ v.h.failed = w.h.failed
      /\ \A s \in Slots : s # slot => v.se[s] = w.se[s]
  <2>1. Shape(w) /\ ~w.h.cut  BY DEF Good
  <2>2. v.cl = w.cl /\ v.se = [w.se EXCEPT ![slot] = x] /\ v.h = [w.h EXCEPT !.cookies = n]
        /\ DOMAIN v = DOMAIN w
    BY <2>1 DEF Shape
  <2>. QED  BY <2>1, <2>2 DEF Shape
<1>3. \A c \in Clients : w.cl[c].sess # slot
  <2>1. slot # 0  BY UsersAssumption DEF Webs!WebAssumption
  <2>. QED  BY <2>1 DEF Good, Live
<1>4. \A c \in Clients : Client(v.cl[c]) /\ Live(v, v.cl[c])
  BY <1>2, <1>3 DEF Good, Live
<1>5. \A s \in Slots : Machine(v.se[s]) /\ Has(v.se[s], v.h.failed)
  BY <1>1, <1>2 DEF Good, Has
<1>6. ASSUME NEW s \in Slots PROVE v.se[s].attached = Cardinality(Webs!Watchers(v, Clients, s))
  <2>1. Webs!Watchers(v, Clients, s) = Webs!Watchers(w, Clients, s)  BY <1>2 DEF Webs!Watchers
  <2>2. CASE s = slot
    <3>1. Webs!Watchers(w, Clients, s) = {}  BY <1>3, <2>2 DEF Webs!Watchers
    <3>. QED  BY <1>1, <1>2, <2>1, <2>2, <3>1, FS_EmptySet
  <2>3. CASE s # slot  BY <1>2, <2>1, <2>3 DEF Good, Counted
  <2>. QED  BY <2>2, <2>3
<1>. QED  BY <1>1, <1>2, <1>4, <1>5, <1>6 DEF Good, Counted, OneMachine, SomeLetGo

Created(r, w) == /\ Good(r[1]) /\ SomeLetGo(r[1], w)
                 /\ r[2] # 0 => r[2] \in Slots /\ r[1].se[r[2]].use

LEMMA Creates ==
    ASSUME NEW w, Good(w), Webs!Service, NEW r \in Webs!session_create(w)
    PROVE  Created(r, w)
<1>1. PICK v : v = IF \E s \in Slots : ~w.se[s].use THEN w ELSE Webs!session_reap_one_idle(w)
  OBVIOUS
<1>2. Good(v) /\ SomeLetGo(v, w)
  <2>1. CASE \E s \in Slots : ~w.se[s].use  BY <1>1, <2>1 DEF SomeLetGo
  <2>2. CASE ~\E s \in Slots : ~w.se[s].use
    <3>1. v = Webs!session_reap_one_idle(w)  BY <1>1, <2>2
    <3>. QED  BY <3>1, Reaps
  <2>. QED  BY <2>1, <2>2
<1>3. CASE r = <<v, 0>>
  <2>1. r[1] = v /\ r[2] = 0  BY <1>3
  <2>. QED  BY <1>2, <2>1, Zenon DEF Created
<1> DEFINE free == {s \in Slots : ~v.se[s].use}
           slot == CHOOSE s \in free : \A t \in free : s <= t
<1>4. CASE /\ free # {}
           /\ r = <<[v EXCEPT !.se[slot] = [Webs!NoMachine EXCEPT !.use = TRUE, !.built = TRUE,
                                                  !.cookie = v.h.cookies + 1, !.last = v3.now],
                             !.h.cookies = v.h.cookies + 1], slot>>
  <2>1. free \in SUBSET Nat  BY UsersAssumption DEF Webs!WebAssumption
  <2>2. \E s \in free : \A t \in free : s <= t  BY <1>4, <2>1, LeastNat
  <2>3. slot \in free  BY <2>2
  <2>4. PICK at : at = slot  OBVIOUS
  <2>5. at \in Slots /\ ~v.se[at].use  BY <2>3, <2>4
  <2>6. PICK n : n = v.h.cookies + 1  OBVIOUS
  <2>7. PICK x : x = [Webs!NoMachine EXCEPT !.use = TRUE, !.built = TRUE, !.cookie = n, !.last = v3.now]
    OBVIOUS
  <2>. HIDE DEF slot, free
  <2>8. PICK u : u = [v EXCEPT !.se[at] = x, !.h.cookies = n]  OBVIOUS
  <2>9. r = <<u, at>>  BY <1>4, <2>4, <2>6, <2>7, <2>8
  <2>10. Good(u) /\ SomeLetGo(u, v) /\ u.se[at].use  BY <1>2, <2>5, <2>7, <2>8, Builds
  <2>11. SomeLetGo(u, w)  BY <1>2, <2>10 DEF SomeLetGo
  <2>. QED  BY <2>5, <2>9, <2>10, <2>11 DEF Created
<1>. QED  BY <1>1, <1>3, <1>4 DEF Webs!session_create, Webs!NoSession

LEMMA Looked ==
    ASSUME NEW w, NEW cookie, NEW s, s = Webs!session_lookup(w, cookie)
    PROVE  s # 0 => s \in Slots /\ w.se[s].use
<1> DEFINE P(t) == w.se[t].use /\ w.se[t].cookie = cookie
<1>1. s = IF \E t \in Slots : P(t) THEN CHOOSE t \in Slots : P(t) ELSE 0
  BY DEF Webs!session_lookup, Webs!NoSession
<1>2. CASE \E t \in Slots : P(t)
  <2>1. s = CHOOSE t \in Slots : P(t)  BY <1>1, <1>2
  <2>2. s \in Slots /\ P(s)  BY <1>2, <2>1
  <2>. QED  BY <2>2
<1>3. CASE ~\E t \in Slots : P(t)  BY <1>1, <1>3, Zenon
<1>. QED  BY <1>2, <1>3

LEMMA Pages ==
    ASSUME NEW w, Good(w), Webs!Service, NEW c \in Clients, w.cl[c].state \in Answering, NEW r,
           NEW u \in Webs!route_page(w, c, r)
    PROVE  Good(u)
<1>1. PICK found : found = Webs!session_lookup(w, r.cookie)  OBVIOUS
<1>2. PICK v \in IF found # 0 THEN {<<w, found>>} ELSE Webs!session_create(w) :
         u = IF v[1].cl[c].state = "free" THEN v[1]
             ELSE IF v[2] = 0 THEN Webs!Answer(v[1], c, FALSE)
             ELSE Webs!Answer(Webs!Bound(v[1], c, v[2]), c, TRUE)
  BY <1>1 DEF Webs!route_page, Webs!NoSession
<1>3. Created(v, w)
  <2>1. CASE found # 0  BY <1>1, <1>2, <2>1, Looked DEF Created, SomeLetGo
  <2>2. CASE found = 0  BY <1>2, <2>2, Creates
  <2>. QED  BY <2>1, <2>2
<1>4. PICK a, s : a = v[1] /\ s = v[2]  OBVIOUS
<1>5. Good(a) /\ SomeLetGo(a, w) /\ (s # 0 => s \in Slots /\ a.se[s].use)
  BY <1>3, <1>4 DEF Created
<1>6. CASE a.cl[c].state = "free"  BY <1>2, <1>4, <1>5, <1>6
<1>7. CASE a.cl[c].state # "free"
  <2>1. a.cl[c].state \in Answering  BY <1>5, <1>7 DEF SomeLetGo, Webs!FreeClient
  <2>2. CASE s = 0
    <3>1. u = Webs!Answer(a, c, FALSE)  BY <1>2, <1>4, <1>7, <2>2
    <3>2. Renewed(u, a, c)  BY <1>5, <2>1, <3>1, Answers
    <3>. QED  BY <3>2 DEF Renewed
  <2>3. CASE s # 0
    <3>1. PICK b : b = Webs!Bound(a, c, s)  OBVIOUS
    <3>2. s \in Slots /\ a.se[s].use  BY <1>5, <2>3
    <3>3. Good(b) /\ b.cl[c].state = a.cl[c].state  BY <1>5, <2>1, <3>1, <3>2, Binds
    <3>4. u = Webs!Answer(b, c, TRUE)  BY <1>2, <1>4, <1>7, <2>3, <3>1
    <3>5. Renewed(u, b, c)  BY <2>1, <3>3, <3>4, Answers
    <3>. QED  BY <3>5 DEF Renewed
  <2>. QED  BY <2>2, <2>3
<1>. QED  BY <1>6, <1>7

(* One session is turned about, its client answered. *)
LEMMA Serves ==
    ASSUME NEW w, Good(w), NEW c \in Clients, w.cl[c].state \in Answering,
           NEW s \in Slots, NEW x, Machine(x), Has(x, w.h.failed), x.use = w.se[s].use,
           x.cookie = w.se[s].cookie, x.attached = w.se[s].attached,
           NEW u, u = [Webs!Answer(w, c, TRUE) EXCEPT !.se[s] = x]
    PROVE  Good(u)
<1>1. PICK b : b = Webs!Answer(w, c, TRUE)  OBVIOUS
<1>2. Renewed(b, w, c)  BY <1>1, Answers
<1>3. Good(b) /\ b.se = w.se /\ b.h = w.h  BY <1>2 DEF Renewed
<1>4. Good([b EXCEPT !.se[s] = x])  BY <1>3, PutMachine
<1>. QED  BY <1>1, <1>4

(* One session is left without a machine, and known for it. *)
LEMMA Fails ==
    ASSUME NEW w, Good(w), NEW c \in Clients, w.cl[c].state \in Answering,
           NEW s \in Slots, NEW x, Machine(x), x.use = w.se[s].use,
           x.cookie = w.se[s].cookie, x.attached = w.se[s].attached,
           NEW failed, failed = w.h.failed \cup {x.cookie},
           NEW u, u = [Webs!Answer(w, c, TRUE) EXCEPT !.se[s] = x, !.h.failed = failed]
    PROVE  Good(u)
<1>1. PICK b : b = Webs!Answer(w, c, TRUE)  OBVIOUS
<1>2. Renewed(b, w, c)  BY <1>1, Answers
<1>3. Good(b) /\ b.se = w.se /\ b.h = w.h /\ Shape(b)  BY <1>2 DEF Renewed, Good
<1>4. PICK v : v = [b EXCEPT !.h.failed = failed]  OBVIOUS
<1>5. /\ v.cl = b.cl /\ v.se = b.se /\ v.h.failed = failed /\ v.h.cut = b.h.cut /\ Shape(v)
  BY <1>3, <1>4 DEF Shape
<1>6. \A t \in Slots : Machine(v.se[t]) /\ Has(v.se[t], v.h.failed)
  BY <1>3, <1>5 DEF Good, Has
<1>7. Good(v)
  <2>1. \A d \in Clients : Client(v.cl[d]) /\ Live(v, v.cl[d])  BY <1>3, <1>5 DEF Good, Live
  <2>2. \A t : Webs!Watchers(v, Clients, t) = Webs!Watchers(b, Clients, t)
    BY <1>5 DEF Webs!Watchers
  <2>3. Counted(v)  BY <1>3, <1>5, <2>2 DEF Good, Counted
  <2>4. OneMachine(v)  BY <1>3, <1>5 DEF Good, OneMachine
  <2>5. ~v.h.cut  BY <1>3, <1>5 DEF Good
  <2>. QED  BY <1>5, <1>6, <2>1, <2>3, <2>4, <2>5 DEF Good
<1>8. Has(x, v.h.failed)  BY <1>5 DEF Has
<1>9. Good([v EXCEPT !.se[s] = x])  BY <1>3, <1>5, <1>7, <1>8, PutMachine
<1>. QED  BY <1>1, <1>4, <1>9

LEMMA Asks ==
    ASSUME NEW w, Good(w), NEW c \in Clients, w.cl[c].state \in Answering, w.cl[c].sess \in Slots,
           NEW r, NEW u \in Webs!Asked(w, c, r)
    PROVE  Good(u)
<1> DEFINE s == w.cl[c].sess
           b == Webs!Answer(w, c, TRUE)
<1>1. PICK x : x = w.se[s]  OBVIOUS
<1>2. Machine(x) /\ Has(x, w.h.failed)  BY <1>1 DEF Good
<1>3. CASE u = b
  <2>1. Renewed(u, w, c)  BY <1>3, Answers
  <2>. QED  BY <2>1 DEF Renewed
<1>4. ASSUME NEW y, Machine(y), y.use = x.use, y.cookie = x.cookie, y.attached = x.attached,
             x.built => y.built, u = [b EXCEPT !.se[s] = y]
      PROVE  Good(u)
  <2>1. Has(y, w.h.failed)  BY <1>2, <1>4 DEF Has
  <2>. QED  BY <1>1, <1>4, <2>1, Serves
<1>5. CASE u \in Webs!route_joy(w, c, r)
  <2>1. PICK held, keys : held = Webs!Turned(x.held, r) /\ keys = Webs!Turned(x.keys, r)  OBVIOUS
  <2>2. PICK y : y = [x EXCEPT !.held = held, !.keys = keys]  OBVIOUS
  <2>3. u = [b EXCEPT !.se[s] = y]  BY <1>1, <1>5, <2>1, <2>2 DEF Webs!route_joy
  <2>4. /\ DOMAIN y = DOMAIN x /\ y.held = held /\ y.keys = keys /\ y.named = x.named
        /\ y.use = x.use /\ y.cookie = x.cookie /\ y.attached = x.attached /\ y.built = x.built
    BY <1>2, <2>2 DEF Machine
  <2>5. keys \subseteq held \cup x.named  BY <1>2, <2>1 DEF Machine, Webs!Turned
  <2>6. Machine(y)  BY <1>2, <2>4, <2>5 DEF Machine
  <2>. QED  BY <1>4, <2>3, <2>4, <2>6
<1>6. CASE u \in Webs!route_key(w, c, r)
  <2>1. PICK named, keys : named = Webs!Turned(x.named, r) /\ keys = Webs!Turned(x.keys, r)  OBVIOUS
  <2>2. PICK y : y = [x EXCEPT !.named = named, !.keys = keys]  OBVIOUS
  <2>3. u = [b EXCEPT !.se[s] = y]  BY <1>1, <1>6, <2>1, <2>2 DEF Webs!route_key
  <2>4. /\ DOMAIN y = DOMAIN x /\ y.named = named /\ y.keys = keys /\ y.held = x.held
        /\ y.use = x.use /\ y.cookie = x.cookie /\ y.attached = x.attached /\ y.built = x.built
    BY <1>2, <2>2 DEF Machine
  <2>5. keys \subseteq x.held \cup named  BY <1>2, <2>1 DEF Machine, Webs!Turned
  <2>6. Machine(y)  BY <1>2, <2>4, <2>5 DEF Machine
  <2>. QED  BY <1>4, <2>3, <2>4, <2>6
<1>7. CASE u = [b EXCEPT !.se[w.cl[c].sess].disk = TRUE]
  <2>1. PICK a : a = b  OBVIOUS
  <2>2. Renewed(a, w, c)  BY <2>1, Answers
  <2>3. PICK y : y = [x EXCEPT !.disk = TRUE]  OBVIOUS
  <2>4. u = [a EXCEPT !.se[s] = y]  BY <1>1, <1>7, <2>1, <2>2, <2>3 DEF Renewed
  <2>5. /\ Machine(y) /\ y.use = x.use /\ y.cookie = x.cookie
        /\ y.attached = x.attached /\ y.built = x.built
    BY <1>2, <2>3 DEF Machine
  <2>. QED  BY <1>4, <2>1, <2>4, <2>5
<1>8. CASE u \in Webs!cpc_reset(w, c)
  <2>1. PICK y : y = [x EXCEPT !.keys = {}, !.named = {}]  OBVIOUS
  <2>2. u = [b EXCEPT !.se[s] = y]  BY <1>1, <1>8, <2>1 DEF Webs!cpc_reset
  <2>3. /\ Machine(y) /\ y.use = x.use /\ y.cookie = x.cookie
        /\ y.attached = x.attached /\ y.built = x.built
    BY <1>2, <2>1 DEF Machine
  <2>. QED  BY <1>4, <2>2, <2>3
<1>9. CASE u \in Webs!rebuild_from_config_file(w, c)
  <2>1. PICK z : z = Webs!Without(x)  OBVIOUS
  <2>2. /\ DOMAIN z = DOMAIN x /\ z.use = x.use /\ z.cookie = x.cookie
        /\ z.attached = x.attached /\ z.keys = {}
    BY <1>2, <2>1 DEF Machine, Webs!Without
  <2>3. Machine(z)  BY <1>2, <2>2 DEF Machine
  <2>4. PICK y : y = [z EXCEPT !.held = {}, !.built = TRUE]  OBVIOUS
  <2>5. /\ Machine(y) /\ y.use = x.use /\ y.cookie = x.cookie
        /\ y.attached = x.attached /\ y.built
    BY <2>2, <2>3, <2>4 DEF Machine
  <2>6. PICK failed : failed = w.h.failed \cup {x.cookie}  OBVIOUS
  <2>7. \/ u = b
        \/ u = [b EXCEPT !.se[s] = y]
        \/ u = [b EXCEPT !.se[s] = z, !.h.failed = failed]
    BY <1>1, <1>9, <2>1, <2>4, <2>6 DEF Webs!rebuild_from_config_file
  <2>8. CASE u = b  BY <1>3, <2>8
  <2>9. CASE u = [b EXCEPT !.se[s] = y]  BY <1>4, <2>5, <2>9
  <2>10. CASE u = [b EXCEPT !.se[s] = z, !.h.failed = failed]
    BY <1>1, <2>2, <2>3, <2>6, <2>10, Fails
  <2>. QED  BY <2>7, <2>8, <2>9, <2>10
<1>. QED
  BY <1>3, <1>5, <1>6, <1>7, <1>8, <1>9
     DEF Webs!Asked, Webs!complete_upload, Webs!mount_disk_bytes

(* A field nothing depends on *)
LEMMA Marks ==
    ASSUME NEW w, Good(w), NEW c \in Clients, w.cl[c].state \in Answering, NEW n,
           NEW v, v = [w EXCEPT !.cl[c].have = n] \/ v = [w EXCEPT !.cl[c].closing = n]
    PROVE  Good(v)
<1>1. PICK j : j = w.cl[c]  OBVIOUS
<1>2. Client(j) /\ Live(w, j) /\ (~Webs!Service => j.cookie = 0)  BY <1>1 DEF Good, OneMachine
<1>3. PICK k : /\ k = [j EXCEPT !.have = n] \/ k = [j EXCEPT !.closing = n]
               /\ v = [w EXCEPT !.cl[c] = k]
  BY <1>1
<1>4. /\ DOMAIN k = DOMAIN j /\ k.state = j.state /\ k.out = j.out /\ k.got = j.got /\ k.done = j.done
      /\ k.sess = j.sess /\ k.cookie = j.cookie
  BY <1>2, <1>3 DEF Client
<1>5. Client(k)  BY <1>2, <1>4 DEF Client
<1>6. Live(w, k) /\ (~Webs!Service => k.cookie = 0) /\ SameWatch(k, w.cl[c])
  BY <1>1, <1>2, <1>4 DEF Live, SameWatch
<1>7. Good([w EXCEPT !.cl[c] = k])  BY <1>5, <1>6, PutClient
<1>. QED  BY <1>3, <1>7

(* An upload begins, for the session of its client. *)
LEMMA Uploads ==
    ASSUME NEW w, Good(w), NEW c \in Clients, w.cl[c].state \in Answering, w.cl[c].sess # 0, NEW n,
           NEW v, v = [w EXCEPT !.cl[c].state = "upload", !.cl[c].have = n]
    PROVE  Good(v)
<1>1. PICK j : j = w.cl[c]  OBVIOUS
<1>2. Client(j) /\ Live(w, j) /\ (~Webs!Service => j.cookie = 0)  BY <1>1 DEF Good, OneMachine
<1>3. PICK k : k = [j EXCEPT !.state = "upload", !.have = n]  OBVIOUS
<1>4. v = [w EXCEPT !.cl[c] = k]  BY <1>1, <1>3 DEF Good, Shape
<1>5. /\ DOMAIN k = DOMAIN j /\ k.state = "upload" /\ k.out = j.out /\ k.got = j.got /\ k.done = j.done
      /\ k.sess = j.sess /\ k.cookie = j.cookie
  BY <1>2, <1>3 DEF Client
<1>6. /\ (j.state \in Watching) = FALSE /\ (k.state \in Watching) = FALSE /\ k.state \in Answering
      /\ k.state # "free"
  BY <1>1, <1>5 DEF Answering, Watching
<1>7. Client(k)  BY <1>1, <1>2, <1>5, <1>6 DEF Client
<1>8. Live(w, k) /\ (~Webs!Service => k.cookie = 0) /\ SameWatch(k, w.cl[c])
  BY <1>1, <1>2, <1>5, <1>6 DEF Live, SameWatch
<1>9. Good([w EXCEPT !.cl[c] = k])  BY <1>7, <1>8, PutClient
<1>. QED  BY <1>4, <1>9

(* The gui: whoever asks has the one machine. *)
LEMMA TakesMachine ==
    ASSUME NEW w, Good(w), NEW c \in Clients, w.cl[c].state \in Answering, ~Webs!Service,
           NEW v, v = [w EXCEPT !.cl[c].sess = 1]
    PROVE  Good(v) /\ v.cl[c].sess = 1 /\ v.cl[c].state = w.cl[c].state
<1>1. PICK j : j = w.cl[c]  OBVIOUS
<1>2. Client(j) /\ j.cookie = 0 /\ Shape(w)  BY <1>1 DEF Good, OneMachine
<1>3. PICK k : k = [j EXCEPT !.sess = 1]  OBVIOUS
<1>4. v = [w EXCEPT !.cl[c] = k]  BY <1>1, <1>3
<1>5. /\ DOMAIN k = DOMAIN j /\ k.state = j.state /\ k.out = j.out /\ k.got = j.got /\ k.done = j.done
      /\ k.sess = 1 /\ k.cookie = j.cookie
  BY <1>2, <1>3 DEF Client
<1>6. j.state # "free" /\ j.state \notin Watching  BY <1>1 DEF Answering, Watching
<1>7. Client(k)  BY <1>2, <1>5, <1>6 DEF Client
<1>8. Live(w, k) /\ k.cookie = 0 /\ SameWatch(k, w.cl[c])
  BY <1>1, <1>2, <1>5, <1>6, FirstSlot DEF Live, SameWatch, Good, OneMachine
<1>9. Good([w EXCEPT !.cl[c] = k])  BY <1>7, <1>8, PutClient
<1>. QED  BY <1>1, <1>2, <1>4, <1>5, <1>9 DEF Shape

(* The gui keeps no count of those that watch. *)
LEMMA Watches ==
    ASSUME NEW w, Good(w), NEW c \in Clients, w.cl[c].state \in Answering, ~Webs!Service,
           NEW kind \in Watching, NEW v, v = Webs!Header(w, c, kind)
    PROVE  Good(v)
<1>1. PICK b : b = Webs!Answer(w, c, TRUE)  OBVIOUS
<1>2. Renewed(b, w, c)  BY <1>1, Answers
<1>3. Good(b) /\ Client(b.cl[c]) /\ Shape(b) /\ b.cl[c].state = "request"
      /\ Told(b.cl[c].got \o b.cl[c].out, b.cl[c].done, FALSE)
  BY <1>2 DEF Renewed, Good
<1>4. PICK k : k = [b.cl[c] EXCEPT !.state = kind]  OBVIOUS
<1>5. v = [b EXCEPT !.cl[c] = k]  BY <1>1, <1>4 DEF Webs!Header
<1>6. /\ v.cl = [b.cl EXCEPT ![c] = k] /\ v.se = b.se /\ v.h = b.h /\ Shape(v)
  BY <1>3, <1>5 DEF Shape
<1>7. /\ DOMAIN k = DOMAIN b.cl[c] /\ k.state = kind /\ k.out = b.cl[c].out /\ k.got = b.cl[c].got
      /\ k.done = b.cl[c].done /\ k.sess = b.cl[c].sess /\ k.cookie = b.cl[c].cookie
  BY <1>3, <1>4 DEF Client
<1>8. Client(k)
  <2>1. (kind \in Watching) = TRUE /\ kind # "free" /\ kind # "upload"  BY DEF Watching
  <2>2. Told(k.got \o k.out, k.done, TRUE)  BY <1>3, <1>7 DEF Told
  <2>. QED  BY <1>3, <1>7, <2>1, <2>2 DEF Client
<1>9. v.cl[c] = k /\ \A d \in Clients : d # c => v.cl[d] = b.cl[d]  BY <1>3, <1>6 DEF Shape
<1>10. ASSUME NEW d \in Clients PROVE Client(v.cl[d]) /\ Live(v, v.cl[d])
  <2>1. Client(b.cl[d]) /\ Live(b, b.cl[d])  BY <1>3 DEF Good
  <2>2. Client(v.cl[d])  BY <1>8, <1>9, <2>1
  <2>3. v.cl[d].sess = b.cl[d].sess /\ v.cl[d].cookie = b.cl[d].cookie  BY <1>7, <1>9
  <2>4. v.se = b.se  BY <1>3, <1>6 DEF Shape
  <2>. QED  BY <2>1, <2>2, <2>3, <2>4 DEF Live
<1>11. OneMachine(v)  BY <1>3, <1>6, <1>7, <1>9 DEF Good, OneMachine
<1>. QED  BY <1>3, <1>6, <1>10, <1>11 DEF Good, Counted
-----------------------------------------------------------------------------
(* What is dispatched *)

LEMMA Refuses ==
    ASSUME NEW w, Good(w), NEW c \in Clients, w.cl[c].state \in Answering, NEW keep
    PROVE  Good(Webs!Answer(w, c, keep))
<1>1. Renewed(Webs!Answer(w, c, keep), w, c)  BY Answers
<1>. QED  BY <1>1 DEF Renewed

LEMMA Routes ==
    ASSUME NEW w, Good(w), Webs!Service, NEW c \in Clients, w.cl[c].state \in Answering, NEW r,
           NEW u \in Webs!route(w, c, r)
    PROVE  Good(u)
<1>1. PICK s : s = Webs!session_lookup(w, r.cookie)  OBVIOUS
<1>2. PICK v : v = Webs!Bound(w, c, s)  OBVIOUS
<1>3. \/ u = Webs!Answer(w, c, FALSE)
      \/ u \in Webs!route_page(w, c, r)
      \/ s # 0 /\ r.kind \in Watching /\ u \in Webs!route_stream(v, c, r.kind)
      \/ s # 0 /\ u \in Webs!Asked(v, c, r)
  BY <1>1, <1>2 DEF Webs!route, Webs!NoSession, Webs!Streaming, Watching
<1>4. ASSUME s # 0
      PROVE  Good(v) /\ v.cl[c].state \in Answering /\ v.cl[c].sess \in Slots
  <2>1. s \in Slots /\ w.se[s].use  BY <1>1, <1>4, Looked
  <2>. QED  BY <1>2, <2>1, Binds
<1>5. CASE u = Webs!Answer(w, c, FALSE)  BY <1>5, Refuses
<1>6. CASE u \in Webs!route_page(w, c, r)  BY <1>6, Pages
<1>7. CASE s # 0 /\ r.kind \in Watching /\ u \in Webs!route_stream(v, c, r.kind)
  BY <1>4, <1>7, StreamBegins
<1>8. CASE s # 0 /\ u \in Webs!Asked(v, c, r)  BY <1>4, <1>8, Asks
<1>. QED  BY <1>3, <1>5, <1>6, <1>7, <1>8

LEMMA GuiRoutes ==
    ASSUME NEW w, Good(w), ~Webs!Service, NEW c \in Clients, w.cl[c].state \in Answering, NEW r,
           NEW u \in Webs!webgui_route(w, c, r)
    PROVE  Good(u)
<1>1. PICK v : v = [w EXCEPT !.cl[c].sess = 1]  OBVIOUS
<1>2. Good(v) /\ v.cl[c].state \in Answering /\ v.cl[c].sess \in Slots
  BY <1>1, TakesMachine, FirstSlot
<1>3. \/ u = Webs!Answer(w, c, FALSE)
      \/ r.kind \in Watching /\ u = Webs!Header(v, c, r.kind)
      \/ u = Webs!Answer(v, c, TRUE)
      \/ u \in Webs!Asked(v, c, r)
  BY <1>1 DEF Webs!webgui_route, Webs!Streaming, Watching
<1>4. CASE u = Webs!Answer(w, c, FALSE)  BY <1>4, Refuses
<1>5. CASE r.kind \in Watching /\ u = Webs!Header(v, c, r.kind)  BY <1>2, <1>5, Watches
<1>6. CASE u = Webs!Answer(v, c, TRUE)  BY <1>2, <1>6, Refuses
<1>7. CASE u \in Webs!Asked(v, c, r)  BY <1>2, <1>7, Asks
<1>. QED  BY <1>3, <1>4, <1>5, <1>6, <1>7

LEMMA Completes ==
    ASSUME NEW w, Good(w), NEW c \in Clients, w.cl[c].state = "upload", NEW r, NEW k,
           NEW u \in Webs!Uploading(w, c, r, k)
    PROVE  Good(u)
<1>1. w.cl[c].state \in Answering /\ w.cl[c].sess \in Slots
  BY DEF Answering, Good, Client, Live
<1>2. CASE u \in Webs!complete_upload(w, c, r)
  <2>1. PICK q : q = [kind |-> IF r.kind = "disk" THEN "disk" ELSE "config"]  OBVIOUS
  <2>2. Webs!complete_upload(w, c, r) = Webs!Asked(w, c, q)
    BY <2>1 DEF Webs!complete_upload, Webs!Asked
  <2>. QED  BY <1>1, <1>2, <2>2, Asks
<1>3. CASE u = [w EXCEPT !.cl[c].have = k]  BY <1>1, <1>3, Marks
<1>. QED  BY <1>2, <1>3 DEF Webs!Uploading

LEMMA Wholes ==
    ASSUME NEW w, Good(w), NEW c \in Clients, w.cl[c].state \in Answering, NEW r, NEW k, NEW routed,
           \A v \in routed : Good(v), NEW u \in Webs!Whole(w, c, r, k, routed)
    PROVE  Good(u)
<1>1. CASE u = Webs!Answer(w, c, FALSE)  BY <1>1, Refuses
<1>2. CASE u = [w EXCEPT !.cl[c].have = k]  BY <1>2, Marks
<1>3. CASE \E v \in routed : u = Webs!AskedClose(v, c, r)
  <2>1. PICK v \in routed : u = Webs!AskedClose(v, c, r)  BY <1>3
  <2>2. CASE u = v  BY <2>2
  <2>3. CASE v.cl[c].state = "request" /\ u = [v EXCEPT !.cl[c].closing = TRUE]
    <3>1. v.cl[c].state \in Answering  BY <2>3 DEF Answering
    <3>. QED  BY <2>3, <3>1, Marks
  <2>. QED  BY <2>1, <2>2, <2>3 DEF Webs!AskedClose
<1>. QED  BY <1>1, <1>2, <1>3 DEF Webs!Whole

LEMMA Dispatches ==
    ASSUME NEW w, Good(w), Webs!Service, NEW c \in Clients, w.cl[c].state \in Answering, NEW r, NEW k,
           NEW u \in Webs!try_dispatch(w, c, r, k)
    PROVE  Good(u)
<1>1. PICK s : s = Webs!session_lookup(w, r.cookie)  OBVIOUS
<1>2. PICK v : v = Webs!Bound(w, c, s)  OBVIOUS
<1>3. \/ w.cl[c].state = "upload" /\ u \in Webs!Uploading(w, c, r, k)
      \/ u = Webs!Answer(w, c, FALSE)
      \/ s # 0 /\ u = [v EXCEPT !.cl[c].state = "upload", !.cl[c].have = k]
      \/ u \in Webs!Whole(w, c, r, k, Webs!route(w, c, r))
  BY <1>1, <1>2 DEF Webs!try_dispatch, Webs!NoSession
<1>4. CASE w.cl[c].state = "upload" /\ u \in Webs!Uploading(w, c, r, k)  BY <1>4, Completes
<1>5. CASE u = Webs!Answer(w, c, FALSE)  BY <1>5, Refuses
<1>6. CASE s # 0 /\ u = [v EXCEPT !.cl[c].state = "upload", !.cl[c].have = k]
  <2>1. s \in Slots /\ w.se[s].use  BY <1>1, <1>6, Looked
  <2>2. Good(v) /\ v.cl[c].state \in Answering /\ v.cl[c].sess # 0
    BY <1>2, <1>6, <2>1, Binds
  <2>. QED  BY <1>6, <2>2, Uploads
<1>7. CASE u \in Webs!Whole(w, c, r, k, Webs!route(w, c, r))  BY <1>7, Routes, Wholes
<1>. QED  BY <1>3, <1>4, <1>5, <1>6, <1>7

LEMMA GuiDispatches ==
    ASSUME NEW w, Good(w), ~Webs!Service, NEW c \in Clients, w.cl[c].state \in Answering, NEW r, NEW k,
           NEW u \in Webs!webgui_dispatch(w, c, r, k)
    PROVE  Good(u)
<1>3. \/ w.cl[c].state = "upload" /\ u \in Webs!Uploading(w, c, r, k)
      \/ u = [w EXCEPT !.cl[c] = [w.cl[c] EXCEPT !.state = "upload", !.have = k, !.sess = 1]]
      \/ u \in Webs!Whole(w, c, r, k, Webs!webgui_route(w, c, r))
  BY DEF Webs!webgui_dispatch
<1>4. CASE w.cl[c].state = "upload" /\ u \in Webs!Uploading(w, c, r, k)  BY <1>4, Completes
<1>5. CASE u = [w EXCEPT !.cl[c] = [w.cl[c] EXCEPT !.state = "upload", !.have = k, !.sess = 1]]
  <2>1. PICK j : j = w.cl[c]  OBVIOUS
  <2>2. Client(j) /\ j.cookie = 0 /\ j.state \in Answering  BY <2>1 DEF Good, OneMachine
  <2>3. PICK m : m = [j EXCEPT !.state = "upload", !.have = k, !.sess = 1]  OBVIOUS
  <2>4. u = [w EXCEPT !.cl[c] = m]  BY <1>5, <2>1, <2>3
  <2>5. /\ DOMAIN m = DOMAIN j /\ m.state = "upload" /\ m.out = j.out /\ m.got = j.got
        /\ m.done = j.done /\ m.sess = 1 /\ m.cookie = 0
    BY <2>2, <2>3 DEF Client
  <2>6. /\ (j.state \in Watching) = FALSE /\ (m.state \in Watching) = FALSE /\ m.state \in Answering
        /\ m.state # "free"
    BY <2>2, <2>5 DEF Answering, Watching
  <2>7. Client(m)  BY <2>2, <2>5, <2>6 DEF Client
  <2>8. Live(w, m) /\ SameWatch(m, w.cl[c])
    BY <2>1, <2>5, <2>6, FirstSlot DEF Live, SameWatch, Good, OneMachine
  <2>9. Good([w EXCEPT !.cl[c] = m])  BY <2>5, <2>7, <2>8, PutClient
  <2>. QED  BY <2>4, <2>9
<1>6. CASE u \in Webs!Whole(w, c, r, k, Webs!webgui_route(w, c, r))  BY <1>6, GuiRoutes, Wholes
<1>. QED  BY <1>3, <1>4, <1>5, <1>6
-----------------------------------------------------------------------------
(* The steps *)

Quiet == ~v3.up => (\A c \in Clients : v1[c].state = "free") /\ (\A s \in Slots : v2[s].keys \subseteq v2[s].named)
Crashed == v3.crashed => ~v3.up /\ v3.mode = "service" /\ v4.failed # {}
WebInv == /\ Good(Webs!World)
          /\ DOMAIN v3 = {"mode", "up", "now", "crashed"} /\ v3.mode \in {"service", "gui"}
          /\ Quiet /\ Crashed

(* A step that ends in a good world, whatever it writes into the history. *)
LEMMA Lands ==
    ASSUME NEW v, Good(v), v1' = v.cl, v2' = v.se, v3'.mode = v3.mode,
           DOMAIN v4' = {"cookies", "sent", "cut", "failed", "n"}, ~v4'.cut, v4'.failed = v.h.failed
    PROVE  Good(Webs!World)'
<1>1. PICK u : u = [v EXCEPT !.h = v4']  OBVIOUS
<1>2. /\ Shape(u) /\ u.cl = v.cl /\ u.se = v.se /\ u.h = v4'
  BY <1>1 DEF Good, Shape
<1>3. Good(u)  BY <1>2 DEF Good, Live, Counted, OneMachine, Webs!Watchers
<1>4. u = Webs!World'
  <2>1. u = [cl |-> u.cl, se |-> u.se, h |-> u.h]  BY <1>1 DEF Good, Shape
  <2>. QED  BY <1>2, <2>1 DEF Webs!World
<1>5. Webs!Service' = Webs!Service  BY DEF Webs!Service
<1>. QED  BY <1>3, <1>4, <1>5 DEF Good, Counted, OneMachine, Shape, Live, Webs!Watchers, Webs!Streaming

LEMMA WorldFields ==
    /\ Webs!World.cl = v1 /\ Webs!World.se = v2 /\ Webs!World.h = v4
    /\ DOMAIN Webs!World = {"cl", "se", "h"}
BY DEF Webs!World

(* The history after one more event *)
LEMMA Counts ==
    ASSUME Good(Webs!World), Webs!Event(v4)
    PROVE  DOMAIN v4' = {"cookies", "sent", "cut", "failed", "n"} /\ ~v4'.cut /\ v4'.failed = v4.failed
<1>1. v4' = [v4 EXCEPT !.n = v4.n + 1]  BY DEF Webs!Event
<1>2. DOMAIN v4 = {"cookies", "sent", "cut", "failed", "n"} /\ ~v4.cut
  BY WorldFields DEF Good, Shape
<1>. QED  BY <1>1, <1>2

LEMMA BecomesGood ==
    ASSUME NEW w, Good(w), Webs!Becomes(w)
    PROVE  Good(Webs!World)'
<1>1. v1' = w.cl /\ v2' = w.se /\ v4' = w.h /\ v3' = v3  BY DEF Webs!Becomes
<1>2. DOMAIN v4' = {"cookies", "sent", "cut", "failed", "n"} /\ ~v4'.cut /\ v4'.failed = w.h.failed
  BY <1>1 DEF Good, Shape
<1>. QED  BY <1>1, <1>2, Lands

(* Clients that keep their sessions and go on as they did *)
LEMMA PutClients ==
    ASSUME NEW w, Good(w), NEW f, DOMAIN f = Clients,
           \A c \in Clients : /\ Client(f[c]) /\ f[c].sess = w.cl[c].sess
                              /\ f[c].cookie = w.cl[c].cookie /\ SameWatch(f[c], w.cl[c]),
           NEW v, v = [w EXCEPT !.cl = f]
    PROVE  Good(v) /\ v.cl = f /\ v.se = w.se /\ v.h = w.h
<1>1. Shape(v) /\ v.cl = f /\ v.se = w.se /\ v.h = w.h  BY DEF Good, Shape
<1>2. ASSUME NEW c \in Clients PROVE Client(v.cl[c]) /\ Live(v, v.cl[c])
  <2>1. Client(f[c]) /\ f[c].sess = w.cl[c].sess /\ f[c].cookie = w.cl[c].cookie  OBVIOUS
  <2>2. Live(w, w.cl[c])  BY DEF Good
  <2>. QED  BY <1>1, <2>1, <2>2 DEF Live
<1>0. \A s : Webs!Watchers(v, Clients, s) = Webs!Watchers(w, Clients, s)  BY <1>1, SameWatchers, ZenonT(40)
<1>3. Counted(v)  BY <1>0, <1>1 DEF Good, Counted
<1>4. OneMachine(v)  BY <1>1 DEF Good, OneMachine
<1>. QED  BY <1>1, <1>2, <1>3, <1>4 DEF Good

LEMMA AcceptStep ==
    ASSUME WebInv, Webs!Accept
    PROVE  WebInv'
<1>1. PICK c \in Clients : v1[c].state = "free" /\ v1' = [v1 EXCEPT ![c].state = "request"]
  BY DEF Webs!Accept
<1>2. v3.up /\ Webs!Event(v4) /\ v2' = v2 /\ v3' = v3  BY DEF Webs!Accept
<1>3. PICK w : w = Webs!World  OBVIOUS
<1>4. Good(w) /\ w.cl = v1 /\ w.se = v2 /\ w.h = v4  BY <1>3, WorldFields DEF WebInv
<1>5. PICK k : k = [v1[c] EXCEPT !.state = "request"]  OBVIOUS
<1>6. Client(v1[c]) /\ Live(w, v1[c]) /\ (~Webs!Service => v1[c].cookie = 0)
  BY <1>4 DEF Good, OneMachine
<1>7. /\ DOMAIN k = DOMAIN v1[c] /\ k.state = "request" /\ k.out = v1[c].out /\ k.got = v1[c].got
      /\ k.done = v1[c].done /\ k.sess = v1[c].sess /\ k.cookie = v1[c].cookie
  BY <1>5, <1>6 DEF Client
<1>8. /\ (k.state \in Watching) = FALSE /\ (v1[c].state \in Watching) = FALSE
      /\ k.state \in Answering /\ k.state # "free"
  BY <1>1, <1>7 DEF Watching, Answering
<1>9. Client(k)  BY <1>6, <1>7, <1>8 DEF Client
<1>10. Live(w, k) /\ (~Webs!Service => k.cookie = 0) /\ SameWatch(k, w.cl[c])
  BY <1>4, <1>6, <1>7, <1>8 DEF Live, SameWatch
<1>11. PICK v : v = [w EXCEPT !.cl[c] = k]  OBVIOUS
<1>12. Good(v)  BY <1>4, <1>9, <1>10, <1>11, PutClient
<1>13. v.cl = v1' /\ v.se = v2' /\ v.h = v4  BY <1>1, <1>2, <1>4, <1>5, <1>11 DEF Good, Shape
<1>14. Good(Webs!World)'  BY <1>2, <1>12, <1>13, Counts, Lands DEF WebInv
<1>. QED  BY <1>2, <1>14 DEF WebInv, Quiet, Crashed

(* Nothing comes from a client when the gui is stopped. *)
LEMMA UpForClients ==
    ASSUME WebInv, NEW c \in Clients, v1[c].state # "free"
    PROVE  v3.up
BY DEF WebInv, Quiet, Crashed

LEMMA ReceiveStep ==
    ASSUME WebInv, Webs!Receive
    PROVE  WebInv'
<1>0. PICK c \in Clients :
         /\ v1[c].state \in {"request", "upload"}
         /\ \E n \in v1[c].have + 1 .. v1[c].reqs[v1[c].done + 1].parts :
               \E w \in IF Webs!Service
                         THEN Webs!try_dispatch(Webs!World, c, v1[c].reqs[v1[c].done + 1], n)
                         ELSE Webs!webgui_dispatch(Webs!World, c, v1[c].reqs[v1[c].done + 1], n) :
                  Webs!Becomes(w)
  BY Zenon DEF Webs!Receive
<1>1. PICK n : \E w \in IF Webs!Service
                          THEN Webs!try_dispatch(Webs!World, c, v1[c].reqs[v1[c].done + 1], n)
                          ELSE Webs!webgui_dispatch(Webs!World, c, v1[c].reqs[v1[c].done + 1], n) :
                   Webs!Becomes(w)
  BY <1>0, Zenon
<1>2. PICK w \in IF Webs!Service
                  THEN Webs!try_dispatch(Webs!World, c, v1[c].reqs[v1[c].done + 1], n)
                  ELSE Webs!webgui_dispatch(Webs!World, c, v1[c].reqs[v1[c].done + 1], n) :
         Webs!Becomes(w)
  BY <1>1
<1>3. Good(Webs!World) /\ Webs!World.cl[c].state \in Answering
  BY <1>0, WorldFields DEF WebInv, Answering
<1>4. Good(w)
  <2>1. CASE Webs!Service  BY <1>2, <1>3, <2>1, Dispatches
  <2>2. CASE ~Webs!Service  BY <1>2, <1>3, <2>2, GuiDispatches
  <2>. QED  BY <2>1, <2>2
<1>5. v3.up /\ v3' = v3  BY <1>0, <1>2, UpForClients DEF Webs!Becomes
<1>6. Good(Webs!World)'  BY <1>2, <1>4, BecomesGood
<1>. QED  BY <1>5, <1>6 DEF WebInv, Quiet, Crashed

LEMMA CloseStep ==
    ASSUME WebInv, NEW c \in Clients, v1[c].state # "free",
           Webs!Becomes(Webs!wc_close(Webs!World, {c}))
    PROVE  WebInv'
<1>1. Good(Webs!wc_close(Webs!World, {c}))  BY Closes DEF WebInv
<1>2. Good(Webs!World)'  BY <1>1, BecomesGood
<1>3. v3.up /\ v3' = v3  BY UpForClients DEF Webs!Becomes
<1>. QED  BY <1>2, <1>3 DEF WebInv, Quiet, Crashed

LEMMA SendStep ==
    ASSUME WebInv, Webs!wc_send
    PROVE  WebInv'
<1>1. PICK c \in Clients : \E n \in 1 .. Len(v1[c].out) :
         LET k == v1[c]
             w == [Webs!World EXCEPT !.cl[c] = [k EXCEPT !.got = k.got \o SubSeq(k.out, 1, n),
                                                         !.out = SubSeq(k.out, n + 1, Len(k.out))]]
         IN  /\ k.state # "free"
             /\ Webs!Becomes(IF n = Len(k.out) /\ k.closing THEN Webs!wc_close(w, {c}) ELSE w)
  BY DEF Webs!wc_send
<1>0. PICK n \in 1 .. Len(v1[c].out) :
         LET k == v1[c]
             w == [Webs!World EXCEPT !.cl[c] = [k EXCEPT !.got = k.got \o SubSeq(k.out, 1, n),
                                                         !.out = SubSeq(k.out, n + 1, Len(k.out))]]
         IN  /\ k.state # "free"
             /\ Webs!Becomes(IF n = Len(k.out) /\ k.closing THEN Webs!wc_close(w, {c}) ELSE w)
  BY <1>1
<1>2. PICK j, w : j = v1[c] /\ w = Webs!World  OBVIOUS
<1>3. Good(w) /\ w.cl = v1 /\ w.se = v2 /\ w.h = v4  BY <1>2, WorldFields DEF WebInv
<1>4. Client(j) /\ Live(w, j) /\ (~Webs!Service => j.cookie = 0)
  BY <1>2, <1>3 DEF Good, OneMachine
<1>5. PICK got2, out2 : got2 = j.got \o SubSeq(j.out, 1, n) /\ out2 = SubSeq(j.out, n + 1, Len(j.out))
  OBVIOUS
<1>6. got2 \in Letters /\ out2 \in Letters /\ got2 \o out2 = j.got \o j.out
  BY <1>2, <1>4, <1>5, Moved DEF Client
<1>7. PICK k : k = [j EXCEPT !.got = got2, !.out = out2]  OBVIOUS
<1>8. /\ DOMAIN k = DOMAIN j /\ k.state = j.state /\ k.out = out2 /\ k.got = got2
      /\ k.done = j.done /\ k.sess = j.sess /\ k.cookie = j.cookie
  BY <1>4, <1>7 DEF Client
<1>9. Client(k)  BY <1>4, <1>6, <1>8 DEF Client
<1>10. Live(w, k) /\ (~Webs!Service => k.cookie = 0) /\ SameWatch(k, w.cl[c])
  BY <1>2, <1>3, <1>4, <1>8 DEF Live, SameWatch
<1>11. PICK v : v = [w EXCEPT !.cl[c] = k]  OBVIOUS
<1>12. Good(v)  BY <1>3, <1>9, <1>10, <1>11, PutClient
<1>13. PICK u : Webs!Becomes(u) /\ (u = v \/ u = Webs!wc_close(v, {c}))
  BY <1>0, <1>2, <1>5, <1>7, <1>11
<1>14. Good(u)  BY <1>12, <1>13, Closes
<1>15. Good(Webs!World)'  BY <1>13, <1>14, BecomesGood
<1>16. v3.up /\ v3' = v3  BY <1>0, <1>13, UpForClients DEF Webs!Becomes
<1>. QED  BY <1>15, <1>16 DEF WebInv, Quiet, Crashed
(* A part for every stream that has sent what it had *)
LEMMA FeedStep ==
    ASSUME WebInv, v3.up, NEW ready \in SUBSET Clients, Webs!Feeds(ready),
           \A c \in ready : v1[c].state \in Watching /\ v1[c].out = <<>>
    PROVE  WebInv'
<1>1. /\ v1' = [c \in Clients |-> IF c \in ready THEN [v1[c] EXCEPT !.out = Webs!Part] ELSE v1[c]]
      /\ Webs!Event(v4) /\ v2' = v2 /\ v3' = v3
  BY DEF Webs!Feeds
<1>2. PICK w : w = Webs!World  OBVIOUS
<1>3. Good(w) /\ w.cl = v1 /\ w.se = v2 /\ w.h = v4  BY <1>2, WorldFields DEF WebInv
<1>4. ASSUME NEW c \in Clients
      PROVE  /\ Client(v1'[c]) /\ v1'[c].sess = w.cl[c].sess
             /\ v1'[c].cookie = w.cl[c].cookie /\ SameWatch(v1'[c], w.cl[c])
  <2>1. PICK j : j = v1[c]  OBVIOUS
  <2>2. Client(j) /\ j = w.cl[c]  BY <1>3, <2>1 DEF Good
  <2>3. CASE c \notin ready
    <3>1. v1'[c] = j  BY <1>1, <2>1, <2>3
    <3>. QED  BY <2>2, <3>1 DEF SameWatch
  <2>4. CASE c \in ready
    <3>1. PICK k : k = [j EXCEPT !.out = Webs!Part]  OBVIOUS
    <3>2. v1'[c] = k  BY <1>1, <2>1, <2>4, <3>1
    <3>3. j.state \in Watching /\ j.out = <<>> /\ (j.state \in Watching) = TRUE  BY <2>1, <2>4
    <3>4. /\ DOMAIN k = DOMAIN j /\ k.state = j.state /\ k.out = Webs!Part /\ k.got = j.got
          /\ k.done = j.done /\ k.sess = j.sess /\ k.cookie = j.cookie
      BY <2>2, <3>1 DEF Client
    <3>5. /\ j.got \in Letters /\ j.done \in Nat /\ Told(j.got \o <<>>, j.done, TRUE)
          /\ (Len(j.got \o <<>>) - j.done) % 2 = 0
      BY <2>2, <3>3 DEF Client
    <3>6. /\ Webs!Part \in Letters /\ Told(j.got \o Webs!Part, j.done, TRUE)
          /\ (Len(j.got \o Webs!Part) - j.done) % 2 = 0
      BY <3>5, PartTold, Zenon
    <3>7. Client(k)  BY <2>2, <3>3, <3>4, <3>6 DEF Client
    <3>8. SameWatch(k, j)  BY <3>4 DEF SameWatch
    <3>. QED  BY <2>2, <3>2, <3>4, <3>7, <3>8
  <2>. QED  BY <2>3, <2>4
<1>5. PICK f : f = v1'  OBVIOUS
<1>6. DOMAIN f = Clients  BY <1>1, <1>5
<1>7. PICK v : v = [w EXCEPT !.cl = f]  OBVIOUS
<1>8. Good(v) /\ v.cl = f /\ v.se = w.se /\ v.h = w.h
  BY <1>3, <1>4, <1>5, <1>6, <1>7, PutClients
<1>9. Good(Webs!World)'  BY <1>1, <1>3, <1>5, <1>8, Counts, Lands DEF WebInv
<1>. QED  BY <1>1, <1>9 DEF WebInv, Quiet, Crashed

LEMMA SweepStep ==
    ASSUME WebInv, Webs!session_idle_sweep
    PROVE  WebInv'
<1>1. PICK idle : idle = {s \in Slots : Webs!Idle(Webs!World, s)}  OBVIOUS
<1>2. PICK v : v = Webs!session_destroy(Webs!World, idle)  OBVIOUS
<1>3. Webs!Service /\ Webs!Becomes(v)  BY <1>1, <1>2 DEF Webs!session_idle_sweep
<1>4. idle \in SUBSET Slots /\ \A s \in idle : Webs!World.se[s].attached = 0
  BY <1>1 DEF Webs!Idle
<1>5. /\ Good(v) /\ \A c \in Clients : v.cl[c] = v1[c] \/ v.cl[c] = Webs!FreeClient
      /\ \A s \in Slots : v.se[s] = IF s \in idle THEN Webs!NoMachine ELSE v2[s]
  BY <1>2, <1>3, <1>4, WorldFields, Destroys DEF WebInv
<1>6. v1' = v.cl /\ v2' = v.se /\ v3' = v3  BY <1>3 DEF Webs!Becomes
<1>7. Good(Webs!World)'  BY <1>3, <1>5, BecomesGood
<1>8. Quiet'
  BY <1>5, <1>6 DEF WebInv, Quiet, Webs!FreeClient, Webs!NoMachine
<1>9. v4'.failed = v4.failed
  BY <1>2, <1>3, <1>4, WorldFields, Destroys DEF WebInv, Webs!Becomes
<1>. QED  BY <1>6, <1>7, <1>8, <1>9 DEF WebInv, Crashed

(* Every connection is closed. *)
LEMMA HangsUp ==
    ASSUME WebInv, NEW machines, Webs!Hangs(machines), DOMAIN machines = Slots,
           DOMAIN v3' = DOMAIN v3, v3'.mode = v3.mode, v3'.up = FALSE,
           v3'.crashed => Webs!Service /\ v4.failed # {},
           \A s \in Slots : /\ Machine(machines[s]) /\ machines[s].keys \subseteq machines[s].named
                            /\ Has(machines[s], v4.failed)
                            /\ Webs!Service => machines[s].attached = 0
                            /\ ~Webs!Service => /\ machines[s].use = v2[s].use
                                                /\ machines[s].cookie = v2[s].cookie
    PROVE  WebInv'
<1>1. PICK w : w = Webs!wc_close(Webs!World, Clients)  OBVIOUS
<1>2. v1' = w.cl /\ v2' = machines /\ Webs!Event(v4)
  BY <1>1 DEF Webs!Hangs
<1>3. Good(w) /\ w.h = v4 /\ \A c \in Clients : w.cl[c] = Webs!FreeClient
  BY <1>1, WorldFields, Closes DEF WebInv
<1>4. PICK v : v = [w EXCEPT !.se = machines]  OBVIOUS
<1>5. Shape(v) /\ v.cl = w.cl /\ v.se = machines /\ v.h = w.h  BY <1>3, <1>4 DEF Good, Shape
<1>6. \A c \in Clients : Client(v.cl[c]) /\ Live(v, v.cl[c])
  BY <1>3, <1>5 DEF Good, Live, Webs!FreeClient, Webs!NoSession
<1>7. Counted(v)
  <2>1. \A s \in Slots : Webs!Watchers(v, Clients, s) = {}
    BY <1>3, <1>5 DEF Webs!Watchers, Webs!Streaming, Webs!FreeClient
  <2>. QED  BY <1>5, <2>1, FS_EmptySet DEF Counted
<1>8. OneMachine(v)
  BY <1>3, <1>5, WorldFields, FirstSlot DEF WebInv, Good, OneMachine, Webs!FreeClient
<1>9. Good(v)  BY <1>3, <1>5, <1>6, <1>7, <1>8 DEF Good
<1>10. DOMAIN v4' = {"cookies", "sent", "cut", "failed", "n"} /\ ~v4'.cut /\ v4'.failed = v4.failed
  BY <1>2, Counts DEF WebInv
<1>11. Good(Webs!World)'  BY <1>2, <1>3, <1>5, <1>9, <1>10, Lands
<1>12. Quiet'  BY <1>2, <1>3 DEF Quiet, Webs!FreeClient
<1>13. Crashed'  BY <1>10 DEF Crashed, Webs!Service
<1>. QED  BY <1>11, <1>12, <1>13 DEF WebInv

LEMMA StopStep ==
    ASSUME WebInv, Webs!Terminated \/ Webs!Crash \/ Webs!webgui_stop
    PROVE  WebInv'
<1>0. DOMAIN v3 = {"mode", "up", "now", "crashed"}  BY DEF WebInv
<1>1. CASE Webs!Terminated \/ Webs!Crash
  <2>1. PICK machines : machines = [s \in Slots |-> Webs!NoMachine]  OBVIOUS
  <2>2. Webs!Service /\ Webs!Hangs(machines) /\ v3.up
    BY <1>1, <2>1 DEF Webs!Terminated, Webs!Crash, Webs!Hangs
  <2>3. DOMAIN machines = Slots /\ \A s \in Slots : machines[s] = Webs!NoMachine  BY <2>1
  <2>4. /\ Machine(Webs!NoMachine) /\ Webs!NoMachine.keys \subseteq Webs!NoMachine.named
        /\ Webs!NoMachine.attached = 0 /\ Has(Webs!NoMachine, v4.failed)
    BY DEF Machine, Has, Webs!NoMachine
  <2>5. ~v3.crashed  BY <2>2 DEF WebInv, Crashed
  <2>6. /\ DOMAIN v3' = DOMAIN v3 /\ v3'.mode = v3.mode /\ v3'.up = FALSE
        /\ v3'.crashed => v4.failed # {}
    <3>1. CASE Webs!Terminated
      <4>1. v3' = [v3 EXCEPT !.up = FALSE]  BY <3>1 DEF Webs!Terminated
      <4>. QED  BY <1>0, <2>5, <4>1
    <3>2. CASE Webs!Crash
      <4>1. v3' = [v3 EXCEPT !.up = FALSE, !.crashed = TRUE]  BY <3>2 DEF Webs!Crash
      <4>2. PICK s \in Slots : v2[s].use /\ ~v2[s].built  BY <3>2 DEF Webs!Crash
      <4>3. v2[s].cookie \in v4.failed  BY <4>2, WorldFields DEF WebInv, Good, Has
      <4>. QED  BY <1>0, <4>1, <4>3
    <3>. QED  BY <1>1, <3>1, <3>2
  <2>. QED  BY <2>2, <2>3, <2>4, <2>6, HangsUp
<1>2. CASE Webs!webgui_stop
  <2>1. PICK machines :
           machines = [s \in Slots |-> [Webs!session_release_input(v2[s]) EXCEPT !.held = {}]]
    OBVIOUS
  <2>2. /\ ~Webs!Service /\ Webs!Hangs(machines) /\ v3' = [v3 EXCEPT !.up = FALSE] /\ v3.up
    BY <1>2, <2>1 DEF Webs!webgui_stop, Webs!Hangs
  <2>3. DOMAIN machines = Slots  BY <2>1
  <2>4. ASSUME NEW s \in Slots
        PROVE  /\ Machine(machines[s]) /\ machines[s].keys \subseteq machines[s].named
               /\ Has(machines[s], v4.failed)
               /\ machines[s].use = v2[s].use /\ machines[s].cookie = v2[s].cookie
    <3>1. PICK x, y : /\ x = [v2[s] EXCEPT !.keys = v2[s].keys \ v2[s].held]
                      /\ y = [x EXCEPT !.held = {}]
      OBVIOUS
    <3>2. machines[s] = y  BY <2>1, <3>1 DEF Webs!session_release_input
    <3>3. Machine(v2[s]) /\ Has(v2[s], v4.failed)  BY WorldFields DEF WebInv, Good
    <3>4. /\ x.keys \subseteq x.named /\ DOMAIN x = DOMAIN v2[s] /\ x.use = v2[s].use
          /\ x.cookie = v2[s].cookie /\ x.built = v2[s].built
      BY <3>1, <3>3 DEF Machine
    <3>5. /\ y.keys = x.keys /\ y.named = x.named /\ DOMAIN y = DOMAIN x /\ y.use = x.use
          /\ y.cookie = x.cookie /\ y.built = x.built
      BY <3>1, <3>3, <3>4 DEF Machine
    <3>. QED  BY <3>2, <3>3, <3>4, <3>5 DEF Machine, Has
  <2>5. DOMAIN v3' = DOMAIN v3 /\ v3'.mode = v3.mode /\ v3'.up = FALSE /\ ~v3'.crashed
    BY <1>0, <2>2 DEF WebInv, Crashed
  <2>. QED  BY <2>2, <2>3, <2>4, <2>5, HangsUp
<1>. QED  BY <1>1, <1>2

(* The start, and time that passes: clients and sessions stay. *)
LEMMA WaitStep ==
    ASSUME WebInv, Webs!webgui_start \/ Webs!Tick
    PROVE  WebInv'
<1>1. PICK w : w = Webs!World  OBVIOUS
<1>2. Good(w) /\ w.cl = v1 /\ w.se = v2 /\ w.h = v4  BY <1>1, WorldFields DEF WebInv
<1>3. v1' = v1 /\ v2' = v2 /\ (v4' = v4 \/ Webs!Event(v4))
  BY DEF Webs!webgui_start, Webs!Tick
<1>4. v3' = [v3 EXCEPT !.up = TRUE] \/ v3' = [v3 EXCEPT !.now = v3.now + 1]
  BY DEF Webs!webgui_start, Webs!Tick
<1>5. /\ v3'.mode = v3.mode /\ DOMAIN v3' = DOMAIN v3 /\ (v3'.up = TRUE \/ v3'.up = v3.up)
      /\ v3'.crashed = v3.crashed /\ (~Webs!Service \/ v3'.up = v3.up)
  BY <1>4 DEF WebInv, Webs!webgui_start, Webs!Tick
<1>6. DOMAIN v4' = {"cookies", "sent", "cut", "failed", "n"} /\ ~v4'.cut /\ v4'.failed = v4.failed
  BY <1>2, <1>3, Counts DEF WebInv, Good, Shape
<1>7. Good(Webs!World)'  BY <1>2, <1>3, <1>5, <1>6, Lands
<1>8. Quiet'  BY <1>3, <1>5 DEF WebInv, Quiet
<1>9. Crashed'  BY <1>5, <1>6 DEF WebInv, Crashed, Webs!Service
<1>. QED  BY <1>5, <1>7, <1>8, <1>9 DEF WebInv

LEMMA PeerStep ==
    ASSUME WebInv, Webs!PeerAsks \/ Webs!PeerCloses
    PROVE  WebInv'
<1>1. PICK c \in Clients :
         /\ v1[c].state # "free"
         /\ \/ \E r \in Requests : v1' = [v1 EXCEPT ![c].reqs = Append(v1[c].reqs, r)]
            \/ v1' = [v1 EXCEPT ![c].fin = TRUE]
  BY DEF Webs!PeerAsks, Webs!PeerCloses
<1>2. PICK k : /\ v1' = [v1 EXCEPT ![c] = k]
               /\ \E x : k = [v1[c] EXCEPT !.reqs = x] \/ k = [v1[c] EXCEPT !.fin = x]
  <2>1. CASE \E r \in Requests : v1' = [v1 EXCEPT ![c].reqs = Append(v1[c].reqs, r)]
    <3>1. PICK r \in Requests : v1' = [v1 EXCEPT ![c].reqs = Append(v1[c].reqs, r)]  BY <2>1
    <3>2. PICK q : q = Append(v1[c].reqs, r)  OBVIOUS
    <3>3. PICK j : j = [v1[c] EXCEPT !.reqs = q]  OBVIOUS
    <3>4. v1' = [v1 EXCEPT ![c] = j]  BY <3>1, <3>2, <3>3
    <3>. QED  BY <3>3, <3>4
  <2>2. CASE v1' = [v1 EXCEPT ![c].fin = TRUE]
    <3>1. PICK j : j = [v1[c] EXCEPT !.fin = TRUE]  OBVIOUS
    <3>2. v1' = [v1 EXCEPT ![c] = j]  BY <2>2, <3>1
    <3>. QED  BY <3>1, <3>2
  <2>. QED  BY <1>1, <2>1, <2>2
<1>3. v2' = v2 /\ v3' = v3 /\ (Webs!Event(v4) \/ v4' = [v4 EXCEPT !.sent = v4.sent + 1])
  BY DEF Webs!PeerAsks, Webs!PeerCloses
<1>4. PICK w : w = Webs!World  OBVIOUS
<1>5. Good(w) /\ w.cl = v1 /\ w.se = v2 /\ w.h = v4  BY <1>4, WorldFields DEF WebInv
<1>6. Client(v1[c]) /\ Live(w, v1[c]) /\ (~Webs!Service => v1[c].cookie = 0)
  BY <1>5 DEF Good, OneMachine
<1>7. /\ DOMAIN k = DOMAIN v1[c] /\ k.state = v1[c].state /\ k.out = v1[c].out /\ k.got = v1[c].got
      /\ k.done = v1[c].done /\ k.sess = v1[c].sess /\ k.cookie = v1[c].cookie
  BY <1>2, <1>6 DEF Client
<1>8. Client(k)  BY <1>6, <1>7 DEF Client
<1>9. Live(w, k) /\ (~Webs!Service => k.cookie = 0) /\ SameWatch(k, w.cl[c])
  BY <1>5, <1>6, <1>7 DEF Live, SameWatch
<1>10. PICK v : v = [w EXCEPT !.cl[c] = k]  OBVIOUS
<1>11. Good(v)  BY <1>5, <1>8, <1>9, <1>10, PutClient
<1>12. v.cl = v1' /\ v.se = v2' /\ v.h = v4  BY <1>2, <1>3, <1>5, <1>10 DEF Good, Shape
<1>13. DOMAIN v4' = {"cookies", "sent", "cut", "failed", "n"} /\ ~v4'.cut /\ v4'.failed = v4.failed
  BY <1>3, <1>5, Counts DEF WebInv, Good, Shape
<1>14. Good(Webs!World)'  BY <1>3, <1>11, <1>12, <1>13, Lands
<1>15. v3.up  BY <1>1, UpForClients
<1>. QED  BY <1>3, <1>14, <1>15 DEF WebInv, Quiet, Crashed

LEMMA WebStarts == Webs!Init => WebInv
<1> SUFFICES ASSUME Webs!Init PROVE WebInv  OBVIOUS
<1>1. PICK w : w = Webs!World  OBVIOUS
<1>2. /\ w.cl = v1 /\ w.se = v2 /\ w.h = v4 /\ DOMAIN w = {"cl", "se", "h"}
  BY <1>1, WorldFields
<1>3. /\ DOMAIN v1 = Clients /\ \A c \in Clients : v1[c] = Webs!FreeClient
      /\ DOMAIN v2 = Slots /\ v4 = [cookies |-> 0, sent |-> 0, cut |-> FALSE, failed |-> {}, n |-> 0]
  BY DEF Webs!Init
<1>4. /\ DOMAIN v3 = {"mode", "up", "now", "crashed"} /\ v3.mode \in {"service", "gui"} /\ v3.up
      /\ ~v3.crashed
  BY DEF Webs!Init
<1>5. PICK x : x = [Webs!NoMachine EXCEPT !.use = TRUE, !.built = TRUE]  OBVIOUS
<1>6. /\ Machine(x) /\ x.attached = 0 /\ x.use /\ x.cookie = 0 /\ Has(x, {})
      /\ Machine(Webs!NoMachine) /\ Webs!NoMachine.attached = 0 /\ Has(Webs!NoMachine, {})
  BY <1>5 DEF Machine, Has, Webs!NoMachine
<1>7. \A s \in Slots : v2[s] = IF v3.mode = "gui" /\ s = 1 THEN x ELSE Webs!NoMachine
  BY <1>5 DEF Webs!Init
<1>8. Client(Webs!FreeClient) /\ Live(w, Webs!FreeClient)
  <2>1. /\ <<>> \in Letters /\ Len(<<>> \o <<>>) = 0  BY DEF Letters
  <2>2. Told(<<>> \o <<>>, 0, FALSE)  BY <2>1 DEF Told
  <2>3. ("free" \in Watching) = FALSE  BY DEF Watching
  <2>4. (0 - 0) % 2 = 0 /\ 0 \in Nat  OBVIOUS
  <2>. QED  BY <2>1, <2>2, <2>3, <2>4 DEF Client, Live, Webs!FreeClient, Webs!NoSession
<1>9. Counted(w)
  <2>1. \A s \in Slots : Webs!Watchers(w, Clients, s) = {}
    BY <1>2, <1>3 DEF Webs!Watchers, Webs!Streaming, Webs!FreeClient
  <2>. QED  BY <1>2, <1>6, <1>7, <2>1, FS_EmptySet DEF Counted
<1>10. OneMachine(w)
  <2>1. ASSUME ~Webs!Service PROVE v2[1] = x  BY <1>4, <1>7, <2>1, FirstSlot DEF Webs!Service
  <2>. QED  BY <1>2, <1>3, <1>6, <2>1 DEF OneMachine, Webs!FreeClient
<1>11. Good(w)  BY <1>2, <1>3, <1>6, <1>7, <1>8, <1>9, <1>10 DEF Good, Shape
<1>. QED  BY <1>1, <1>4, <1>11 DEF WebInv, Quiet, Crashed

LEMMA WebStep == WebInv /\ Webs!Next => WebInv'
<1> SUFFICES ASSUME WebInv, Webs!Next PROVE WebInv'  OBVIOUS
<1>1. CASE Webs!Accept  BY <1>1, AcceptStep
<1>2. CASE Webs!Receive  BY <1>2, ReceiveStep
<1>3. CASE Webs!ReceiveEnd \/ Webs!SendFails
  <2>1. PICK c \in Clients : v1[c].state # "free" /\ Webs!Becomes(Webs!wc_close(Webs!World, {c}))
    BY <1>3 DEF Webs!ReceiveEnd, Webs!SendFails
  <2>. QED  BY <2>1, CloseStep
<1>4. CASE Webs!wc_send  BY <1>4, SendStep
<1>5. CASE Webs!session_frame
  <2>1. PICK s \in Slots, kind \in Watching :
           v3.up /\ Webs!Feeds({c \in Webs!Waiting(kind) : v1[c].sess = s})
    BY <1>5 DEF Webs!session_frame, Webs!Streaming, Watching
  <2>2. PICK ready : ready = {c \in Webs!Waiting(kind) : v1[c].sess = s}  OBVIOUS
  <2>3. ready \in SUBSET Clients /\ \A c \in ready : v1[c].state \in Watching /\ v1[c].out = <<>>
    BY <2>2 DEF Webs!Waiting
  <2>. QED  BY <2>1, <2>2, <2>3, FeedStep
<1>6. CASE Webs!webgui_frame
  <2>1. PICK kind \in Watching : v3.up /\ Webs!Feeds(Webs!Waiting(kind))
    BY <1>6 DEF Webs!webgui_frame, Webs!Streaming, Watching
  <2>2. /\ Webs!Waiting(kind) \in SUBSET Clients
        /\ \A c \in Webs!Waiting(kind) : v1[c].state \in Watching /\ v1[c].out = <<>>
    BY DEF Webs!Waiting
  <2>. QED  BY <2>1, <2>2, FeedStep
<1>7. CASE Webs!session_idle_sweep  BY <1>7, SweepStep
<1>8. CASE Webs!Terminated \/ Webs!Crash \/ Webs!webgui_stop  BY <1>8, StopStep
<1>9. CASE Webs!webgui_start \/ Webs!Tick  BY <1>9, WaitStep
<1>10. CASE Webs!PeerAsks \/ Webs!PeerCloses  BY <1>10, PeerStep
<1>. QED
  BY <1>1, <1>2, <1>3, <1>4, <1>5, <1>6, <1>7, <1>8, <1>9, <1>10, Zenon DEF Webs!Next

LEMMA WebShows == WebInv => Webs!WebSound
<1> SUFFICES ASSUME WebInv PROVE Webs!WebSound  OBVIOUS
<1>1. PICK w : w = Webs!World  OBVIOUS
<1>2. Good(w) /\ w.cl = v1 /\ w.se = v2 /\ w.h = v4  BY <1>1, WorldFields DEF WebInv
<1>3. Webs!AttachedExact
  BY <1>1, <1>2, SameCardinality DEF Good, Counted, Webs!AttachedExact
<1>4. Webs!SessionsLive
  BY <1>2 DEF Good, Live, Webs!SessionsLive, Webs!NoSession
<1>5. Webs!Answered
  <2>1. SUFFICES ASSUME NEW c \in Clients, NEW all, all = v1[c].got \o v1[c].out
                 PROVE  /\ v1[c].done <= Len(all)
                        /\ \A i \in DOMAIN all :
                              IF i <= v1[c].done THEN all[i] = [request |-> i]
                              ELSE /\ v1[c].state \in Webs!Streaming
                                   /\ all[i] = [half |-> 2 - ((i - v1[c].done) % 2)]
    BY DEF Webs!Answered
  <2>2. Told(all, v1[c].done, v1[c].state \in Watching) /\ all \in Letters
    BY <1>2, <2>1, Joined DEF Good, Client
  <2>3. DOMAIN all = 1 .. Len(all)  BY <2>2 DEF Letters
  <2>. QED  BY <2>2, <2>3 DEF Told, Watching, Webs!Streaming
<1>6. Webs!StoppedLetsGo  BY DEF WebInv, Quiet, Webs!StoppedLetsGo
<1>7. Webs!MachinesBuilt  BY <1>2 DEF WebInv, Good, Has, Crashed, Webs!MachinesBuilt
<1>. QED  BY <1>3, <1>4, <1>5, <1>6, <1>7 DEF Webs!WebSound
LEMMA WebStays == WebInv /\ UNCHANGED hostVars => WebInv'
<1> SUFFICES ASSUME WebInv, UNCHANGED hostVars PROVE WebInv'  OBVIOUS
<1>1. v1' = v1 /\ v2' = v2 /\ v3' = v3 /\ v4' = v4  BY DEF hostVars
<1>2. Webs!Becomes(Webs!World)  BY <1>1, WorldFields DEF Webs!Becomes
<1>3. Good(Webs!World)'  BY <1>2, BecomesGood DEF WebInv
<1>. QED  BY <1>1, <1>3 DEF WebInv, Quiet, Crashed

(* Every session counts the streams that watch it exactly, so that neither *)
(* the sweep nor a visitor that takes a slot cuts one; no client keeps a   *)
(* session that is gone or is somebody else's; every request is answered   *)
(* once and in order on its own connection, the parts of a stream whole    *)
(* and after its header; only a visitor whose own configuration could not  *)
(* be built goes on without a machine; a gui that stops leaves nothing     *)
(* down but keys pressed by name: for any number of clients, sessions and  *)
(* requests, of any number of parts, and however slowly the other ends     *)
(* read (websvc.c, webgui.c).                                              *)
THEOREM WebHolds == UsersSpec => []WebSound
<1>1. UsersInit => (part = "web" => WebInv)  BY WebStarts DEF UsersInit
<1>2. (part = "web" => WebInv) /\ [part' = part /\ UsersNext]_hostVars => (part = "web" => WebInv)'
  <2>. SUFFICES ASSUME part = "web" => WebInv, [part' = part /\ UsersNext]_hostVars, part' = "web"
                PROVE  WebInv'
    OBVIOUS
  <2>1. CASE UNCHANGED hostVars
    <3>1. part = "web"  BY <2>1 DEF hostVars
    <3>. QED  BY <2>1, <3>1, WebStays
  <2>2. CASE part' = part /\ UsersNext
    <3>1. part = "web" /\ Webs!Next  BY <2>2 DEF UsersNext
    <3>. QED  BY <3>1, WebStep
  <2>. QED  BY <2>1, <2>2
<1>3. (part = "web" => WebInv) => WebSound  BY WebShows DEF WebSound
<1>. QED  BY <1>1, <1>2, <1>3, PTL DEF UsersSpec
=============================================================================
