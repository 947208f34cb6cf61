------------------------------- MODULE Inputs -------------------------------
(***************************************************************************)
(* The hands on the one keyboard matrix of the CPC: the host's keyboard    *)
(* and pads (kbd.c, joy.c), text that is pasted (paste.c) from the         *)
(* clipboard or the keyboard terminal (kbd_pty.c), the joystick script and *)
(* the pilot's commands (pilot.c).  A Frame runs their ticks in the main   *)
(* loop's order; what the guest makes of the keys is not modelled.         *)
(*                                                                         *)
(* Keys and characters are those that tell the code apart: a character     *)
(* with Shift and one without on the same key, and one with no key; one    *)
(* key a pilot taps; a direction and a fire button of row 9.               *)
(***************************************************************************)
EXTENDS Integers, Sequences, SequencesExt

CONSTANTS
    HoldFrames, GapFrames, SettleFrames,    \* of paste.c
    ClickFrames,    \* CLICK_HOLD_FRAMES
    TapFrames,      \* frames asked of key-tap, hold and wait
    Texts, PtyMax,  \* texts pasted, sizeof s_in - 1
    Script,         \* joyscript: pairs of keys and frames
    MaxEvents       \* bound on events and commands

VARIABLES
    keys,   \* the keys that are down
    ps,     \* Paste: buf, pos, timer, held
    pl,     \* Pilot: target, dir (0 for none), moveLeft, btn, clickLeft, joyHeld,
            \* tapLeft, wait and frames to its end, quiet
    o       \* kbd_pty's s_in and what its terminal still holds; the script; the host's keys
            \* and pad; history: the texts to type, the characters typed of them, what the
            \* terminal got and gave to paste, keys nobody will lift, events

vars == <<keys, ps, pl, o>>

Shift == "shift"
Row9 == {"up", "fire"}
InputsAssumption ==
    /\ {HoldFrames, GapFrames, ClickFrames, PtyMax} \cup TapFrames \subseteq Nat \ {0}
    /\ SettleFrames \in Nat /\ MaxEvents \in Nat
    /\ \A t \in Texts : Len(t) \in Nat /\ t = [i \in 1 .. Len(t) |-> t[i]]
    /\ Len(Script) \in Nat \ {0} /\ \A i \in 1 .. Len(Script) : Script[i].keys \subseteq Row9

KeyOf(c) == IF c = "B" THEN {"b", Shift} ELSE {c}
Mapped(c) == c # "none"

Init ==
    /\ keys = {} /\ ps = [buf |-> <<>>, pos |-> 1, timer |-> 0, held |-> FALSE]
    /\ pl = [target |-> "mouse", dir |-> FALSE, moveLeft |-> 0, btn |-> FALSE, clickLeft |-> 0,
             joyHeld |-> FALSE, tapLeft |-> 0, wait |-> "none", waitLeft |-> 0, quiet |-> 0]
    /\ \E script \in {1, Len(Script) + 1} :
         o = [in |-> <<>>, wire |-> <<>>, script |-> script, stepLeft |-> Script[1].frames,
              host |-> {}, pad |-> {}, text |-> <<>>, typed |-> <<>>, sent |-> <<>>, given |-> <<>>,
              stuck |-> {}, n |-> 0]

Event(next) == o.n < MaxEvents /\ o' = [next EXCEPT !.n = @ + 1]

-----------------------------------------------------------------------------
(* paste.c *)

Typing(p) == p.pos <= Len(p.buf)
Waiting(p) == \E i \in p.pos .. Len(p.buf) : Mapped(p.buf[i])

(* paste_text_raw: whatever was being typed is forgotten, and with it the  *)
(* key that is down.  History q: the text starts over, or goes on.         *)
paste_text_raw(text) == [buf |-> text, pos |-> 1, timer |-> SettleFrames, held |-> FALSE]
Retyped(p, text, q) ==
    IF Waiting(p)
    THEN [q EXCEPT !.text = text, !.typed = <<>>,
                   !.stuck = IF p.held THEN @ \cup KeyOf(p.buf[p.pos]) ELSE @]
    ELSE [q EXCEPT !.text = @ \o text]

(* one tick of paste p over the keys k: its paste and keys *)
paste_tick(p, k) ==
    LET at == SelectInSubSeq(p.buf, p.pos, Len(p.buf), Mapped)
        q == [p EXCEPT !.pos = IF at = 0 THEN Len(p.buf) + 1 ELSE at]
    IN  IF ~Typing(p) THEN <<p, k>>
        ELSE IF p.timer > 0 THEN <<[p EXCEPT !.timer = @ - 1], k>>
        ELSE IF at = 0 THEN <<q, k>>
        ELSE IF ~p.held
             THEN <<[q EXCEPT !.held = TRUE, !.timer = HoldFrames], k \cup KeyOf(p.buf[at])>>
             ELSE <<[q EXCEPT !.held = FALSE, !.pos = at + 1, !.timer = GapFrames],
                    k \ KeyOf(p.buf[at])>>

(* kbd_pty_tick: what the terminal holds is kept, and pasted once the      *)
(* paste under way is over                                                 *)
kbd_pty_tick(p, q) ==
    LET room == PtyMax - Len(q.in)
        more == SubSeq(q.wire, 1, IF room < Len(q.wire) THEN room ELSE Len(q.wire))
        all == q.in \o more
        drained == [q EXCEPT !.wire = SubSeq(@, Len(more) + 1, Len(@)), !.in = all]
    IN  IF Typing(p) \/ all = <<>> THEN <<p, drained>>
        ELSE <<paste_text_raw(all), [Retyped(p, all, drained) EXCEPT !.in = <<>>, !.given = @ \o all]>>

-----------------------------------------------------------------------------
(* joyscript_tick: the row is set to the step, and released after the last *)
ScriptDone(q) == q.script > Len(Script)
joyscript_tick(q, k) ==
    LET mask == Script[q.script].keys
        set == (k \ Row9) \cup mask
    IN  IF ScriptDone(q) THEN <<q, k>>
        ELSE IF q.stepLeft > 1 THEN <<[q EXCEPT !.stepLeft = @ - 1], set>>
        ELSE IF q.script < Len(Script)
             THEN <<[q EXCEPT !.script = @ + 1, !.stepLeft = Script[q.script + 1].frames], set>>
             ELSE <<[q EXCEPT !.script = @ + 1], k \ Row9>>

-----------------------------------------------------------------------------
(* pilot.c: one command c of a line, on pilot p, keys k, paste and others *)
TapKey == "t"

release_keytap(p, k) == <<[p EXCEPT !.tapLeft = 0], IF p.tapLeft > 0 THEN k \ {TapKey} ELSE k>>

Move(p) == [p EXCEPT !.dir = TRUE, !.moveLeft = 0]
Hold(p, f) == [p EXCEPT !.dir = TRUE, !.moveLeft = f]
Stop(p) == [p EXCEPT !.dir = FALSE, !.moveLeft = 0]
Press(p, on) == [p EXCEPT !.btn = on, !.clickLeft = 0]
Click(p, f) == [p EXCEPT !.btn = TRUE, !.clickLeft = f]
Wait(p, mode, f) == [p EXCEPT !.wait = mode, !.waitLeft = f]

(* The key goes down before the tap before is released: it may be the same *)
(* key.  Nothing else releases it when its frames are over: that test      *)
(* comes after the counter reached 0.                                      *)
KeyTap(p, k, f) == LET r == release_keytap(p, k \cup {TapKey})
                   IN  <<[r[1] EXCEPT !.tapLeft = f], r[2]>>

PilotReset(p, k) == release_keytap([Stop(p) EXCEPT !.btn = FALSE, !.clickLeft = 0], k)

PlainCommands(p) ==
    {Move(p), Stop(p), Press(p, TRUE), Press(p, FALSE), Click(p, ClickFrames),
     [p EXCEPT !.target = "joy"], [p EXCEPT !.target = "mouse"]}
        \cup {Hold(p, f) : f \in TapFrames} \cup {Click(p, f) : f \in TapFrames}
        \cup {Wait(p, m, f) : m \in {"change", "quiet"}, f \in TapFrames}
        \cup {Wait(p, "frames", f) : f \in TapFrames}

(* pilot_tick after its commands: clicks and the tap run out; then the     *)
(* mouse, letting go of row 9 if it had it, or the joystick                *)
Aged(p) ==
    [p EXCEPT !.clickLeft = IF @ > 0 THEN @ - 1 ELSE 0, !.btn = @ /\ p.clickLeft # 1,
              !.tapLeft = IF @ > 0 THEN @ - 1 ELSE 0]
Expired(p, k) == IF p.tapLeft = 1 THEN release_keytap(Aged(p), k)[2] ELSE k

Mask(p) == (IF p.dir THEN {"up"} ELSE {}) \cup (IF p.btn THEN {"fire"} ELSE {})
AppliedFaulty(p, k) ==       \* leaves row 9 as it is
    IF p.target = "joy" THEN <<[p EXCEPT !.joyHeld = TRUE], (k \ Row9) \cup Mask(p)>>
    ELSE <<[p EXCEPT !.joyHeld = FALSE], k>>
Applied(p, k) ==
    IF p.target = "joy" THEN <<[p EXCEPT !.joyHeld = TRUE], (k \ Row9) \cup Mask(p)>>
    ELSE <<[p EXCEPT !.joyHeld = FALSE], IF p.joyHeld THEN k \ Row9 ELSE k>>
Moved(p) == [p EXCEPT !.moveLeft = IF @ > 0 THEN @ - 1 ELSE 0, !.dir = @ /\ p.moveLeft # 1]

pilot_apply(p, k) == LET r == Applied(Aged(p), Expired(p, k)) IN <<Moved(r[1]), r[2]>>

(* pilot_post_frame: a wait ends when its frames are over, its screen came *)
(* or its timeout passed                                                   *)
pilot_post_frame(p, changed) ==
    LET q == [p EXCEPT !.quiet = IF changed THEN 0 ELSE 1, !.waitLeft = IF @ > 0 THEN @ - 1 ELSE 0]
        ends == \/ q.waitLeft = 0
                \/ p.wait = "change" /\ changed
                \/ p.wait = "quiet" /\ ~changed
    IN  IF p.wait # "none" /\ ends THEN [q EXCEPT !.wait = "none", !.waitLeft = 0] ELSE q

-----------------------------------------------------------------------------
(* The host's hands *)
HostKeys == {"b", Shift}
HostKey == \E x \in HostKeys :
             \/ x \notin o.host /\ keys' = keys \cup {x} /\ Event([o EXCEPT !.host = @ \cup {x}])
             \/ x \in o.host /\ keys' = keys \ {x}
                /\ Event([o EXCEPT !.host = @ \ {x}, !.stuck = @ \ {x}])
PadButton == \E x \in Row9 :
               \/ x \notin o.pad /\ keys' = keys \cup {x} /\ Event([o EXCEPT !.pad = @ \cup {x}])
               \/ x \in o.pad /\ keys' = keys \ {x} /\ Event([o EXCEPT !.pad = @ \ {x}])
PadRemoved == o.pad # {} /\ keys' = keys \ Row9 /\ Event([o EXCEPT !.pad = {}])
CpcReset == keys # {} /\ keys' = {} /\ Event([o EXCEPT !.stuck = {}])

Hands == (HostKey \/ PadButton \/ PadRemoved \/ CpcReset) /\ UNCHANGED <<ps, pl>>

(* Ctrl+V: the text and no Ctrl *)
Clipboard == \E t \in Texts : /\ ps' = paste_text_raw(t) /\ Event(Retyped(ps, t, o))
                              /\ UNCHANGED <<keys, pl>>
TerminalWrites == \E t \in Texts : /\ Event([o EXCEPT !.wire = @ \o t, !.sent = @ \o t])
                                   /\ UNCHANGED <<keys, ps, pl>>

(* One turn of the main loop, with at most one command for the pilot; what *)
(* is typed is noted when its key goes up, with its place in the texts of  *)
(* which the paste has gone over so many characters.                       *)
Gone(p, q) == Len(q.text) - Len(p.buf) + p.pos - 1
Noted(p, typed, q) ==
    LET c == p.buf[p.pos]
    IN  IF p.held /\ ~typed.held
        THEN [q EXCEPT !.typed = Append(@, [at |-> Gone(p, q) + 1, key |-> c]), !.stuck = @ \ KeyOf(c)]
        ELSE q

(* the hands whose turn is before the pilot's *)
Ticked ==
    LET pty == kbd_pty_tick(ps, o)
        typed == paste_tick(pty[1], keys)
        script == joyscript_tick(Noted(pty[1], typed[1], pty[2]), typed[2])
    IN  [pl |-> pl, keys |-> script[2], ps |-> typed[1], o |-> script[1]]
Frame(x, isCommand, changed) ==
    /\ isCommand => pl.wait = "none" /\ o.n < MaxEvents
    /\ \E applied \in {pilot_apply(x.pl, x.keys)} :
          /\ keys' = applied[2] /\ ps' = x.ps /\ pl' = pilot_post_frame(applied[1], changed)
          /\ o' = [x.o EXCEPT !.n = IF isCommand THEN @ + 1 ELSE @,
                              !.stuck = IF TapKey \in applied[2] /\ applied[1].tapLeft = 0
                                        THEN @ \cup {TapKey} ELSE @]

Keyed(x, r) == [x EXCEPT !.pl = r[1], !.keys = r[2]]

FrameOnly == \E ch \in BOOLEAN : Frame(Ticked, FALSE, ch)
PilotTap == \E x \in {Ticked}, f \in TapFrames : Frame(Keyed(x, KeyTap(x.pl, x.keys, f)), TRUE, FALSE)
PilotPaste ==
    \E x \in {Ticked}, t \in Texts :
        Frame([x EXCEPT !.ps = paste_text_raw(t), !.o = Retyped(x.ps, t, @)], TRUE, FALSE)
PilotResets == \E x \in {Ticked} : Frame(Keyed(x, PilotReset(x.pl, x.keys)), TRUE, FALSE)
PilotPlain == \E x \in {Ticked}, next \in PlainCommands(pl) : Frame([x EXCEPT !.pl = next], TRUE, FALSE)

Pilot == PilotTap \/ PilotPaste \/ PilotResets \/ PilotPlain
Next == Hands \/ Clipboard \/ TerminalWrites \/ FrameOnly \/ Pilot

Spec == Init /\ [][Next]_vars

-----------------------------------------------------------------------------
(* A key that is down has someone who holds it and will lift it, but for   *)
(* those whose holder forgot them: a paste that took another's place, a    *)
(* tap whose frames are over.  The characters pasted are typed each once   *)
(* and in order, unless another paste cuts in; those sent to the terminal  *)
(* are pasted so.                                                          *)
Holders ==
    o.host \cup o.pad \cup (IF ps.held THEN KeyOf(ps.buf[ps.pos]) ELSE {})
        \cup (IF ScriptDone(o) THEN {} ELSE Row9)
        \cup (IF pl.joyHeld THEN Mask(pl) \cup {"up"} ELSE {})
        \cup (IF pl.tapLeft > 0 THEN {TapKey} ELSE {})
NothingForgotten == keys \subseteq Holders \cup o.stuck
TypedInOrder ==
    LET gone == Gone(ps, o)
    IN  /\ SubSeq(o.text, gone + 1, Len(o.text)) = SubSeq(ps.buf, ps.pos, Len(ps.buf))
        /\ {o.typed[i].at : i \in DOMAIN o.typed} = {i \in 1 .. gone : Mapped(o.text[i])}
        /\ \A i \in DOMAIN o.typed : /\ o.typed[i].key = o.text[o.typed[i].at]
                                      /\ \A j \in 1 .. i - 1 : o.typed[j].at < o.typed[i].at
TerminalKept == o.sent = o.given \o o.in \o o.wire /\ Len(o.in) <= PtyMax

InputsSound == NothingForgotten /\ TypedInOrder /\ TerminalKept

(* docs/PILOT.md:64, key-tap: "Press the key for F frames, then release    *)
(* it."                                                                    *)
TapEnds == pl.tapLeft = 0 => TapKey \notin keys
=============================================================================
