-------------------------------- MODULE Beam --------------------------------
(***************************************************************************)
(* The monitor: the horizontal and vertical hold with which the picture    *)
(* follows the pulses of the video controller (cpc.c, cpc_monitor_* and    *)
(* the end of cpc_advance_bus).                                            *)
(*                                                                         *)
(* The controller is here a source of lines: their length, and the clocks  *)
(* of a line between which the monitor sees HSYNC; VSYNC comes every so    *)
(* many of them.  It changes to other values in the middle of a line       *)
(* (Disturb).  The horizontal constants are the code's own; the vertical   *)
(* ones are scaled down.                                                   *)
(***************************************************************************)
EXTENDS Integers

CONSTANTS
    Sources,                        \* [line, start, end, lines, sync]: clocks of a line, first and
                                    \* last clock of HSYNC, lines between VSYNCs, lines of VSYNC
    MinVhold, MinVsync, MaxVsync,   \* 250, 295 and 351 in the code
    Phases,                         \* clocks of its line a new source may be met at
    Settle, Tolerance,              \* lines after which the picture stands, and how still, in pixels
    Watch, MaxDisturb               \* bounds: lines it is then watched for, changes of the source

BeamAssumption == MaxVsync \in Nat \ {0} /\ {Settle, Watch} \cup Phases \subseteq Nat

VARIABLES
    mon,    \* the monitor
    s,      \* the source: which, the clock of the line, the line of the picture
    h       \* history: changes; lines and pictures since the last; where on the
            \* screen the line before began and this one did; the line that began
            \* the last picture

vars == <<mon, s, h>>

Unit == 256
Duration == 2560
BaseHsync == 16384 - Duration
MinHsync == BaseHsync - 257
MaxHsync == BaseHsync + 257
SyncMax == 80

cpc_monitor_reset ==
    [hpos |-> 1280, hsync |-> BaseHsync, free |-> BaseHsync, start |-> 0, end |-> 0, peak |-> 0,
     startToPeak |-> 0, endToPeak |-> 0, hadPeak |-> FALSE, inHsync |-> FALSE, vline |-> 0, y |-> 0,
     completed |-> FALSE]

cpc_monitor_start_hsync(x) == IF x.inHsync THEN x ELSE [x EXCEPT !.inHsync = TRUE, !.start = 0]

LesserOf(a, b) == IF a < b THEN a ELSE b
(* a correction is an eighth of the error, at least one step and at most SyncMax *)
Step(error, start) ==
    LET e == LesserOf(error, start) \div 8
    IN  LesserOf(IF e = 0 THEN 1 ELSE e, SyncMax)
Clamp(v) == IF v < MinHsync THEN MinHsync ELSE IF v > MaxHsync THEN MaxHsync ELSE v

(* a mutant: the free width does not follow *)
FreedFaulty(x) == x.free
(* the width the beam runs at when it is free goes a step towards the one seen; *)
(* the width of the next line is that, corrected                                *)
Freed(x) ==
    LET seen == x.end - Duration
    IN  CASE x.peak < x.start -> x.free
          [] x.peak >= x.start /\ seen < x.free -> IF x.free = MinHsync THEN x.free ELSE x.free - 1
          [] x.peak >= x.start /\ seen > x.free -> IF x.free = MaxHsync THEN x.free ELSE x.free + 1
          [] OTHER -> x.free
Width(x, free) ==
    LET after == x.peak >= x.start
        error == IF after THEN x.peak - x.endToPeak ELSE x.startToPeak - x.peak
    IN  CASE error < 0 -> free + Step(-error, x.start)
          [] error = 0 /\ ~after -> free
          [] OTHER -> free - Step(error, x.start)
cpc_monitor_end_hsync(x) ==
    LET free == Freed(x)
    IN  IF ~x.inHsync THEN x
        ELSE IF ~x.hadPeak THEN [x EXCEPT !.inHsync = FALSE, !.end = 0]
        ELSE [x EXCEPT !.inHsync = FALSE, !.end = 0, !.hadPeak = FALSE,
                       !.free = free, !.hsync = Clamp(Width(x, free))]

cpc_monitor_advance(x) ==
    LET y == [x EXCEPT !.start = @ + Unit, !.end = @ + Unit, !.peak = @ + Unit, !.hpos = @ + Unit]
        peak == y.hpos - y.hsync
    IN  IF y.hpos < y.hsync THEN y
        ELSE [y EXCEPT !.hadPeak = TRUE, !.peak = peak, !.startToPeak = y.start - peak,
                       !.endToPeak = y.end - peak, !.hpos = peak - Duration,
                       !.y = @ + 1, !.vline = @ + 1]

(* y is the line of the screen the picture begins on; the line of bias that a  *)
(* frame collapsed to its first rows gets is left out                          *)
cpc_monitor_finish_frame(x, vsync) ==
    IF (~vsync \/ x.vline <= MinVsync) /\ x.vline < MaxVsync THEN [x EXCEPT !.completed = FALSE]
    ELSE [x EXCEPT !.y = -((x.vline - MinVhold + 1) \div 2), !.vline = 0, !.completed = TRUE]

(* the pixel the beam is at *)
cpc_monitor_px(x) == x.hpos \div 16

-----------------------------------------------------------------------------
Init ==
    \E source \in Sources :
        /\ mon = cpc_monitor_reset
        /\ s = [of |-> source, clock |-> 0, line |-> 0]
        /\ h = [changes |-> 0, lines |-> 0, pictures |-> 0, before |-> 0, began |-> 0, first |-> 0]

(* one character clock: the beam, the vertical hold at a new line, the edges *)
Tick ==
    LET newLine == s.clock + 1 = s.of.line
        line == IF newLine THEN (s.line + 1) % s.of.lines ELSE s.line
        clock == IF newLine THEN 0 ELSE s.clock + 1
        a == cpc_monitor_advance(mon)
        b == IF newLine THEN cpc_monitor_finish_frame(a, line < s.of.sync) ELSE [a EXCEPT !.completed = FALSE]
        d == IF clock = s.of.start THEN cpc_monitor_start_hsync(b) ELSE b
    IN  /\ h.lines < Settle + Watch
        /\ mon' = IF clock = s.of.end THEN cpc_monitor_end_hsync(d) ELSE d
        /\ s' = [s EXCEPT !.clock = clock, !.line = line]
        /\ h' = IF ~newLine THEN h
                ELSE [h EXCEPT !.lines = @ + 1,
                               !.pictures = IF b.completed /\ @ < 3 THEN @ + 1 ELSE @,
                               !.before = h.began, !.began = cpc_monitor_px(b),
                               !.first = IF b.completed THEN line ELSE @]
Disturb(source, clock) ==
    /\ h.changes < MaxDisturb
    /\ h.lines = Settle + Watch
    /\ s' = [of |-> source, clock |-> clock, line |-> 0]
    /\ h' = [h EXCEPT !.changes = @ + 1, !.lines = 0, !.pictures = 0]
    /\ UNCHANGED mon

Next == Tick \/ \E source \in Sources, clock \in Phases : Disturb(source, clock)
Spec == Init /\ [][Next]_vars

-----------------------------------------------------------------------------
Abs(n) == IF n < 0 THEN -n ELSE n

(* The width of a line stays where the monitor can follow, and the beam inside *)
(* a line.                                                                     *)
InRange == /\ mon.hsync \in MinHsync .. MaxHsync /\ mon.free \in MinHsync .. MaxHsync
           /\ mon.hpos \in -Duration .. MaxHsync + Unit

(* Whatever it showed before, the picture stands still some lines after the    *)
(* source is steady: every line begins where the one before it did.            *)
Stands == h.lines >= Settle /\ s.clock = 0 => Abs(h.began - h.before) <= Tolerance

(* No picture is longer than the hold allows.                                  *)
HoldEnds == s.clock = 0 => mon.vline < MaxVsync

(* From the second picture of a steady source on each ends as VSYNC begins.    *)
PictureEnds == h.pictures = 3 /\ s.of.lines \in MinVsync + 2 .. MaxVsync - 1 => h.first = 0

BeamSound == InRange /\ HoldEnds /\ Stands /\ PictureEnds
=============================================================================
