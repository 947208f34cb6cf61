-------------------------------- MODULE Crtc --------------------------------
(***************************************************************************)
(* The 6845 video controller: crtc.c, and what a snapshot keeps of it      *)
(* (snapshot.c).  One step of Tick is one character clock.                 *)
(*                                                                         *)
(* Abstracted: the counters keep their wrap-around but not their size (the *)
(* widths are constants); R12 and R13 are one start address; R8, the       *)
(* cursor and the light pen, which only read back, are left out.           *)
(***************************************************************************)
EXTENDS Integers, FiniteSets

CONSTANTS
    HMod, VMod, RMod,   \* the horizontal, row and raster counters wrap at these (256, 128, 32)
    MaMod,              \* addresses (16384)
    HswMod, VswMod,     \* sync widths of zero stand for these (16, 16)
    Cutoff,             \* clock of an HSYNC at which the Gate Array takes the mode (7)
    MinVsyncHend,       \* shortest line that may start VSYNC (2)
    Types,              \* controller types, of 0 .. 3
    PowerOn,            \* values of the registers at reset
    Writes,             \* <<register, value>> the guest writes
    MaxWrites, MaxLoads \* bounds on writes and on snapshots loaded

Regs == {0, 1, 2, 3, 4, 5, 6, 7, 9, 12}
(* crtc_masked_reg_value: what a register of so many bits holds *)
Masked(reg, v) == /\ v \in Nat
                  /\ reg \in {0, 1, 2} => v < HMod
                  /\ reg \in {4, 6, 7} => v < VMod
                  /\ reg \in {5, 9} => v < RMod
CrtcAssumption ==
    /\ {HMod, VMod, RMod, MaMod, HswMod, VswMod} \subseteq Nat \ {0}
    /\ DOMAIN PowerOn = Regs /\ \A r \in Regs : Masked(r, PowerOn[r])
    /\ PowerOn[1] # 0 /\ PowerOn[6] # 0
    /\ \A w \in Writes : w[1] \in Regs /\ Masked(w[1], w[2])
    /\ {MinVsyncHend, MaxWrites, MaxLoads} \subseteq Nat

VARIABLES
    c,      \* CRTC
    h       \* history: writes, loads; pos, clocks since the frame began; clean, no
            \* write since then; frames that were clean before it, up to 2; whether
            \* the display comparators were restored; whether the HSYNC in progress
            \* was restored, and the modes it has latched

vars == <<c, h>>

-----------------------------------------------------------------------------
Hsw(x) == LET w == x.reg[3] % HswMod IN IF w = 0 /\ x.type \in {2, 3} THEN HswMod ELSE w
Vsw(x) == LET w == x.reg[3] \div HswMod IN IF w = 0 THEN VswMod ELSE w
crtc_start_addr(x) == x.reg[12] % MaMod

crtc_latch_line_state(x) ==
    LET last == x.vlc = x.reg[9]
    IN  [x EXCEPT !.lastRaster = last, !.lastFrame = last /\ x.vcc = x.reg[4]]

(* VSYNC starts when the row counter comes to R7, once for the row *)
crtc_update_r7_match(x, allowed) ==
    LET starts == x.vcc = x.reg[7] /\ ~x.r7 /\ allowed /\ ~x.vsync
    IN  [x EXCEPT !.r7 = x.vcc = x.reg[7], !.vsync = @ \/ starts, !.vsc = IF starts THEN 0 ELSE @]

crtc_init(type) ==
    crtc_latch_line_state(
      [reg |-> PowerOn, type |-> type, hcc |-> 0, vcc |-> 0, vlc |-> 0, vsc |-> 0, hsc |-> 0, vac |-> 0,
       vadjust |-> FALSE, ma |-> PowerOn[12] % MaMod, row |-> PowerOn[12] % MaMod,
       nextRow |-> PowerOn[12] % MaMod, hsync |-> FALSE, vsync |-> FALSE, hDisplay |-> TRUE,
       vDisplay |-> TRUE, lastRaster |-> FALSE, lastFrame |-> FALSE, r7 |-> FALSE, latched |-> FALSE,
       newLine |-> FALSE, newFrame |-> FALSE, latch |-> FALSE])

(* a write takes effect on the comparators it feeds, at once or from the next  *)
(* line on                                                                     *)
crtc_write(x, reg, v) ==
    LET y == [x EXCEPT !.reg[reg] = v]
    IN  CASE reg = 6 -> [y EXCEPT !.vDisplay = @ /\ y.vcc # v]
          [] reg = 9 -> crtc_latch_line_state(y)
          [] reg = 4 -> IF v = 0 /\ y.vcc = 0 /\ y.vlc = y.reg[9]
                        THEN [y EXCEPT !.lastRaster = TRUE, !.lastFrame = TRUE] ELSE y
          [] reg = 7 -> crtc_update_r7_match(y, y.hcc >= 2)
          [] OTHER -> y

(* type 1 tells vertical blanking *)
crtc_read_status(x) == x.type = 1 /\ x.vcc >= x.reg[6]
crtc_de(x) == x.hDisplay /\ x.vDisplay

-----------------------------------------------------------------------------
(* One character clock *)

Counted(x) == [x EXCEPT !.hcc = (@ + 1) % HMod, !.ma = (@ + 1) % MaMod,
                        !.newLine = FALSE, !.newFrame = FALSE, !.latch = FALSE]

(* the Gate Array takes the mode at the cut-off, or at the end of a shorter    *)
(* pulse                                                                       *)
HsyncStep(x) ==
    LET w == Hsw(x)
        starts == w # 0 /\ ~x.hsync /\ x.hcc = x.reg[2]
        y == IF starts THEN [x EXCEPT !.hsync = TRUE, !.hsc = 0, !.latched = FALSE] ELSE x
        clock == IF w < HswMod THEN (y.hsc + 1) % HswMod ELSE y.hsc + 1
        ends == y.hsc = w
        takes == ~y.latched /\ (ends \/ clock = Cutoff)
    IN  IF ~y.hsync THEN y
        ELSE [y EXCEPT !.hsync = ~ends, !.hsc = IF ends THEN @ ELSE clock,
                       !.latch = takes, !.latched = @ \/ takes]

(* on the last raster of a row R1 captures the address of the next *)
Captured(x, eol) ==
    IF x.lastRaster /\ (x.hcc = x.reg[1] \/ (eol /\ x.reg[1] = 0))
    THEN [x EXCEPT !.nextRow = IF eol /\ x.reg[1] = 0 THEN x.row ELSE x.ma] ELSE x

Restart(x) == [x EXCEPT !.newFrame = TRUE, !.row = crtc_start_addr(x), !.nextRow = crtc_start_addr(x),
                        !.vDisplay = x.reg[6] # 0]

(* the raster lines of R5 after the last row *)
AdjustLine(x) ==
    IF x.vac + 1 >= x.reg[5] THEN Restart([x EXCEPT !.vadjust = FALSE, !.vac = 0, !.vcc = 0, !.vlc = 0])
    ELSE [x EXCEPT !.vac = @ + 1, !.vlc = (x.vac + 1) % RMod]
(* the last raster of a row; of the last row when R4 matched as the line began *)
RowEnds(x) ==
    LET y == [x EXCEPT !.vlc = 0]
        next == (x.vcc + 1) % VMod
    IN  IF x.lastFrame
        THEN IF x.reg[5] # 0 THEN [y EXCEPT !.vadjust = TRUE, !.vac = 0] ELSE Restart([y EXCEPT !.vcc = 0])
        ELSE IF next = 0 THEN Restart([y EXCEPT !.vcc = 0])
        ELSE [y EXCEPT !.vcc = next, !.vDisplay = @ /\ next # x.reg[6]]
(* type 1 reads the start address again on every line of row zero *)
Reread(x) ==
    IF x.type = 1 /\ x.vcc = 0 /\ ~(x.reg[4] = 0 /\ x.reg[9] = 0)
    THEN [x EXCEPT !.row = crtc_start_addr(x), !.nextRow = crtc_start_addr(x)] ELSE x

(* the line ends: VSYNC counts it, the rows go on, the comparators look at it *)
LineOver(x) == [x EXCEPT !.newLine = TRUE, !.hcc = 0, !.hDisplay = x.reg[1] # 0,
                         !.vsc = IF x.vsync THEN @ + 1 ELSE @, !.vsync = @ /\ x.vsc + 1 < Vsw(x)]
RowStep(x) == IF x.vadjust THEN AdjustLine(x)
              ELSE IF x.lastRaster THEN RowEnds(x) ELSE [x EXCEPT !.vlc = (@ + 1) % RMod]
EndOfLine(x) ==
    LET z == Reread(RowStep(LineOver(x)))
    IN  crtc_update_r7_match(crtc_latch_line_state([z EXCEPT !.row = z.nextRow, !.ma = z.nextRow]),
                             x.reg[0] >= MinVsyncHend)

crtc_tick(x) ==
    LET eol == x.hcc = x.reg[0]
        y == Captured(HsyncStep(Counted(x)), eol)
    IN  IF eol THEN EndOfLine(y)
        ELSE IF y.hcc = y.reg[1] THEN [y EXCEPT !.hDisplay = FALSE] ELSE y

-----------------------------------------------------------------------------
(* Snapshots *)

crtc_recompute_state(x) ==
    [crtc_latch_line_state(x) EXCEPT !.r7 = x.vcc = x.reg[7], !.newLine = FALSE, !.newFrame = FALSE, !.latch = FALSE]
(* a mutant: an address captured in the line that was saved is forgotten *)
crtc_restore_next_rowFaulty(x) == x.row
crtc_restore_next_row(x) ==
    IF x.vlc = x.reg[9] /\ x.reg[1] # 0 /\ x.hcc >= x.reg[1] THEN (x.row + x.reg[1]) % MaMod ELSE x.row

(* version 3 keeps the counters; the display timing is on until the next       *)
(* comparator event; the flag of the mode is not kept                          *)
LoadedV3(x, latched) ==
    crtc_recompute_state(
        [x EXCEPT !.hsc = @ % HswMod, !.vsc = @ % VswMod, !.nextRow = crtc_restore_next_row(x),
                  !.ma = (x.row + x.hcc) % MaMod, !.hDisplay = x.reg[1] # 0, !.vDisplay = x.reg[6] # 0,
                  !.latched = latched])
(* versions 1 and 2 keep the registers only: the counters stay as they are *)
LoadedOld(x, reg) ==
    LET y == [x EXCEPT !.reg = reg]
    IN  crtc_recompute_state([y EXCEPT !.row = crtc_start_addr(y), !.nextRow = crtc_start_addr(y),
                                       !.ma = crtc_start_addr(y),
                                       !.hDisplay = y.hcc < reg[1], !.vDisplay = y.vcc < reg[6]])

-----------------------------------------------------------------------------
Init ==
    \E type \in Types :
        /\ c = crtc_init(type)
        /\ h = [writes |-> 0, loads |-> 0, pos |-> 0, clean |-> TRUE, frames |-> 0,
                displayed |-> TRUE, restored |-> FALSE, modes |-> 1]

Tick ==
    LET x == crtc_tick(c)
        began == x.hsync /\ ~c.hsync
        modes == (IF began THEN 0 ELSE h.modes) + (IF x.latch THEN 1 ELSE 0)
    IN  /\ c' = x
        /\ h' = [h EXCEPT !.pos = IF x.newFrame THEN 0 ELSE @ + 1,
                          !.clean = @ \/ x.newFrame,
                          !.frames = IF ~x.newFrame THEN @ ELSE IF h.clean THEN (IF @ < 2 THEN @ + 1 ELSE 2) ELSE 0,
                          !.displayed = @ \/ x.newFrame, !.modes = modes,
                          !.restored = @ /\ ~began]
Write(reg, v) ==
    /\ h.writes < MaxWrites
    /\ c.reg[reg] # v
    /\ c' = crtc_write(c, reg, v)
    /\ h' = [h EXCEPT !.writes = @ + 1, !.clean = FALSE, !.frames = 0]
LoadV3(latched) ==
    /\ h.loads < MaxLoads
    /\ c' = LoadedV3(c, latched)
    /\ h' = [h EXCEPT !.loads = @ + 1, !.displayed = FALSE, !.restored = TRUE,
                      !.clean = @ /\ h.pos # 0]
LoadOld ==
    /\ h.loads < MaxLoads
    /\ c' = LoadedOld(c, PowerOn)
    /\ h' = [h EXCEPT !.loads = @ + 1, !.displayed = FALSE, !.clean = FALSE, !.frames = 0]

Next == \/ Tick \/ LoadOld
        \/ \E w \in Writes : Write(w[1], w[2])
        \/ \E b \in BOOLEAN : LoadV3(b)
Spec == Init /\ [][Next]_vars

-----------------------------------------------------------------------------
(* The raster that the registers describe, as the manual has it *)

Line == c.reg[0] + 1
Rows == (c.reg[4] + 1) * (c.reg[9] + 1)
FrameLines == Rows + c.reg[5]
AtLine == h.pos \div Line
AtChar == h.pos % Line
Advance == IF c.reg[1] <= c.reg[0] + 1 THEN c.reg[1] ELSE 0    \* an R1 never met repeats the row

(* A frame that nothing disturbed is that raster, character for character, the *)
(* addresses and the display included, however the frame before it was left by *)
(* writes in the middle of it; a version 3 snapshot taken and loaded in it     *)
(* changes nothing but the display, until the next frame.                      *)
FrameIsReference ==
    h.clean =>
        /\ h.pos < FrameLines * Line
        /\ c.hcc = AtChar
        /\ AtLine < Rows =>
              /\ c.vcc = AtLine \div (c.reg[9] + 1) /\ c.vlc = AtLine % (c.reg[9] + 1) /\ ~c.vadjust
              /\ c.ma = (c.reg[12] + (AtLine \div (c.reg[9] + 1)) * Advance + AtChar) % MaMod
        /\ AtLine >= Rows => c.vadjust /\ c.vcc = c.reg[4] /\ c.vlc = (AtLine - Rows) % RMod
        /\ h.displayed => crtc_de(c) = (c.hcc < c.reg[1] /\ c.vcc < c.reg[6])
        /\ h.displayed /\ c.type = 1 => crtc_read_status(c) # c.vDisplay

(* From the second undisturbed frame on the pulses are in their places: VSYNC  *)
(* starts with row R7 and lasts its lines, HSYNC with character R2.  R2 = 0 is *)
(* compared before the counter returns to 0, and gives none.  A pulse whose    *)
(* width was rewritten may last HswMod clocks: no frame that short is judged.  *)
SyncIsReference ==
    h.frames = 2 /\ h.clean /\ h.loads = 0 =>
        /\ (0 < c.reg[4] /\ c.reg[7] <= c.reg[4] /\ c.reg[0] >= MinVsyncHend /\ Vsw(c) < FrameLines) =>
              c.vsync = ((AtLine - c.reg[7] * (c.reg[9] + 1)) % FrameLines < Vsw(c))
        /\ (c.reg[2] \in 1 .. c.reg[0] /\ Hsw(c) <= c.reg[0] /\ HswMod <= FrameLines * Line) =>
              c.hsync = ((AtChar - c.reg[2]) % Line < Hsw(c))

(* The controller never stops making frames: with the comparators missed, the  *)
(* counters come round.                                                        *)
FramesGoOn == h.pos < (h.writes + h.loads + 1) * HMod * RMod * (VMod + 1)

(* Every HSYNC latches the mode exactly once, however its width is rewritten   *)
(* while it lasts; one restored from a snapshot is the exception.              *)
ModeOnce == ~h.restored => h.modes <= 1 /\ (~c.hsync => h.modes = 1)

CrtcSound == FrameIsReference /\ SyncIsReference /\ FramesGoOn /\ ModeOnce
=============================================================================
