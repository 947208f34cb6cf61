------------------------------- MODULE V9990 --------------------------------
(***************************************************************************)
(* The PowerGraph V9990 as the guest's program sees it through its ports   *)
(* (v9990.c): registers, video memory and its address counters, palette,   *)
(* and the command engine with the bytes it exchanges over port 2.         *)
(*                                                                         *)
(* The memory is Size bytes instead of 512 KB, the powers of two of the    *)
(* layouts scaled with it; two registers that hold the halves of one value *)
(* are one, numbered as the first.  What is drawn from it is left out, and *)
(* the vertical interrupt is in CpcIrq.                                    *)
(***************************************************************************)
EXTENDS Integers, SequencesExt

CONSTANTS
    Size,                   \* bytes of memory: a multiple of 32, for 0x80000
    Radix,                  \* values of an address register, for 256
    PlaneX,                 \* a column with this bit is in P1's second plane, for 0x200
    FullX, FullY, Limit,    \* extent when the register is 0, and pixels of one block, for 2048, 4096, 8 * Size
    Colours,                \* bytes of the palette, for 256
    Programs,               \* what a guest may write: sequences of <<register, value>>
    Selects,                \* values of the register pointer
    MaxEvents               \* bound: accesses other than those of a command's own data

V9990Assumption == Size % 32 = 0 /\ Size <= Radix^3 /\ Radix^2 <= 128 /\ Colours % 4 = 0

VARIABLES
    v,  \* the device
    h   \* the reference: memory as the guest addresses it, the command under way,
        \* the last byte read and the one due, addresses, events

vars == <<v, h>>

Addresses == 0..(Size - 1)
VramHalf == Size \div 2
P1Mode == [kind |-> "P1", bpp |-> 2, width |-> 8]
Zero(r) == CASE r = 6 -> P1Mode
             [] r = 9 -> {}
             [] OTHER -> 0
Regs == {0, 1, 2, 3, 4, 5, 6, 9, 13, 14, 32, 34, 36, 38, 40, 42, 44, 45, 46, 48, 50, 52}
Cleared == [r \in Regs |-> Zero(r)]
(* bit 7 of the highest address register stops the counter *)
Inhibit == 128

Bit(n, b) == (n \div 2^b) % 2
(* the bits of a word that are set in both *)
And(m, n) ==
    LET below[b \in 0 .. 16] ==      \* in the lowest b bits
            IF b = 0 THEN 0 ELSE below[b - 1] + 2^(b - 1) * Bit(m, b - 1) * Bit(n, b - 1)
    IN  below[16]
Kind(x) == x.reg[6].kind
bits_per_pixel(x) == IF Kind(x) = "B" THEN x.reg[6].bpp ELSE 4
image_width(x) == x.reg[6].width
Stride(x) == (image_width(x) * bits_per_pixel(x)) \div 8

----------------------------------------------------------------------------
(* Memory layouts *)

(* a mutant: odd bytes follow the even ones at once *)
transform_bxFaulty(a) == a % Size
transform_bx(a) == VramHalf * (a % 2) + (a % Size) \div 2
transform_p2(a) ==
    LET w == a % Size
    IN  CASE w < Size - Size \div 16 -> transform_bx(w)
          [] w >= Size - Size \div 16 /\ w < Size - Size \div 32 -> w - (VramHalf - Size \div 32)
          [] OTHER -> w
map_cpu_address(x, a) ==
    CASE Kind(x) = "P1" -> a % Size
      [] Kind(x) = "P2" -> transform_p2(a)
      [] OTHER -> transform_bx(a)

pixel_address(x, px, py) ==
    LET bpp == bits_per_pixel(x)
        logical == (((px * bpp) \div 8) % Stride(x)) + py * Stride(x)
    IN  CASE bpp = 16 -> ((px % image_width(x)) + py * image_width(x)) % VramHalf
          [] bpp # 16 /\ Kind(x) = "P1" -> (logical % VramHalf) + IF And(px, PlaneX) # 0 THEN VramHalf ELSE 0
          [] bpp # 16 /\ Kind(x) # "P1" -> map_cpu_address(x, logical)

ShiftOf(bpp, px) == 8 - bpp - bpp * (px % (8 \div bpp))
point(x, px, py) ==
    LET a == pixel_address(x, px, py)
        bpp == bits_per_pixel(x)
    IN  IF bpp = 16 THEN x.vram[a] + 256 * x.vram[a + VramHalf]
        ELSE (x.vram[a] \div 2^ShiftOf(bpp, px)) % 2^bpp

logical_operation(source, destination, bits, op) ==
    IF Bit(op, 4) = 1 /\ source % 2^bits = 0 THEN destination
    ELSE FoldLeft(LAMBDA n, b : n + 2^(b - 1) * Bit(op, 2 * Bit(source, b - 1) + Bit(destination, b - 1)),
                  0, [b \in 1..bits |-> b])
Masked(old, new, mask) == (old - And(old, mask)) + And(new, mask)

pset(x, px, py, colour) ==
    LET a == pixel_address(x, px, py)
        bpp == bits_per_pixel(x)
        result == logical_operation(colour, point(x, px, py), bpp, x.reg[45])
        plane(b) == IF b >= VramHalf THEN x.reg[46] \div 256 ELSE x.reg[46] % 256
        shift == ShiftOf(bpp, px)
    IN  IF bpp = 16
        THEN [x EXCEPT !.vram[a] = Masked(@, result % 256, plane(a)),
                       !.vram[a + VramHalf] = Masked(@, result \div 256, plane(a + VramHalf))]
        ELSE [x EXCEPT !.vram[a] = Masked(@, result * 2^shift, And(plane(a), (2^bpp - 1) * 2^shift))]

----------------------------------------------------------------------------
(* Commands *)

update_irq(x) == [x EXCEPT !.irq = x.pending \cap x.reg[9] # {}]
finish_command(x) ==
    update_irq([x EXCEPT !.cpuWrite = FALSE, !.cpuRead = FALSE, !.endAfterRead = FALSE,
                         !.highByte = FALSE, !.ce = FALSE, !.tr = FALSE, !.pending = @ \cup {"command"}])

WrappedX(n) == IF n = 0 THEN FullX ELSE n
WrappedY(n) == IF n = 0 THEN FullY ELSE n
Dx(x) == IF Bit(x.reg[44], 2) = 1 THEN -1 ELSE 1
Dy(x) == IF Bit(x.reg[44], 3) = 1 THEN -1 ELSE 1
U16(n) == n % 65536

(* a mutant: the next line starts where this one ended *)
NextLineFaulty(x, p) == [x EXCEPT ![p] = [x |-> U16(@.x + Dx(x)), y |-> U16(@.y + Dy(x))]]
NextLine(x, p) == [x EXCEPT ![p] = [x |-> x.lineStart, y |-> U16(@.y + Dy(x))]]
(* the next pixel at p, "src" or "dst": lines are left is said by "left" *)
step_command_position(x, p) ==
    IF x.left.x > 1
    THEN [x EXCEPT ![p].x = U16(@ + Dx(x)), !.left.x = @ - 1]
    ELSE [NextLine(x, p) EXCEPT !.left = [x |-> WrappedX(x.n.x), y |-> @.y - 1]]
AllDone(x) == x.left.y = 0
advance_command_position(x, p) ==
    LET y == step_command_position(x, p) IN IF AllDone(y) THEN finish_command(y) ELSE y

load_command_registers(x) ==
    [x EXCEPT !.src = [x |-> x.reg[32], y |-> x.reg[34]], !.dst = [x |-> x.reg[36], y |-> x.reg[38]],
              !.n = [x |-> x.reg[40], y |-> x.reg[42]],
              !.left = [x |-> WrappedX(x.reg[40]), y |-> WrappedY(x.reg[42])]]

(* the pixels of the block, row by row; at most Limit of them *)
EachPixel(x) ==
    LET nx == WrappedX(x.n.x)
        total == nx * WrappedY(x.n.y)
        last == IF total > Limit THEN Limit ELSE total
    IN  [i \in 1..last |-> <<((i - 1) % nx) * Dx(x), ((i - 1) \div nx) * Dy(x)>>]
At(p, i, j) == [x |-> U16(p.x + i), y |-> U16(p.y + j)]

run_immediate_command(x, command) ==
    CASE command = 2 ->
           finish_command(FoldLeft(LAMBDA y, p :
               LET d == At(x.dst, p[1], p[2]) IN pset(y, d.x, d.y, x.reg[48]), x, EachPixel(x)))
      [] command = 4 ->
           finish_command(FoldLeft(LAMBDA y, p :
               LET d == At(x.dst, p[1], p[2])
                   s == At(x.src, p[1], p[2])
               IN  pset(y, d.x, d.y, point(y, s.x, s.y)), x, EachPixel(x)))
      [] command = 13 -> [x EXCEPT !.data = point(x, x.src.x, x.src.y) % 256, !.cpuRead = TRUE,
                                   !.endAfterRead = TRUE, !.tr = TRUE]
      [] command = 14 -> finish_command(pset(x, x.dst.x, x.dst.y, x.reg[48]))
      [] OTHER -> finish_command(x)

PerByte(x) == IF bits_per_pixel(x) < 8 THEN 8 \div bits_per_pixel(x) ELSE 1
prepare_lmcm_data(x) ==
    LET bpp == bits_per_pixel(x)
        colour(y) == point(y, y.src.x, y.src.y)
        take(y, i) ==
            IF y.endAfterRead THEN y
            ELSE LET z == step_command_position(
                              [y EXCEPT !.data = @ + colour(y) * 2^(IF bpp < 8 THEN 8 - bpp * i ELSE 0)], "src")
                 IN  [z EXCEPT !.endAfterRead = AllDone(z)]
    IN  IF bpp = 16
        THEN [x EXCEPT !.data = colour(x) % 256, !.partial = colour(x) \div 256,
                       !.highByte = FALSE, !.tr = TRUE]
        ELSE [FoldLeft(take, [x EXCEPT !.data = 0], [i \in 1..PerByte(x) |-> i]) EXCEPT !.tr = TRUE]

consume_lmcm_data(x) ==
    LET high == step_command_position([x EXCEPT !.tr = FALSE, !.highByte = FALSE], "src")
    IN  CASE bits_per_pixel(x) = 16 /\ ~x.highByte -> [x EXCEPT !.data = x.partial, !.highByte = TRUE]
          [] bits_per_pixel(x) = 16 /\ x.highByte ->
                 IF AllDone(high) THEN finish_command(high) ELSE prepare_lmcm_data(high)
          [] bits_per_pixel(x) # 16 ->
                 IF x.endAfterRead THEN finish_command(x) ELSE prepare_lmcm_data([x EXCEPT !.tr = FALSE])

start_command(x, command) ==
    LET y == [load_command_registers(x) EXCEPT !.ce = TRUE, !.tr = FALSE, !.cpuWrite = FALSE,
                 !.cpuRead = FALSE, !.endAfterRead = FALSE, !.highByte = FALSE]
    IN  CASE command = 0 -> finish_command(y)
          [] command \in {1, 5} -> [y EXCEPT !.cpuWrite = TRUE, !.lineStart = y.dst.x, !.tr = TRUE]
          [] command = 3 -> prepare_lmcm_data([y EXCEPT !.cpuRead = TRUE, !.lineStart = y.src.x])
          [] OTHER -> run_immediate_command(y, command)

----------------------------------------------------------------------------
(* Registers and ports *)

register_address(x, base) ==
    (x.reg[base] + Radix * x.reg[base + 1] + Radix * Radix * (x.reg[base + 2] % Inhibit)) % Size
set_register_address(x, base, a) ==
    [x EXCEPT !.reg[base] = a % Radix, !.reg[base + 1] = (a \div Radix) % Radix,
              !.reg[base + 2] = Inhibit * (@ \div Inhibit) + a \div (Radix * Radix)]
Fetched(x) == [x EXCEPT !.buffer = x.vram[map_cpu_address(x, x.read)]]

write_register(x, r, value) ==
    LET y == [x EXCEPT !.reg[r] = value]
    IN  CASE r \notin Regs -> x
          [] r = 2 -> [y EXCEPT !.write = register_address(y, 0)]
          [] r = 5 -> Fetched([y EXCEPT !.read = register_address(y, 3)])
          [] r = 9 -> update_irq(y)
          [] r = 52 -> start_command(y, value)
          [] OTHER -> y

PortVramRead(x) ==
    IF x.reset \/ x.reg[5] >= Inhibit THEN x
    ELSE LET a == (x.read + 1) % Size IN Fetched(set_register_address([x EXCEPT !.read = a], 3, a))
PortVramWrite(x, byte) ==
    LET y == [x EXCEPT !.vram[map_cpu_address(x, x.write)] = byte]
        a == (x.write + 1) % Size
    IN  CASE x.reset -> x
          [] ~x.reset /\ x.reg[2] >= Inhibit -> y
          [] OTHER -> set_register_address([y EXCEPT !.write = a], 0, a)

PortPalette(x, byte) ==
    LET p == IF x.reset THEN 0 ELSE x.reg[14]
        limit == CASE p % 4 = 0 -> 159 [] p % 4 \in {1, 2} -> 31 [] OTHER -> 0
        next == CASE p % 4 < 2 -> p + 1 [] p % 4 = 2 -> p + 2 [] OTHER -> p - 3
    IN  [x EXCEPT !.palette[p] = And(IF x.reset THEN 0 ELSE byte, limit),
                  !.reg[14] = IF Bit(x.reg[13], 4) = 1 THEN @ ELSE next % Colours]

PortCommandRead(x) ==
    CASE ~(x.cpuRead /\ x.tr) -> x
      [] x.cpuRead /\ x.tr /\ x.reg[52] = 3 -> consume_lmcm_data(x)
      [] x.cpuRead /\ x.tr /\ x.reg[52] # 3 ->
             IF x.endAfterRead THEN finish_command(x) ELSE [x EXCEPT !.tr = FALSE]

PortCommandWrite(x, byte) ==
    LET bpp == bits_per_pixel(x)
        colour(i) == CASE x.reg[52] = 5 -> IF Bit(byte, 8 - i) = 1 THEN x.reg[48] ELSE x.reg[50]
                       [] x.reg[52] # 5 /\ bpp >= 8 -> byte
                       [] OTHER -> (byte \div 2^(8 - bpp * i)) % 2^bpp
        draw(y, i) == IF ~y.cpuWrite THEN y
                      ELSE advance_command_position(pset(y, y.dst.x, y.dst.y, colour(i)), "dst")
        y == FoldLeft(draw, [x EXCEPT !.data = byte, !.tr = FALSE],
                      [i \in 1..(IF x.reg[52] = 5 THEN 8 ELSE PerByte(x)) |-> i])
    IN  IF x.cpuWrite /\ x.tr THEN [y EXCEPT !.tr = y.cpuWrite] ELSE [x EXCEPT !.data = byte]

PortSystem(x, new) ==
    [(IF new /\ ~x.reset
      THEN update_irq([x EXCEPT !.reg = Cleared, !.pending = {}, !.ce = FALSE, !.tr = FALSE])
      ELSE x) EXCEPT !.reset = new]

v9990_reset(x) ==
    [x EXCEPT !.reg = Cleared, !.palette = [i \in 0..(Colours - 1) |-> CASE i % 4 = 0 -> 159
                                                                        [] i % 4 \in {1, 2} -> 31 [] OTHER -> 0],
              !.select = [reg |-> 63, keepRead |-> TRUE, keepWrite |-> TRUE], !.pending = {}, !.ce = FALSE,
              !.tr = FALSE, !.buffer = 0, !.read = 0, !.write = 0, !.reset = FALSE, !.irq = FALSE]

NoPoint == [x |-> 0, y |-> 0]
v9990_init ==
    [on |-> FALSE, vram |-> [a \in Addresses |-> 0], reg |-> Cleared, palette |-> [i \in 0..(Colours - 1) |-> 0],
     select |-> [reg |-> 0, keepRead |-> FALSE, keepWrite |-> FALSE], pending |-> {}, irq |-> FALSE,
     ce |-> FALSE, tr |-> FALSE, data |-> 0, partial |-> 0, buffer |-> 0, read |-> 0, write |-> 0,
     src |-> NoPoint, dst |-> NoPoint, n |-> NoPoint, left |-> NoPoint, lineStart |-> 0, cpuWrite |-> FALSE,
     cpuRead |-> FALSE, endAfterRead |-> FALSE, highByte |-> FALSE, reset |-> FALSE]
(* memory comes up striped *)
v9990_set_enabled(x, on) ==
    IF ~on THEN [x EXCEPT !.on = FALSE, !.irq = FALSE]
    ELSE v9990_reset([x EXCEPT !.on = TRUE, !.vram = [a \in Addresses |-> 255 * ((a \div 4) % 2)]])

----------------------------------------------------------------------------
(* The reference.  In every layout the memory is to the guest a picture of *)
(* packed pixels, row after row, at consecutive addresses; pixel i of a    *)
(* block is in column i mod width of its row i div width.                  *)

Linear(x) == [a \in Addresses |-> x.vram[map_cpu_address(x, a)]]

(* the number of the pixel in the picture, and in P1 in its plane *)
Index(x, p) == (p.x % image_width(x)) + p.y * image_width(x)
ByteOf(x, p) ==
    LET first == (Index(x, p) * bits_per_pixel(x)) \div 8
    IN  IF Kind(x) # "P1" THEN first % Size
        ELSE (first % VramHalf) + IF (p.x \div PlaneX) % 2 = 1 THEN VramHalf ELSE 0
RefGet(mem, x, p) ==
    LET bpp == bits_per_pixel(x)
        a == ByteOf(x, p)
    IN  IF bpp = 16 THEN mem[a] + 256 * mem[a + 1]
        ELSE (mem[a] \div 2^(8 - bpp - bpp * (Index(x, p) % (8 \div bpp)))) % 2^bpp
(* the write mask of a byte is that of the half of memory it lies in *)
RefPut(mem, x, p, colour) ==
    LET bpp == bits_per_pixel(x)
        a == ByteOf(x, p)
        result == logical_operation(colour, RefGet(mem, x, p), bpp, x.reg[45])
        mask(b) == IF map_cpu_address(x, b) >= VramHalf THEN x.reg[46] \div 256 ELSE x.reg[46] % 256
        unit == 2^(8 - bpp - bpp * (Index(x, p) % (8 \div bpp)))
    IN  IF bpp = 16
        THEN [mem EXCEPT ![a] = Masked(@, result % 256, mask(a)),
                         ![a + 1] = Masked(@, result \div 256, mask(a + 1))]
        ELSE [mem EXCEPT ![a] = Masked(@, result * unit, And(mask(a), (2^bpp - 1) * unit))]

NoJob == [on |-> FALSE]
(* the block a command was started on *)
Job(x) == [on |-> TRUE, command |-> x.reg[52], src |-> [x |-> x.reg[32], y |-> x.reg[34]],
           dst |-> [x |-> x.reg[36], y |-> x.reg[38]], nx |-> WrappedX(x.reg[40]),
           total |-> WrappedX(x.reg[40]) * WrappedY(x.reg[42]), dx |-> Dx(x), dy |-> Dy(x), done |-> 0]
Pixel(t, p, i) == [x |-> U16(p.x + t.dx * (i % t.nx)), y |-> U16(p.y + t.dy * (i \div t.nx))]
(* pixels first to last - 1 of the block, drawn with the colour each is given *)
RefDraw(mem, x, t, first, last, colour(_)) ==
    FoldLeft(LAMBDA m, i : RefPut(m, x, Pixel(t, t.dst, first + i - 1), colour(first + i - 1)),
             mem, [i \in 1..(last - first) |-> i])
LesserOf(a, b) == IF a < b THEN a ELSE b

(* what a command does at once; a copy whose blocks meet is taken as it is *)
RefRun(mem, x, t, seen) ==
    LET last == LesserOf(t.total, Limit)
        cells(p) == {ByteOf(x, Pixel(t, p, i)) : i \in 0..(t.total - 1)}
    IN  CASE t.command = 2 -> RefDraw(mem, x, t, 0, last, LAMBDA i : x.reg[48])
          [] t.command = 4 /\ cells(t.src) \cap cells(t.dst) = {} ->
                 RefDraw(mem, x, t, 0, last, LAMBDA i : RefGet(mem, x, Pixel(t, t.src, i)))
          [] t.command = 4 /\ cells(t.src) \cap cells(t.dst) # {} -> seen
          [] t.command = 14 -> RefPut(mem, x, t.dst, x.reg[48])
          [] OTHER -> mem

(* the byte a read of port 2 is due, and the pixels it takes *)
RefByte(mem, x, t) ==
    LET bpp == bits_per_pixel(x)
        pixel(i) == RefGet(mem, x, Pixel(t, t.src, i))
    IN  CASE t.command = 13 -> pixel(0) % 256
          [] t.command = 3 /\ bpp = 16 -> IF x.highByte THEN pixel(t.done) \div 256 ELSE pixel(t.done) % 256
          [] t.command = 3 /\ bpp # 16 ->
                 FoldLeft(LAMBDA n, i : IF t.done + i > t.total THEN n
                                        ELSE n + pixel(t.done + i - 1) * 2^(8 - bpp * i),
                          0, [i \in 1..PerByte(x) |-> i])
          [] OTHER -> 255
TakenByRead(x, t) == CASE t.command = 13 -> t.total
                       [] bits_per_pixel(x) = 16 -> IF x.highByte THEN 1 ELSE 0
                       [] OTHER -> PerByte(x)

----------------------------------------------------------------------------
(* The guest *)

Init ==
    /\ v = v9990_init
    /\ h = [mem |-> [a \in Addresses |-> 0], job |-> NoJob, got |-> 0, due |-> 0, n |-> 0,
            wrote |-> 0, reads |-> [on |-> FALSE, a |-> 0]]

(* the byte sent next: one byte is told from another by where it comes *)
Sent == {(27 + 53 * h.n + 77 * (IF h.job.on THEN h.job.done ELSE 0)) % 256}
Counted == /\ h.n < MaxEvents
           /\ v.on

(* a driver writes registers; changing them under a command that waits for *)
(* data leaves that command without a reference                            *)
Written(writes, select) ==
    LET ws == IF v.reset THEN [i \in DOMAIN writes |-> <<writes[i][1], Zero(writes[i][1])>>] ELSE writes
        starts == ws[Len(ws)][1] = 52
        setup == [FoldLeft(LAMBDA x, w : IF w[1] \in Regs THEN [x EXCEPT !.reg[w[1]] = w[2]] ELSE x, v, ws)
                  EXCEPT !.tr = FALSE]
        touches(r) == \E i \in DOMAIN ws : ws[i][1] = r
    IN  \E x \in {FoldLeft(LAMBDA y, w : write_register(y, w[1], w[2]), v, ws)} :
          /\ v' = [x EXCEPT !.select = select]
          /\ h' = [h EXCEPT
               !.n = @ + 1,
               !.job = IF starts THEN Job(setup) ELSE NoJob,
               !.mem = IF starts THEN RefRun(Linear(setup), setup, Job(setup), Linear(x)) ELSE Linear(x),
               !.wrote = IF touches(2) THEN register_address(setup, 0) ELSE @,
               !.reads = CASE touches(5) -> [on |-> TRUE, a |-> register_address(setup, 3)]
                           [] ~touches(5) /\ (touches(6) \/ touches(52)) -> [@ EXCEPT !.on = FALSE]
                           [] OTHER -> @]

Selected(r) == [reg |-> r, keepRead |-> FALSE, keepWrite |-> FALSE]
(* each register is selected first; under a reset that always selects the first *)
Program ==
    /\ Counted
    /\ \E p \in Programs :
         IF v.reset THEN Written([i \in DOMAIN p |-> <<0, 0>>], Selected(1))
         ELSE Written(p, Selected((p[Len(p)][1] + 1) % 64))
(* one value, to the register selected *)
WriteRegister ==
    /\ Counted
    /\ LET r == v.select.reg
           values == CASE r = 9 -> {{}, {"command"}} [] r \in {2, 5} -> {0, Inhibit} [] OTHER -> {Zero(r)}
       IN  \E value \in values :
             Written(<< <<r, value>> >>, IF v.select.keepWrite THEN v.select ELSE [v.select EXCEPT !.reg = (@ + 1) % 64])

WriteVram ==
    /\ Counted
    /\ \E b \in Sent : /\ v' = PortVramWrite(v, b)
                        /\ h' = [h EXCEPT
                             !.n = @ + 1, !.mem = IF v.reset THEN @ ELSE [@ EXCEPT ![h.wrote] = b],
                             !.job = IF v.tr THEN NoJob ELSE @, !.reads.on = v.reset /\ @,
                             !.wrote = IF v.reset \/ v.reg[2] >= Inhibit THEN @ ELSE (@ + 1) % Size]

ReadVram ==
    /\ Counted
    /\ v' = PortVramRead(v)
    /\ h' = [h EXCEPT !.n = @ + 1, !.got = v.buffer, !.due = IF h.reads.on THEN h.mem[h.reads.a] ELSE v.buffer,
                      !.reads.a = IF v.reset \/ v.reg[5] >= Inhibit THEN @ ELSE (@ + 1) % Size]

WritePalette ==
    /\ Counted
    /\ \E b \in Sent : v' = PortPalette(v, b)
    /\ h' = [h EXCEPT !.n = @ + 1]

(* the command's own data *)
WriteCommand ==
    /\ v.on
    /\ (v.tr /\ v.cpuWrite) \/ h.n < MaxEvents
    /\ \E b \in Sent :
         LET t == h.job
             takes == t.on /\ v.tr /\ v.cpuWrite
             per == IF t.command = 5 THEN 8 ELSE PerByte(v)
             bpp == bits_per_pixel(v)
             colour(i) ==
                 CASE t.command = 5 -> IF Bit(b, 7 - (i - t.done)) = 1 THEN v.reg[48] ELSE v.reg[50]
                   [] t.command # 5 /\ bpp >= 8 -> b
                   [] OTHER -> (b \div 2^(8 - bpp * (i - t.done + 1))) % 2^bpp
         IN  /\ v' = PortCommandWrite(v, b)
             /\ h' = [h EXCEPT
                  !.n = IF v.tr /\ v.cpuWrite THEN @ ELSE @ + 1,
                  !.mem = IF takes THEN RefDraw(@, v, t, t.done, LesserOf(t.done + per, t.total), colour)
                          ELSE Linear(v'),
                  !.job = CASE takes -> [@ EXCEPT !.done = LesserOf(@ + per, t.total)]
                            [] ~takes /\ v.tr -> NoJob
                            [] OTHER -> @,
                  !.reads.on = ~v.tr /\ @]

ReadCommand ==
    /\ v.on
    /\ (v.tr /\ v.cpuRead) \/ h.n < MaxEvents
    /\ v' = PortCommandRead(v)
    /\ LET t == h.job
           takes == t.on /\ v.tr /\ v.cpuRead
           got == IF v.tr THEN v.data ELSE 255
       IN  h' = [h EXCEPT !.n = IF v.tr /\ v.cpuRead THEN @ ELSE @ + 1, !.got = got,
                          !.due = CASE takes -> RefByte(h.mem, v, t) [] ~takes /\ v.tr -> got [] OTHER -> 255,
                          !.job = IF takes THEN [@ EXCEPT !.done = LesserOf(@ + TakenByRead(v, t), t.total)] ELSE @]

(* the register pointer moves on by itself unless it is told not to *)
SelectRegister ==
    /\ Counted
    /\ \E s \in Selects : v' = [v EXCEPT !.select = IF v.reset THEN Selected(0) ELSE s]
    /\ h' = [h EXCEPT !.n = @ + 1]
ReadRegister ==
    /\ Counted
    /\ v' = [v EXCEPT !.select = IF @.keepRead THEN @
                                 ELSE [@ EXCEPT !.reg = (@ + 1) % 64]]
    /\ h' = [h EXCEPT !.n = @ + 1]

Acknowledge ==
    /\ Counted
    /\ v' = update_irq([v EXCEPT !.pending = {}])
    /\ h' = [h EXCEPT !.n = @ + 1]
System ==
    /\ Counted
    /\ \E new \in BOOLEAN :
         /\ v' = PortSystem(v, new)
         /\ h' = [h EXCEPT !.n = @ + 1, !.mem = Linear(v'),
                           !.job = IF new /\ ~v.reset THEN NoJob ELSE @, !.reads.on = ~new /\ @]

(* the host: the card is put in or taken out, or the machine reset *)
SetEnabled ==
    /\ h.n < MaxEvents
    /\ \E on \in BOOLEAN :
         /\ v' = v9990_set_enabled(v, on)
         /\ h' = [h EXCEPT !.n = @ + 1, !.mem = Linear(v'), !.job = NoJob, !.wrote = IF on THEN 0 ELSE @,
                           !.reads.on = FALSE]
MachineReset ==
    /\ Counted
    /\ v' = v9990_reset(v)
    /\ h' = [h EXCEPT !.n = @ + 1, !.mem = Linear(v'), !.job = NoJob, !.wrote = 0, !.reads.on = FALSE]

Next == \/ Program \/ WriteRegister \/ WriteVram \/ ReadVram \/ WritePalette \/ WriteCommand \/ ReadCommand
        \/ SelectRegister \/ ReadRegister \/ Acknowledge \/ System \/ SetEnabled \/ MachineReset

Spec == Init /\ [][Next]_vars

----------------------------------------------------------------------------
(* Memory is what the reference says after every access of the guest and   *)
(* every command, through whichever port and in whichever layout; what is  *)
(* read is what is due.                                                    *)
MemoryIsReference == /\ h.mem = Linear(v)
                     /\ h.got = h.due
(* Data is asked for exactly while a command that exchanges it has pixels  *)
(* left; no command stays busy without asking; and one that ended has      *)
(* left its interrupt to be acknowledged.                                  *)
TransfersInStep ==
    /\ v.tr <=> v.ce
    /\ v.tr => v.cpuRead # v.cpuWrite
    /\ (h.job.on /\ h.job.command \in {1, 3, 5, 13}) => (v.tr <=> h.job.done < h.job.total)
(* The request line is up exactly when an enabled flag is pending. *)
LineAgrees == v.on => (v.irq <=> v.pending \cap v.reg[9] # {})

(* The V9990 keeps the memory, the transfers and the request line of a reference  *)
(* that knows only packed pixels and closed forms (v9990.c).               *)
V9990Sound == MemoryIsReference /\ TransfersInStep /\ LineAgrees
=============================================================================
