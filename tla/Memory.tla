------------------------------- MODULE Memory -------------------------------
(***************************************************************************)
(* The memory map and the buses: mem.c, cartridge.c, io_decode.h, the      *)
(* memory side of the Gate Array and of bus_io_read / bus_io_write in      *)
(* cpc.c.                                                                  *)
(*                                                                         *)
(* Abstracted: an address is the quarter (16 KB) it is in, RAM is counted  *)
(* in pages of 16 KB and what it holds is left out: what matters is which  *)
(* memory a read or a write reaches.  The ASIC unlock sequence is          *)
(* CpcIrq's: here it just ends, locked or not.                             *)
(***************************************************************************)
EXTENDS Integers, Sequences, FiniteSets

CONSTANTS
    Models,         \* models the machine is rebuilt as
    RamPages,       \* amounts of RAM, in pages
    Selects,        \* values the guest writes to the upper ROM latch
    GaBytes,        \* bytes that reach the Gate Array
    Groups, Highs,  \* expansion blocks a RAM configuration may name
    Cartridges,     \* cartridge files: [riff, chunks, bytes]
    PageSize,       \* bytes of a cartridge page
    Ports,          \* <<high byte, low byte>> of ports
    Cards,          \* sets of cards that may be fitted
    Slots,          \* sets of upper ROM slots that are filled at a cold boot
    MaxEvents       \* bound on the steps

Byte == 0 .. 255
MemoryAssumption ==
    /\ RamPages \subseteq {n \in Nat : n >= 4 /\ n % 4 = 0}
    /\ Selects \cup GaBytes \subseteq Byte /\ Groups \cup Highs \subseteq Nat
    /\ Ports \subseteq Byte \X Byte /\ UNION Slots \subseteq Byte /\ PageSize \in Nat
    /\ Cartridges \subseteq [riff : Nat, bytes : Nat,
                            chunks : Seq([page : Nat \cup {-1}, size : Nat])]

VARIABLES
    m,      \* Mem
    ga,     \* the Gate Array's copy of the ROM bits; whether the ASIC is locked
    h       \* the model, the cards fitted; history: steps, whether a ROM failed
            \* to load, whether a program chose a bank that is not fitted, whether
            \* nothing ran since the reset

vars == <<m, ga, h>>

M4Slot == 6
Quarters == 0 .. 3
IsPlus(model) == model = "6128plus"
Rom(kind, n) == [kind |-> kind, page |-> n]

-----------------------------------------------------------------------------
(* RAM banking *)

(* the page behind a quarter for a configuration byte, as the code computes it *)
mem_ram_offset_for_config(bank, q) ==
    LET extra == (bank.high * 8 + bank.group + 1) * 4
    IN  CASE q = 0 -> IF bank.mode = 2 THEN extra ELSE 0
          [] q = 1 -> IF bank.mode = 2 THEN extra + 1
                      ELSE IF bank.mode = 3 THEN 3
                      ELSE IF bank.mode \in 4 .. 7 THEN extra + (bank.mode - 4) ELSE 1
          [] q = 2 -> IF bank.mode = 2 THEN extra + 2 ELSE 2
          [] q = 3 -> IF bank.mode \in 1 .. 3 THEN extra + 3 ELSE 3
Bank0 == [high |-> 0, group |-> 0, mode |-> 0]
Page(q) == mem_ram_offset_for_config(m.bank, q)

(* the same, as the table of the hardware has it: rows are modes, columns the  *)
(* quarters, 4 to 7 the pages of the extra block                               *)
Layout == << <<0,1,2,3>>, <<0,1,2,7>>, <<4,5,6,7>>, <<0,3,2,7>>,
             <<0,4,2,3>>, <<0,5,2,3>>, <<0,6,2,3>>, <<0,7,2,3>> >>
TablePage(bank, q) ==
    LET rb == Layout[bank.mode + 1][q + 1]
    IN  IF rb < 4 THEN rb ELSE (bank.high * 8 + bank.group + 1) * 4 + rb - 4

-----------------------------------------------------------------------------
(* What a read finds: mem_read, and the two functions that tell the monitor  *)
(* and the breakpoints what is visible, each decoding the state on its own   *)

cartridge_page(p) == IF p \in DOMAIN m.cart THEN Rom("cart", p) ELSE Rom("open", 0)
UpperRom ==
    LET s == m.select
    IN  CASE s \in m.snapshotUpper -> Rom("snapshot", s)
          [] s \notin m.snapshotUpper /\ m.plus ->
                 IF s \in DOMAIN m.cart THEN Rom("cart", s) ELSE cartridge_page(1)
          [] s \notin m.snapshotUpper /\ ~m.plus /\ s \in m.ext -> Rom("ext", s)
          [] s \notin m.snapshotUpper /\ ~m.plus /\ s \notin m.ext /\ s = 7 /\ m.amsdos -> Rom("amsdos", 7)
          [] OTHER -> Rom("basic", 0)
LowerRom == IF m.override THEN Rom("stub", 0)
            ELSE IF m.snapshotLower THEN Rom("snapshot", 256) ELSE Rom("os", m.os)
mem_read(q) ==
    CASE m.plus /\ m.registerPage /\ q = 1 -> Rom("registers", 0)
      [] m.plus /\ ~(m.registerPage /\ q = 1) /\ m.lower /\ q = m.lowerBank -> cartridge_page(m.lowerPage)
      [] ~m.plus /\ q = 0 /\ m.lower -> LowerRom
      [] q = 3 /\ m.upper /\ ~(m.plus /\ m.lower /\ m.lowerBank = 3) -> UpperRom
      [] OTHER -> IF Page(q) < m.ramPages THEN Rom("ram", Page(q)) ELSE Rom("open", 0)

mem_visible_rom_bank(q) ==
    IF m.plus /\ m.lower /\ q = m.lowerBank THEN m.lowerPage
    ELSE IF ~m.plus /\ q = 0 /\ m.lower THEN 256
    ELSE IF q = 3 /\ m.upper THEN m.select ELSE -1
mem_visible_ram_bank(q) ==
    IF (m.plus /\ m.registerPage /\ q = 1) \/ mem_visible_rom_bank(q) >= 0 \/ Page(q) >= m.ramPages
    THEN -1 ELSE Page(q)

(* a write never reaches a ROM: RAM, the ASIC's registers, or nothing *)
mem_write(q) ==
    IF m.plus /\ m.registerPage /\ q = 1 THEN Rom("registers", 0)
    ELSE IF Page(q) < m.ramPages THEN Rom("ram", Page(q)) ELSE Rom("open", 0)

(* the M4 shows its buffers over its ROM, to a read that is not a stack pop *)
bus_mem_read(q, pop) ==
    IF "m4" \in h.cards /\ m.upper /\ m.select = M4Slot /\ q = 3 /\ ~pop THEN Rom("m4", 0) ELSE mem_read(q)

-----------------------------------------------------------------------------
(* Loading *)

(* a cartridge is a list of chunks [page, size], page -1 for one of another     *)
(* kind; riff is the size its header claims, bytes what the file really holds   *)
Padded(c) == c.size + (c.size % 2)
Min2(a, b) == IF a < b THEN a ELSE b
cartridge_start(file) ==
    [ok |-> file.riff >= 4 /\ file.bytes >= 12, remaining |-> file.riff - 4,
     read |-> 12, pages |-> [p \in {} |-> 0]]
cartridge_chunk(file, c, s) ==
    LET fits == s.remaining >= 8 /\ Padded(c) <= s.remaining - 8
        there == s.read + 8 + Padded(c) <= file.bytes
    IN  IF ~s.ok \/ s.remaining = 0 THEN s
        ELSE IF ~fits \/ ~there THEN [s EXCEPT !.ok = FALSE]
        ELSE [ok |-> TRUE, remaining |-> s.remaining - 8 - Padded(c),
              read |-> s.read + 8 + Padded(c),
              pages |-> IF c.page = -1 THEN s.pages
                        ELSE [p \in DOMAIN s.pages \cup {c.page} |->
                                  IF p = c.page THEN Min2(c.size, PageSize) ELSE s.pages[p]]]
(* the chunks in the order of the file *)
cartridge_chunks(file) ==
    LET run[i \in 0 .. Len(file.chunks)] ==
            IF i = 0 THEN cartridge_start(file) ELSE cartridge_chunk(file, file.chunks[i], run[i - 1])
    IN  run
cartridge_load_file(file) ==
    LET last == cartridge_chunks(file)[Len(file.chunks)]
    IN  [ok |-> last.ok /\ last.remaining = 0 /\ DOMAIN last.pages # {}, pages |-> last.pages]

mem_plus_reset_mapping(x) ==
    [x EXCEPT !.lowerBank = 0, !.lowerPage = 0, !.registerPage = FALSE, !.select = IF x.plus THEN 1 ELSE 0]
cpc_reset(x) == mem_plus_reset_mapping([x EXCEPT !.lower = TRUE, !.upper = TRUE, !.bank = Bank0])

(* a file that cannot be read leaves what was there, the OS ROM excepted       *)
mem_load_rom(x, model, files) ==
    IF files = {} THEN x
    ELSE IF files = {"os"} THEN [x EXCEPT !.os = model]
    ELSE mem_plus_reset_mapping([x EXCEPT !.os = model, !.plus = FALSE])
mem_load_cartridge(x, file) ==
    LET c == cartridge_load_file(file)
    IN  IF ~c.ok \/ 0 \notin DOMAIN c.pages THEN x
        ELSE mem_plus_reset_mapping([x EXCEPT !.cart = c.pages, !.plus = TRUE, !.os = "cart",
                                              !.amsdos = 3 \in DOMAIN c.pages])
(* the RAM, then the ROMs of the model, then the slots, the M4's ROM over any  *)
LoadSlots(model, loaded, slots, amsdos) ==
    [loaded EXCEPT !.amsdos = IF IsPlus(model) THEN FALSE ELSE amsdos,
                   !.ext = IF "m4" \in h.cards THEN slots \cup {M4Slot} ELSE slots]

-----------------------------------------------------------------------------
(* Writes to the Gate Array, from an OUT or from an IN that puts a byte on the *)
(* bus                                                                         *)

Bit(v, weight) == (v \div weight) % 2 = 1
mem_plus_set_rmr2(x, v) ==
    LET bank == (v \div 8) % 4
    IN  IF ~x.plus THEN x
        ELSE [x EXCEPT !.registerPage = bank = 3, !.lowerBank = IF bank = 3 THEN 0 ELSE bank,
                       !.lowerPage = v % 8]
mem_plus_select_upper_rom(x, v) ==
    [x EXCEPT !.select = IF ~x.plus THEN v ELSE IF v = 7 THEN 3 ELSE IF v >= 128 THEN v % 32 ELSE 1]

BankAsked(hi, v) == [high |-> IF hi \in 124 .. 127 THEN 127 - hi ELSE 0,
                     group |-> (v \div 8) % 8, mode |-> v % 8]
Fitted(bank, pages) == (bank.high * 8 + bank.group + 2) * 4 <= pages
(* a mutant: the block is not compared with the RAM that is fitted *)
gate_array_bankFaulty(x, hi, v) == IF x.ramPages <= 4 THEN x.bank ELSE BankAsked(hi, v)
gate_array_bank(x, hi, v) ==
    LET b == BankAsked(hi, v)
    IN  IF x.ramPages <= 4 THEN x.bank
        ELSE IF Fitted(b, x.ramPages) THEN b ELSE [Bank0 EXCEPT !.mode = b.mode]

ga_write(g, v) == IF v \div 64 # 2 THEN g ELSE [g EXCEPT !.lower = ~Bit(v, 4), !.upper = ~Bit(v, 8)]
Rmr2(v) == IsPlus(h.model) /\ ~ga.locked /\ v \div 32 = 5
gate_array_bus_write(x, hi, v) ==
    IF Rmr2(v) THEN mem_plus_set_rmr2(x, v)
    ELSE LET g == ga_write(ga, v)
         IN  [x EXCEPT !.lower = g.lower, !.upper = g.upper,
                       !.bank = IF v \div 64 = 3 THEN gate_array_bank(x, hi, v) ELSE @]

-----------------------------------------------------------------------------
(* Port decoding.  The devices on the board decode one or two address lines   *)
(* each and may answer together; of the expansions one at most is reached     *)

cpc_io_decode(hi) ==
    {d \in {"crtc", "ppi", "ga", "rom", "printer"} :
        CASE d = "crtc" -> ~Bit(hi, 64) [] d = "ppi" -> ~Bit(hi, 8) [] d = "ga" -> ~Bit(hi, 128) /\ Bit(hi, 64)
          [] d = "rom" -> ~Bit(hi, 32) [] d = "printer" -> ~Bit(hi, 16)}

Boards(port) == cpc_io_decode(port[1])

On(c) == {"mx4", c} \subseteq h.cards
Albireo(hi, lo) == IF hi # 254 \/ ~On("albireo") THEN "none"
                   ELSE IF lo \div 2 = 64 THEN "albireo"
                   ELSE IF lo \div 2 = 32 /\ On("albireo_mouse") THEN "albireo_b" ELSE "none"
Usifac(hi, lo) == On("usifac") /\ hi = 251 /\ lo \div 16 = 13
V9990(hi, lo) == On("v9990") /\ hi = 255 /\ lo \in 96 .. 111
IdePort(lo) == On("ide") /\ lo \in {6} \cup 8 .. 15
NetPort(lo) == On("net4cpc") /\ lo \in 32 .. 35
SymbnetPort(lo) == On("symbnet") /\ lo \in 48 .. 49

(* bus_io_read *)
ReadDevice(hi, lo) ==
    CASE Usifac(hi, lo) -> "usifac"
      [] ~Usifac(hi, lo) /\ hi = 251 -> IF lo < 128 THEN "fdc" ELSE "none"
      [] hi = 250 -> "none"
      [] Albireo(hi, lo) # "none" -> Albireo(hi, lo)
      [] V9990(hi, lo) -> "v9990"
      [] Albireo(hi, lo) = "none" /\ ~V9990(hi, lo) /\ hi >= 254 -> IF On("m4") THEN "m4" ELSE "none"
      [] hi = 253 -> CASE On("symbiface_mouse") /\ lo = 16 -> "mouse" [] IdePort(lo) -> "ide"
                       [] On("rtc") /\ lo = 20 -> "rtc" [] NetPort(lo) -> "net4cpc"
                       [] SymbnetPort(lo) -> "symbnet" [] OTHER -> "none"
      [] OTHER -> "none"
(* bus_io_write: the M4 has a second port, and a third that only its ROM uses *)
WriteDevice(hi, lo) ==
    CASE Albireo(hi, lo) # "none" -> Albireo(hi, lo)
      [] V9990(hi, lo) -> "v9990"
      [] Albireo(hi, lo) = "none" /\ ~V9990(hi, lo) /\ hi >= 252 /\ hi # 253 -> IF On("m4") THEN "m4" ELSE "none"
      [] hi = 250 -> "motor"
      [] hi = 251 -> IF Usifac(hi, lo) THEN "usifac" ELSE IF lo < 128 THEN "fdc" ELSE "none"
      [] hi = 253 -> CASE IdePort(lo) -> "ide" [] On("rtc") /\ lo \in 20 .. 21 -> "rtc"
                       [] NetPort(lo) -> "net4cpc" [] SymbnetPort(lo) -> "symbnet"
                       [] On("m4") /\ lo \in 62 .. 63 -> "helper" [] OTHER -> "none"
      [] OTHER -> "none"

-----------------------------------------------------------------------------
mem_init(model, pages) ==
    cpc_reset([ramPages |-> pages, lower |-> TRUE, upper |-> TRUE, select |-> 0, bank |-> Bank0,
               plus |-> FALSE, lowerBank |-> 0, lowerPage |-> 0, registerPage |-> FALSE,
               override |-> FALSE, snapshotLower |-> FALSE, snapshotUpper |-> {}, os |-> model,
               amsdos |-> FALSE, ext |-> {}, cart |-> [p \in {} |-> 0]])
GaPower == [lower |-> TRUE, upper |-> TRUE, locked |-> TRUE]
Init ==
    \E model \in {x \in Models : ~IsPlus(x)}, pages \in RamPages, cards \in Cards :
        /\ m = mem_init(model, pages)
        /\ ga = GaPower
        /\ h = [model |-> model, cards |-> cards, steps |-> 0, failed |-> FALSE, beyond |-> FALSE, fresh |-> TRUE]

Step(x) == h' = [x EXCEPT !.steps = @ + 1]
Ran(beyond) == Step([h EXCEPT !.fresh = FALSE, !.beyond = beyond])

(* an OUT: the Gate Array, then the ROM latch *)
Out(port, v) ==
    LET on == Boards(port)
        x == IF "ga" \in on THEN gate_array_bus_write(m, port[1], v) ELSE m
    IN  /\ on \cap {"ga", "rom"} # {}
        /\ m' = IF "rom" \in on THEN mem_plus_select_upper_rom(x, v) ELSE x
        /\ ga' = IF "ga" \in on /\ ~Rmr2(v) THEN ga_write(ga, v) ELSE ga
        /\ Ran(h.beyond /\ m'.bank = m.bank)
(* an IN: the byte the PPI drives, or none, reaches the Gate Array *)
In(port, v) ==
    LET on == Boards(port)
    IN  /\ "ga" \in on
        /\ "ppi" \in on \/ v = 255
        /\ m' = gate_array_bus_write(m, port[1], v)
        /\ ga' = IF Rmr2(v) THEN ga ELSE ga_write(ga, v)
        /\ Ran(h.beyond /\ m'.bank = m.bank)
plus_asic_lock_write ==
    /\ IsPlus(h.model)
    /\ ga' = [ga EXCEPT !.locked = ~@]
    /\ Ran(h.beyond) /\ UNCHANGED m

(* the M4's copy helper: the bank it copies to and the one it leaves are the   *)
(* program's, without regard to the RAM fitted                                 *)
Helper(v) ==
    /\ WriteDevice(253, 62) = "helper"
    /\ m' = [m EXCEPT !.bank = IF v \div 64 = 3 THEN BankAsked(0, v) ELSE @]
    /\ Ran(IF v \div 64 = 3 THEN ~Fitted(m'.bank, m.ramPages) ELSE h.beyond)
    /\ UNCHANGED ga
(* the M4's C_ROMLOW: a stub in place of the lower ROM *)
RomLow(on) ==
    /\ On("m4")
    /\ m' = [m EXCEPT !.override = on]
    /\ Ran(h.beyond) /\ UNCHANGED ga

(* a snapshot: the RAM it was taken with, its ROM bits, its bank, its ROMs *)
snapshot_load(pages, lower, upper, v, roms) ==
    /\ m' = [m EXCEPT !.ramPages = pages, !.lower = lower, !.upper = upper, !.bank = BankAsked(0, v),
                      !.select = 0, !.snapshotLower = roms, !.snapshotUpper = IF roms THEN {0} ELSE {}]
    /\ ga' = [ga EXCEPT !.lower = lower, !.upper = upper]
    /\ Ran(v # 192 /\ ~Fitted(m'.bank, pages))

Reset ==
    /\ m' = cpc_reset(m) /\ ga' = GaPower
    /\ Step([h EXCEPT !.fresh = TRUE, !.beyond = FALSE])
(* a cold boot as another model; a ROM that cannot be loaded does not stop it *)
Boot(model, loaded, slots, amsdos, failed) ==
    /\ m' = cpc_reset(LoadSlots(model, loaded, slots, amsdos))
    /\ ga' = GaPower
    /\ Step([h EXCEPT !.model = model, !.fresh = TRUE, !.beyond = FALSE, !.failed = failed])
ColdBoot(model, pages, slots, files, amsdos) ==
    Boot(model, mem_load_rom([m EXCEPT !.ramPages = pages], model, files), slots, amsdos, files # {"os", "basic"})
ColdBootPlus(pages, slots, file) ==
    LET loaded == mem_load_cartridge([m EXCEPT !.ramPages = pages], file)
    IN  Boot("6128plus", loaded, slots, FALSE, ~loaded.plus \/ loaded.cart = m.cart)

Next ==
    /\ h.steps < MaxEvents
    /\ \/ \E p \in Ports, v \in GaBytes \cup Selects : Out(p, v)
       \/ \E p \in Ports, v \in GaBytes : In(p, v)
       \/ plus_asic_lock_write \/ Reset
       \/ \E v \in GaBytes : Helper(v)
       \/ \E on \in BOOLEAN : RomLow(on)
       \/ \E pages \in RamPages, l, u, r \in BOOLEAN, v \in {x \in GaBytes : x \div 64 = 3} : snapshot_load(pages, l, u, v, r)
       \/ \E model \in Models \ {"6128plus"}, pages \in RamPages, s \in Slots, a \in BOOLEAN,
             files \in {{}, {"os"}, {"os", "basic"}} : ColdBoot(model, pages, s, files, a)
       \/ \E pages \in RamPages, s \in Slots, f \in Cartridges : ColdBootPlus(pages, s, f)

Spec == Init /\ [][Next]_vars

-----------------------------------------------------------------------------
(* The computed layout is the table of the hardware, for every block.          *)
LayoutIsTable ==
    \A mode \in 0 .. 7, g \in Groups, hi \in Highs, q \in Quarters :
        LET b == [high |-> hi, group |-> g, mode |-> mode]
        IN  mem_ram_offset_for_config(b, q) = TablePage(b, q)

(* No write is lost and no read floats: every quarter of the RAM is behind a   *)
(* page that is fitted, whatever was written to the Gate Array and whichever   *)
(* amount of RAM the machine was rebuilt with; a bank set by the M4's helper   *)
(* or by a snapshot is the exception.                                          *)
Mapped ==
    ~h.beyond => \A q \in Quarters : /\ mem_write(q).kind # "open"
                                     /\ mem_read(q).kind = "ram" => mem_read(q) = mem_write(q)

(* The monitor, the symbols and the breakpoints see what the CPU sees: a RAM   *)
(* page is reported exactly when a read comes from it, a ROM when it does not. *)
VisibleAgrees ==
    \A q \in Quarters :
        LET r == mem_read(q)
        IN  /\ mem_visible_ram_bank(q) = IF r.kind = "ram" THEN r.page ELSE -1
            /\ mem_visible_rom_bank(q) >= 0 =>
                   r.kind \in {"os", "stub", "snapshot", "basic", "amsdos", "ext", "cart", "open", "registers"}

(* The memory's copy of the ROM bits is the Gate Array's.                      *)
MirrorAgrees == m.lower = ga.lower /\ m.upper = ga.upper

(* After a reset the CPU starts in the firmware of the model: no mapping, bank *)
(* or lock of the program before is left.  A ROM that failed to load and the   *)
(* ROMs of a snapshot or the M4's stub, which a reset keeps, are set apart.    *)
FirmwareAfterReset ==
    h.fresh /\ ~h.failed /\ ~m.override /\ ~m.snapshotLower /\ m.snapshotUpper = {} =>
        /\ mem_read(0) = IF IsPlus(h.model) THEN Rom("cart", 0) ELSE Rom("os", h.model)
        /\ m.plus = IsPlus(h.model) /\ ga.locked
        /\ \A q \in {1, 2} : bus_mem_read(q, FALSE) = Rom("ram", q)

(* A port that two devices answer, one to a read and one to a write, is not    *)
(* decoded, and an expansion never shares one with the board.                  *)
OneDevice ==
    \A p \in Ports :
        LET r == ReadDevice(p[1], p[2])
            w == WriteDevice(p[1], p[2])
        IN  /\ r = "none" \/ w \in {r, "none"}
            /\ {r, w} # {"none"} => cpc_io_decode(p[1]) = {}

(* An accepted cartridge is all in its file and has a page.                    *)
CartridgeWhole ==
    \A f \in Cartridges :
        cartridge_load_file(f).ok => /\ f.bytes >= f.riff + 8
                                     /\ \E i \in DOMAIN f.chunks : f.chunks[i].page \in DOMAIN cartridge_load_file(f).pages

MemorySound ==
    /\ Mapped /\ VisibleAgrees /\ MirrorAgrees /\ FirmwareAfterReset
    /\ h.steps = 0 => LayoutIsTable /\ OneDevice /\ CartridgeWhole     \* these read no state
=============================================================================
