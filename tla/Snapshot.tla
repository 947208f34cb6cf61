------------------------------ MODULE Snapshot ------------------------------
(***************************************************************************)
(* Snapshots of the running machine (snapshot.c) with the debugging data   *)
(* of their REMU chunk (remu.c): saved, saved by a host that fails half    *)
(* way, written by other programs, and loaded over whatever was running.   *)
(*                                                                         *)
(* Abstracted: the registers that are written and read back in full (CPU,  *)
(* Gate Array, CRTC, PPI, PSG) are one value; the memory is a value for    *)
(* each block of 64K; labels, aliases and comments are labels; a ROM is a  *)
(* few bytes, in the run-length code of the file.                          *)
(***************************************************************************)
EXTENDS Integers, Sequences, SequencesExt

CONSTANTS
    MaxBlocks,      \* RAM_SIZE in blocks
    RomSize, MaxRun,    \* bytes of a ROM, of a run (255)
    Bytes, E5,      \* values of a byte, and the one that escapes
    Foreign,        \* files of other programs
    Slots,          \* names of files
    Symbols,        \* host symbol tables
    Addrs,          \* addresses for breakpoints
    MaxEvents       \* bound: actions

SnapshotAssumption ==
    /\ {MaxBlocks, RomSize, MaxRun} \subseteq Nat \ {0} /\ MaxRun >= 3 /\ E5 \in Bytes

VARIABLES
    m,      \* the machine: regs, high (ram_bank's bits 7:6), type (of CRTC), pending,
            \* asserted (the Gate Array's line), size and ram, rom (or <<>>)
    d,      \* RemuDebug (labels, rest, opaque), breakpoints (user, snap), host symbols
    files,  \* the file of each slot: version, regs, type, pending, size (-1 if there
            \* are MEM chunks), ram and chunks there are, whether what follows is cut
    h       \* history: what was running when each slot was saved, the slot just
            \* loaded without an error or with one, what ran before, events

vars == <<m, d, files, h>>

NoFile == [version |-> 0]
Event(next) == h.n < MaxEvents /\ h' = [next EXCEPT !.n = @ + 1]
Elsewhere == [h EXCEPT !.loaded = "none", !.failed = "none"]

Init ==
    /\ m = [regs |-> 0, high |-> FALSE, type |-> 0, pending |-> FALSE, asserted |-> FALSE,
            size |-> 1, ram |-> [b \in 1 .. MaxBlocks |-> 0], rom |-> <<>>]
    /\ d = [labels |-> <<>>, rest |-> <<>>, opaque |-> <<>>, user |-> {}, snap |-> {}, host |-> {}]
    /\ \E s \in Slots, f \in Foreign : files = [x \in Slots |-> IF x = s THEN f ELSE NoFile]
    /\ h = [saved |-> [s \in Slots |-> <<>>], loaded |-> "none", failed |-> "none",
            before |-> <<>>, n |-> 0]

-----------------------------------------------------------------------------
(* The run-length code *)

RunAt(data, i) ==
    CHOOSE r \in 1 .. MaxRun :
        /\ i + r - 1 <= Len(data) /\ \A k \in i .. i + r - 1 : data[k] = data[i]
        /\ r = MaxRun \/ i + r > Len(data) \/ data[i + r] # data[i]

Encoded(data) ==
    LET code[i \in 1 .. Len(data) + 1] ==
            LET r == RunAt(data, i)
            IN  IF i > Len(data) THEN <<>>
                ELSE IF data[i] = E5 /\ r = 1 THEN <<E5, 0>> \o code[i + 1]
                ELSE IF r >= 3 \/ data[i] = E5 THEN <<E5, r, data[i]>> \o code[i + r]
                ELSE <<data[i]>> \o code[i + 1]
    IN  code[1]
encode_rle_chunk(data) == IF Len(Encoded(data)) >= Len(data) THEN data ELSE Encoded(data)

(* what the code says, or <<>> if it does not fill a ROM exactly *)
Bad == -1
decode_rle_chunk(code) ==
    LET from[i \in 1 .. Len(code) + 3] ==
            IF i = Len(code) + 1 THEN <<>>
            ELSE IF i > Len(code) + 1 THEN <<Bad>>
            ELSE IF code[i] # E5 THEN <<code[i]>> \o from[i + 1]
            ELSE IF i = Len(code) THEN <<Bad>>
            ELSE IF code[i + 1] = 0 THEN <<E5>> \o from[i + 2]
            ELSE IF i + 1 = Len(code) THEN <<Bad>>
            ELSE [k \in 1 .. code[i + 1] |-> code[i + 2]] \o from[i + 3]
    IN  IF Len(code) = RomSize THEN code
        ELSE IF Len(from[1]) = RomSize /\ Bad \notin Range(from[1]) THEN from[1] ELSE <<>>

-----------------------------------------------------------------------------
(* remu.c *)

Record(kind, v) == [kind |-> kind, v |-> v]

(* add_symbol, add_comment, parse_break, preserve_record *)
parse_record(x, r) ==
    IF r.kind = "label" THEN [x EXCEPT !.labels = Append(@, r.v)]
    ELSE IF r.kind = "brk" THEN [x EXCEPT !.snap = @ \cup {r.v}]
    ELSE [x EXCEPT !.rest = Append(@, r.v)]
remu_parse_chunk(x, records) == FoldLeft(parse_record, x, records)

(* Labels of earlier snapshots, those of the host's symbol tables, the     *)
(* breakpoints but for doubles, and what was not understood                *)
Labels(s) == [i \in 1 .. Len(s) |-> Record("label", s[i])]
Breaks(addrs) == [i \in 1 .. Cardinality(addrs) |-> Record("brk", SetToSortSeq(addrs, <)[i])]
remu_build_chunk(x) ==
    Labels(x.labels) \o Labels(SetToSeq(x.host)) \o Breaks(x.user \cup x.snap)
        \o [i \in 1 .. Len(x.rest) |-> Record("other", x.rest[i])]

remu_debug_clear(x) == [x EXCEPT !.labels = <<>>, !.rest = <<>>, !.opaque = <<>>]

-----------------------------------------------------------------------------
(* snapshot_save *)

Chunk(id, at, data) == [id |-> id, at |-> at, data |-> data]
ChunksOf == (IF m.rom = <<>> THEN <<>> ELSE <<Chunk("ROM", 0, encode_rle_chunk(m.rom))>>)
                \o (IF remu_build_chunk(d) = <<>> THEN <<>>
                    ELSE <<Chunk("REMU", 0, remu_build_chunk(d))>>)
                \o [i \in 1 .. Len(d.opaque) |-> Chunk("BRKC", 0, d.opaque[i])]

Image == [version |-> 3, regs |-> m.regs, type |-> m.type, pending |-> m.pending,
          size |-> m.size, ram |-> SubSeq(m.ram, 1, m.size), chunks |-> ChunksOf, cut |-> FALSE]

(* The host refuses to create the file, or runs out of space after so many *)
(* blocks of memory, or within a chunk or exactly between two; the last of *)
(* it may be lost in fclose, which is not checked, after a save that says  *)
(* it went well.                                                           *)
Torn == {[Image EXCEPT !.ram = SubSeq(@, 1, k), !.chunks = <<>>, !.cut = TRUE] : k \in 0 .. m.size - 1}
            \cup {[Image EXCEPT !.chunks = SubSeq(@, 1, k), !.cut = cut] :
                      k \in 0 .. Len(ChunksOf) - 1, cut \in BOOLEAN}

snapshot_save(s) ==
    /\ \/ /\ files' = [files EXCEPT ![s] = Image]
          /\ Event([Elsewhere EXCEPT !.saved[s] = <<m, d>>])
       \/ /\ \E f \in Torn : files' = [files EXCEPT ![s] = f]
          /\ Event([Elsewhere EXCEPT !.saved[s] = <<>>])
       \/ UNCHANGED files /\ Event(Elsewhere)
    /\ UNCHANGED <<m, d>>

-----------------------------------------------------------------------------
(* snapshot_load *)

Refused(f) == f.version \notin {1, 2, 3}
Chunked(f) == f.version = 3 /\ f.size = 0
Wanted(f) == IF f.version = 1 \/ (f.version = 2 /\ f.size = 0) THEN 1 ELSE f.size

(* The bank's high bits and the interrupt are lost; a version 3 restores   *)
(* the type of the CRTC, where it knows it, and the interrupt.  The Gate   *)
(* Array's line is left as it is.                                          *)
Registers(f) ==
    [m EXCEPT !.regs = f.regs, !.high = FALSE, !.pending = f.version = 3 /\ f.pending,
              !.type = IF f.version = 3 /\ f.type <= 3 THEN f.type ELSE @]
Expanded(f) ==
    [Registers(f) EXCEPT !.size = IF ~Chunked(f) /\ Wanted(f) > @ THEN Wanted(f) ELSE @]

(* Memory that comes in chunks is cleared first. *)
BlankFaulty(f, b) == m.ram[b]       \* without the memset
Blank(f, b) == IF Chunked(f) THEN 0 ELSE m.ram[b]

(* remu_debug_clear, cpc_breakpoint_clear_source, mem_clear_snapshot_roms, *)
(* and the flat memory, of which there may be too little                   *)
Cleared(f) ==
    LET n == IF Len(f.ram) < Wanted(f) THEN Len(f.ram) ELSE Wanted(f)
    IN  [m |-> [Expanded(f) EXCEPT !.rom = <<>>,
                    !.ram = [b \in 1 .. MaxBlocks |-> IF b <= n /\ ~Chunked(f) THEN f.ram[b]
                                                      ELSE Blank(f, b)]],
         d |-> [remu_debug_clear(d) EXCEPT !.snap = {}],
         ok |-> Chunked(f) \/ n = Wanted(f), want |-> 0, saw |-> FALSE]

(* the chunk c, while nothing failed *)
LoadChunk(x, c) ==
    IF ~x.ok THEN x
    ELSE IF c.id = "MEM" THEN
        IF c.at > MaxBlocks THEN [x EXCEPT !.ok = FALSE]
        ELSE [x EXCEPT !.m.ram[c.at] = c.data, !.saw = TRUE,
                       !.want = IF @ < c.at THEN c.at ELSE @]
    ELSE IF c.id = "ROM" THEN
        IF decode_rle_chunk(c.data) = <<>> THEN [x EXCEPT !.ok = FALSE]
        ELSE [x EXCEPT !.m.rom = decode_rle_chunk(c.data)]
    ELSE IF c.id = "REMU" THEN [x EXCEPT !.d = remu_parse_chunk(@, c.data)]
    ELSE IF c.id = "BRKC" THEN [x EXCEPT !.d.opaque = Append(@, c.data)]
    ELSE x

load_chunks(f, x) ==
    LET y == FoldLeft(LoadChunk, x, f.chunks)
    IN  [y EXCEPT !.ok = @ /\ ~f.cut /\ (Chunked(f) => y.saw)]

Loaded(f) ==
    LET x == load_chunks(f, Cleared(f))
    IN  IF Wanted(f) > MaxBlocks THEN [m |-> Registers(f), d |-> d, ok |-> FALSE]
        ELSE IF x.ok /\ Chunked(f) THEN [x EXCEPT !.m.size = x.want] ELSE x

snapshot_load(s) ==
    LET f == files[s]
        Ends(ok) == Event([h EXCEPT !.before = <<m, d>>, !.loaded = IF ok THEN s ELSE "none",
                                    !.failed = IF ok THEN "none" ELSE s])
    IN  IF Refused(f) THEN Ends(FALSE) /\ UNCHANGED <<m, d, files>>
        ELSE \E x \in {Loaded(f)} : m' = x.m /\ d' = x.d /\ UNCHANGED files /\ Ends(x.ok)

-----------------------------------------------------------------------------
(* The guest runs, the user sets breakpoints and loads symbols. *)
GuestRuns == /\ \E b \in 1 .. m.size, t \in {0, 1} :
                  m' = [m EXCEPT !.regs = 1, !.high = TRUE, !.pending = TRUE, !.asserted = TRUE,
                                 !.ram[b] = 1 - @, !.type = t]
             /\ Event(Elsewhere) /\ UNCHANGED <<d, files>>
UserBreak == /\ \E a \in Addrs : d' = [d EXCEPT !.user = IF a \in @ THEN @ \ {a} ELSE @ \cup {a}]
             /\ Event(Elsewhere) /\ UNCHANGED <<m, files>>
SymbolFile == /\ \E x \in Symbols : d' = [d EXCEPT !.host = x]
              /\ d'.host # d.host /\ Event(Elsewhere) /\ UNCHANGED <<m, files>>

Next == \/ GuestRuns \/ UserBreak \/ SymbolFile
        \/ \E s \in Slots : snapshot_save(s) \/ snapshot_load(s)

Spec == Init /\ [][Next]_vars

-----------------------------------------------------------------------------
(* A snapshot saved to its end and loaded over any machine brings back the *)
(* registers, the memory it had, the ROMs that came with an earlier one,   *)
(* every breakpoint but the temporary ones, and the records that were not  *)
(* understood; memory never shrinks under a flat dump.  User breakpoints   *)
(* are not touched.                                                        *)
Restores ==
    h.loaded # "none" =>
        LET origin == h.saved[h.loaded]
            was == origin[1]
            dbg == origin[2]
        IN  origin # <<>> =>
            /\ <<m.regs, m.type, m.pending, m.rom>> = <<was.regs, was.type, was.pending, was.rom>>
            /\ m.size >= was.size /\ \A b \in 1 .. was.size : m.ram[b] = was.ram[b]
            /\ d.snap = dbg.user \cup dbg.snap /\ d.user = h.before[2].user
            /\ d.rest = dbg.rest /\ d.opaque = dbg.opaque
            /\ dbg.host \subseteq Range(d.labels)

(* After a load without an error every block is the last MEM chunk's that  *)
(* names it; else a dump's; else cleared, if all there is are chunks.  Only *)
(* above a flat dump of a smaller machine does the program before remain,  *)
(* and as much memory as it had.                                           *)
NotMixed ==
    h.loaded # "none" =>
        LET f == files[h.loaded]
            was == h.before[1]
            naming(b) == {i \in DOMAIN f.chunks : f.chunks[i].id = "MEM" /\ f.chunks[i].at = b}
            last(b) == CHOOSE i \in naming(b) : \A j \in naming(b) : j <= i
        IN  /\ m.regs = f.regs /\ m.size \in 1 .. MaxBlocks
            /\ \A b \in 1 .. MaxBlocks :
                  m.ram[b] = IF naming(b) # {} THEN f.chunks[last(b)].data
                             ELSE IF Chunked(f) THEN 0
                             ELSE IF b <= Wanted(f) THEN f.ram[b] ELSE was.ram[b]
            /\ IF Chunked(f) THEN naming(m.size) # {} ELSE m.size >= Wanted(f) /\ m.size >= was.size

(* A load that fails changes nothing if the file is none of a known        *)
(* version, and no memory, ROM or debugging data if it asks for more than  *)
(* there is.  Else the registers may be of one program and each block of   *)
(* the other, but of these two or cleared, in the memory there was or a    *)
(* larger one; breakpoints and symbols of the user stay.                   *)
FailedLoad ==
    h.failed # "none" =>
        LET f == files[h.failed]
            was == h.before[1]
            dbg == h.before[2]
        IN  /\ Refused(f) => <<m, d>> = h.before
            /\ ~Refused(f) /\ Wanted(f) > MaxBlocks =>
                  d = dbg /\ <<m.size, m.ram, m.rom>> = <<was.size, was.ram, was.rom>>
            /\ d.user = dbg.user /\ d.host = dbg.host /\ m.size \in was.size .. MaxBlocks
            /\ \A b \in 1 .. MaxBlocks :
                  \/ m.ram[b] = was.ram[b] \/ (Chunked(f) /\ m.ram[b] = 0)
                  \/ b \in DOMAIN f.ram /\ m.ram[b] = f.ram[b]
                  \/ \E i \in DOMAIN f.chunks : f.chunks[i].id = "MEM" /\ m.ram[b] = f.chunks[i].data

(* A ROM of any bytes fits the buffer of twice its size in the file's code *)
(* and comes back from it.                                                 *)
CodecExact ==
    h.n = 0 => \A rom \in [1 .. RomSize -> Bytes] :
                  /\ Len(Encoded(rom)) <= 2 * RomSize
                  /\ decode_rle_chunk(encode_rle_chunk(rom)) = rom

SnapshotSound == Restores /\ NotMixed /\ FailedLoad /\ CodecExact
=============================================================================
