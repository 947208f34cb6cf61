-------------------------------- MODULE Tape --------------------------------
(***************************************************************************)
(* The cassette: the deck that plays a CDT image (tape.c) and the bridge   *)
(* to a real recorder and to sound files (real_tape.c), as the bus steps   *)
(* them (cpc_advance_bus).                                                 *)
(*                                                                         *)
(* Abstracted: pulse lengths are small numbers of cycles, a millisecond Ms *)
(* of them, a byte ByteBits bits; a block of the image is a record and     *)
(* what is skipped has the id "text"; a sample of sound is the level that  *)
(* the signal filter makes of it.                                          *)
(***************************************************************************)
EXTENDS Integers, Sequences, SequencesExt

CONSTANTS
    Images,         \* images: sequences of blocks
    Sources,        \* sound files: sequences of levels
    Ms,             \* cycles in a millisecond
    ByteBits,       \* 8
    MaxData,        \* REAL_TAPE_CDT_MAX_DATA_BYTES
    Ring, FrameMax, \* capacity of input_ring and of output_frame
    CycleSteps,     \* what one instruction may take
    MaxCycles, MaxWant, MaxEvents \* bounds

TapeAssumption == Ms >= 1 /\ ByteBits >= 1 /\ Ring >= 1 /\ FrameMax >= 1 /\ CycleSteps \subseteq Nat \ {0}

VARIABLES
    d,      \* the deck: image, block, stage and its counters, level, transport;
            \* its edges and where they count from are history
    r,      \* the bridge
    file,   \* the file that was captured, as an image or as samples
    h       \* history: what the capture should hold, whether a write failed, a
            \* frame is being emulated, host samples given, events

vars == <<d, r, file, h>>

Flip(l) == 1 - l
Bits(b) == IF b.bytes = <<>> THEN <<>>
           ELSE SubSeq(FlattenSeq(b.bytes), 1, (Len(b.bytes) - 1) * ByteBits + b.used)

Ejected == [image |-> <<>>, at |-> 1, stage |-> "end", level |-> 0, left |-> 0, pulse |-> 0,
            n |-> 0, bits |-> <<>>, table |-> <<>>, present |-> FALSE, motor |-> FALSE,
            paused |-> FALSE, played |-> 0, edges |-> <<>>, from |-> [block |-> 1, time |-> 0]]
Nothing == [kind |-> "none", data |-> <<>>]

-----------------------------------------------------------------------------
(* The deck *)

Block(x) == x.image[x.at]
Leveled(x, l) == [x EXCEPT !.level = l,
                           !.edges = IF l = x.level THEN @ ELSE Append(@, <<x.played + x.left, l>>)]
Plus(x) == [x EXCEPT !.left = @ + x.pulse]
read_data_bit(x) ==
    [x EXCEPT !.bits = Tail(@), !.n = 2,
              !.pulse = IF Head(x.bits) = 1 THEN Block(x).one ELSE Block(x).zero]
read_direct_sample(x) == [Leveled(x, Head(x.bits)) EXCEPT !.bits = Tail(@)]
Data(x) == Plus(read_data_bit([x EXCEPT !.stage = "data", !.bits = Bits(Block(x))]))
Sync(x, table) == Plus([x EXCEPT !.stage = "sync", !.n = Len(table), !.pulse = Head(table),
                                 !.table = Tail(table)])
Pause(x, ms) == [x EXCEPT !.stage = "pause", !.left = @ + Ms, !.pulse = (ms - 1) * Ms, !.n = 2]

Skipped(b) == b.id = "text" \/ (b.id = "silence" /\ b.pause = 0)
BadDirect(b) == b.id = "direct" /\ (b.bytes = <<>> \/ b.used \notin 1 .. ByteBits)

(* the first block from i on that can be played *)
next_block(x, i) ==
    LET found == {j \in i .. Len(x.image) : ~Skipped(x.image[j])}
        first == CHOOSE j \in found : \A k \in found : j <= k
        y == [x EXCEPT !.at = first]
        b == Block(y)
    IN  IF found = {} \/ BadDirect(x.image[first])
        THEN [x EXCEPT !.at = Len(x.image) + 1, !.stage = "end"]
        ELSE CASE b.id \in {"standard", "turbo", "tone"} ->
                     Plus([y EXCEPT !.stage = "pilot", !.pulse = b.pulse, !.n = b.n])
               [] b.id = "pulses" -> Sync(y, b.table)
               [] b.id = "data" -> Data(y)
               [] b.id = "direct" ->
                     Plus([read_direct_sample([y EXCEPT !.bits = Bits(b)])
                               EXCEPT !.stage = "direct", !.pulse = b.pulse])
               [] b.id = "silence" -> Pause(y, b.pause)

block_done(x) == IF x.at > Len(x.image) THEN [x EXCEPT !.stage = "end"] ELSE next_block(x, x.at + 1)
After(x) == IF Block(x).pause > 0 THEN Pause(x, Block(x).pause) ELSE block_done(x)

update_level(x) ==
    LET y == [Leveled(x, IF x.stage = "pause" THEN 0 ELSE Flip(x.level)) EXCEPT !.n = @ - 1]
    IN  CASE x.stage = "direct" -> IF x.bits = <<>> THEN After(x) ELSE Plus(read_direct_sample(x))
          [] x.stage = "sync" /\ y.n > 0 ->
                 Plus([y EXCEPT !.pulse = Head(x.table), !.table = Tail(@)])
          [] x.stage # "direct" /\ x.stage # "sync" /\ y.n > 0 -> Plus(y)
          [] x.stage = "pilot" /\ y.n = 0 ->
                 IF Block(x).id = "tone" THEN block_done(y) ELSE Sync(y, Block(x).table)
          [] x.stage = "sync" /\ y.n = 0 ->
                 IF Block(x).id = "pulses" THEN block_done(y) ELSE Data(y)
          [] x.stage = "data" /\ y.n = 0 -> IF x.bits = <<>> THEN After(y) ELSE Plus(read_data_bit(y))
          [] x.stage = "pause" /\ y.n = 0 -> block_done(y)

tape_playing(x) == x.present /\ x.motor /\ ~x.paused /\ x.stage # "end"
(* the loop of tape_step: two rounds of it pass a cycle at least *)
Updated(x, cycles) ==
    FoldLeft(LAMBDA y, i : IF y.left <= 0 /\ y.stage # "end" THEN update_level(y) ELSE y,
             x, [i \in 1 .. 2 * cycles |-> i])
tape_step(x, cycles) ==
    IF ~tape_playing(x) THEN x
    ELSE Updated([x EXCEPT !.played = @ + cycles, !.left = @ - cycles], cycles)

From(x, i, time) == [x EXCEPT !.edges = <<>>, !.level = 0, !.left = 0,
                              !.from = [block |-> i, time |-> time]]
tape_rewind(x) ==
    IF ~x.present THEN x
    ELSE next_block([From(x, 1, 0) EXCEPT !.played = 0, !.bits = <<>>, !.n = 0], 1)
tape_next_block(x) ==
    IF ~x.present \/ x.at > Len(x.image) THEN x ELSE block_done(From(x, x.at + 1, x.played))
tape_eject(x) == [Ejected EXCEPT !.motor = x.motor]
tape_load(x, image) == tape_rewind([tape_eject(x) EXCEPT !.image = image, !.present = TRUE])

-----------------------------------------------------------------------------
(* The bridge.  A world w is the bridge, the file and the history. *)

World == [r |-> r, file |-> file, h |-> h]
HasInput(x) == x.mode = "input"
HasOutput(x) == x.mode = "output"
Loaded(x) == x.src # <<>>
InputActive(x) == HasInput(x) /\ (Loaded(x) \/ x.in)
ConnectedInput(x) == HasInput(x) /\ ~Loaded(x) /\ x.in

append_wav_samples(w, samples) ==
    IF w.r.cap # "wav" THEN {w} ELSE {[w EXCEPT !.file.data = @ \o samples]}
(* the write may fail *)
Failing(w) == [w EXCEPT !.h.failed = TRUE]

TheBlock(w) == w.file.data[1]
write_cdt_byte(w, byte) ==
    IF Len(TheBlock(w).bytes) >= MaxData THEN w
    ELSE [w EXCEPT !.file.data[1].bytes = Append(@, byte)]
start_cdt_direct_block(w) ==
    IF w.file.data # <<>> THEN w
    ELSE [w EXCEPT !.file.data = <<[id |-> "direct", pulse |-> 1, n |-> 0, table |-> <<>>, zero |-> 0,
                                    one |-> 0, bytes |-> <<>>, used |-> ByteBits, pause |-> 0]>>]

Filled(byte) == byte \o [i \in 1 .. ByteBits - Len(byte) |-> 0]
record_stopFaulty(w) ==     \* the last byte is not shifted up
    [w EXCEPT !.r.cap = "none", !.r.bit = <<>>,
              !.file.data = IF w.r.cap # "cdt" \/ w.r.bit = <<>> THEN @
                            ELSE <<[@[1] EXCEPT !.bytes = Append(@, [i \in 1 .. ByteBits |->
                                        IF i <= ByteBits - Len(w.r.bit) THEN 0
                                        ELSE w.r.bit[i - (ByteBits - Len(w.r.bit))]]),
                                        !.used = Len(w.r.bit)]>>]
real_tape_record_stop(w) ==
    LET x == [w EXCEPT !.r.cap = "none", !.r.bit = <<>>]
    IN  IF w.r.cap = "wav" THEN [x EXCEPT !.r.frame = <<>>, !.file.data = @ \o w.r.frame]
        ELSE IF w.r.cap = "cdt" /\ w.r.bit # <<>>
        THEN [write_cdt_byte(x, Filled(w.r.bit)) EXCEPT !.file.data[1].used = Len(w.r.bit)]
        ELSE x

(* a level more; at the limit, none *)
append_cdt_sample(w, l) ==
    LET v == start_cdt_direct_block(w)
        x == [v EXCEPT !.r.bit = Append(@, l), !.h.want = Append(@, l)]
    IN  IF w.r.cap # "cdt" THEN w
        ELSE IF w.r.bit = <<>> /\ Len(TheBlock(v).bytes) >= MaxData THEN real_tape_record_stop(v)
        ELSE IF Len(x.r.bit) < ByteBits THEN x
        ELSE write_cdt_byte([x EXCEPT !.r.bit = <<>>], x.r.bit)

real_tape_flush_output(w) ==
    LET x == [w EXCEPT !.r.frame = <<>>]
    IN  IF w.r.cap = "wav" /\ HasOutput(w.r)
        THEN append_wav_samples(x, w.r.frame) \cup {Failing(real_tape_record_stop(x))}
        ELSE {x}

real_tape_output_sample(w, l) ==
    IF ~HasOutput(w.r) \/ (w.r.cap = "none" /\ ~w.r.out) THEN {w}
    ELSE {IF v.r.cap = "none" /\ ~v.r.out THEN v
          ELSE [v EXCEPT !.r.frame = Append(@, l),
                         !.h.want = IF v.r.cap = "wav" THEN Append(@, l) ELSE @] :
              v \in IF Len(w.r.frame) = FrameMax THEN real_tape_flush_output(w) ELSE {w}}

(* a sample of the sound file, while the motor runs *)
FromSource(w, motor) ==
    LET l == w.r.src[w.r.pos]
        x == append_cdt_sample([w EXCEPT !.r.pos = @ + 1, !.r.level = l], l)
    IN  IF ~motor \/ w.r.pos > Len(w.r.src) THEN [w EXCEPT !.r.level = 0]
        ELSE IF x.r.pos > Len(x.r.src) /\ x.r.cap = "cdt" THEN real_tape_record_stop(x) ELSE x
FromRing(w) ==
    IF w.r.ring = <<>> THEN w ELSE [w EXCEPT !.r.level = Head(w.r.ring), !.r.ring = Tail(@)]
Input(w, motor) ==
    IF HasInput(w.r) /\ Loaded(w.r) THEN FromSource(w, motor)
    ELSE IF InputActive(w.r) THEN FromRing(w) ELSE w
real_tape_sample(w, motor, write) ==
    {Input(v, motor) : v \in IF HasOutput(w.r) /\ w.r.osource = "save" /\ motor
                             THEN real_tape_output_sample(w, write) ELSE {w}}

real_tape_reset(w) == [w EXCEPT !.r.ring = <<>>, !.r.frame = <<>>, !.r.level = 0, !.r.pos = 1]

real_tape_source_eject(w) ==
    {[v EXCEPT !.r.src = <<>>, !.r.pos = 1, !.r.ring = <<>>, !.r.level = 0] :
        v \in real_tape_flush_output(real_tape_record_stop(w))}

(* the devices may be there or not *)
real_tape_configure(w, mode, osource, target) ==
    LET changed == w.r.mode # mode \/ w.r.osource # osource \/ w.r.target # target
        stopped == IF changed THEN real_tape_record_stop(w) ELSE w
        set == {[v EXCEPT !.r.mode = mode, !.r.osource = osource, !.r.target = target] :
                    v \in IF changed THEN real_tape_flush_output(stopped) ELSE {stopped}}
        needsIn(x) == mode = "input" /\ ~Loaded(x)
        needsOut(x) == target = "device" /\ (mode = "output" \/ (mode = "input" /\ Loaded(x)))
        ejected == UNION {IF mode = "input" THEN {v} ELSE real_tape_source_eject(v) : v \in set}
    IN  {[v EXCEPT !.r.in = i /\ needsIn(v.r), !.r.out = o /\ needsOut(v.r),
                   !.r.ring = IF needsIn(v.r) /\ v.r.in THEN @ ELSE <<>>,
                   !.r.level = IF mode = "input" THEN @ ELSE 0,
                   !.r.frame = IF mode # "output" /\ ~needsOut(v.r) THEN <<>> ELSE @] :
            v \in ejected, i \in BOOLEAN, o \in BOOLEAN}

real_tape_source_load_wav(w, src) ==
    [real_tape_record_stop(w) EXCEPT !.r.src = src, !.r.pos = 1, !.r.ring = <<>>, !.r.level = 0]

real_tape_record_start(w) ==
    LET convert == HasInput(w.r) /\ Loaded(w.r)
        x == real_tape_record_stop(w)
    IN  IF w.r.target # "file" \/ ~(convert \/ ConnectedInput(w.r) \/ HasOutput(w.r)) THEN {w}
        ELSE {[x EXCEPT !.r.cap = IF convert THEN "cdt" ELSE "wav", !.r.bit = <<>>, !.r.frame = <<>>,
                        !.file = [kind |-> IF convert THEN "cdt" ELSE "wav", data |-> <<>>],
                        !.h.want = <<>>, !.h.failed = FALSE], x}

Pumped(ring, l) == Append(IF Len(ring) = Ring THEN Tail(ring) ELSE ring, l)
real_tape_pump(w, l) ==
    IF ~HasInput(w.r) THEN {w}
    ELSE IF Loaded(w.r) THEN {[w EXCEPT !.r.ring = <<>>]}
    ELSE IF ~w.r.in THEN {w}
    ELSE {[v EXCEPT !.r.ring = Pumped(@, l)] :
              v \in append_wav_samples([w EXCEPT !.h.want = IF w.r.cap = "wav" THEN Append(@, l) ELSE @],
                                       <<l>>)
                    \cup {Failing(real_tape_record_stop(w))}}

-----------------------------------------------------------------------------
Becomes(worlds) == \E w \in worlds : r' = w.r /\ file' = w.file /\ h' = w.h
Event(w) == [w EXCEPT !.h.n = @ + 1]
Asks(worlds) == h.n < MaxEvents /\ ~h.in /\ Becomes({Event(w) : w \in worlds})

Init ==
    /\ r \in {[mode |-> mode, osource |-> osource, target |-> target, src |-> src, pos |-> 1,
               in |-> mode = "input" /\ src = <<>>,
               out |-> target = "device" /\ (mode = "output" \/ (mode = "input" /\ src # <<>>)),
               ring |-> <<>>, frame |-> <<>>, level |-> 0, cap |-> "none", bit |-> <<>>] :
                  mode \in {"off", "input", "output"}, osource \in {"cdt", "save"},
                  target \in {"file", "device"}, src \in {<<>>} \cup Sources}
    /\ (r.src # <<>> => r.mode = "input") /\ (r.osource = "save" => r.mode = "output")
    /\ \E image \in Images : d = tape_load(Ejected, image)
                             /\ (r.mode = "off" \/ image = CHOOSE x \in Images : TRUE)
    /\ file = Nothing
    /\ h = [want |-> <<>>, failed |-> FALSE, in |-> FALSE, n |-> 0]

(* What the bus does for an instruction, and the sound for it. *)
Virtual == ~HasInput(r) /\ ~(HasOutput(r) /\ r.osource = "save")
cpc_advance_bus ==
    \E c \in CycleSteps, write \in {0, 1} :
        /\ write = 1 => HasOutput(r) /\ r.osource = "save"
        /\ d.played + c <= MaxCycles /\ Len(h.want) < MaxWant
        /\ d' = IF Virtual THEN tape_step(d, c) ELSE d
        /\ \E w \in real_tape_sample([World EXCEPT !.h.in = TRUE], d.motor, write) :
               Becomes(IF Virtual /\ tape_playing(d') /\ r.osource = "cdt"
                       THEN real_tape_output_sample(w, d'.level) ELSE {w})

SetMotor == d' = [d EXCEPT !.motor = ~@] /\ h.in /\ UNCHANGED <<r, file, h>>
EndFrame == /\ h.in /\ UNCHANGED d
            /\ Becomes({[w EXCEPT !.h.in = FALSE] : w \in real_tape_flush_output(World)})

Stopped(x) == [x EXCEPT !.paused = TRUE]
Played == IF d.present /\ d.stage # "end" THEN [d EXCEPT !.paused = FALSE] ELSE d
Transport == /\ d' \in {tape_rewind(Stopped(d)), tape_next_block(Stopped(d)), Played, Stopped(d), tape_eject(d)}
             /\ Asks({World})
Insert == \E image \in Images \cup (IF file.kind = "cdt" /\ r.cap = "none" THEN {file.data} ELSE {}) :
             d' = tape_load(d, image) /\ Asks({World})
Configure == \E mode \in {"off", "input", "output"}, osource \in {"cdt", "save"}, target \in {"file", "device"} :
             Asks(real_tape_configure(World, mode, osource, target)) /\ UNCHANGED d
LoadSource == \E src \in Sources : Asks({real_tape_source_load_wav(World, src)}) /\ UNCHANGED d
EjectSource == Loaded(r) /\ Asks(real_tape_source_eject(World)) /\ UNCHANGED d
Record == /\ Asks(IF r.cap = "none" THEN real_tape_record_start(World) ELSE {real_tape_record_stop(World)})
          /\ UNCHANGED d
HostSound == \E l \in {0, 1} : HasInput(r) /\ Asks(real_tape_pump(World, l)) /\ UNCHANGED d
Reset == Asks({real_tape_reset(World)}) /\ d' = [d EXCEPT !.motor = FALSE]

Next == \/ cpc_advance_bus \/ SetMotor \/ EndFrame \/ Transport \/ Insert \/ Configure \/ LoadSource
        \/ EjectSource \/ Record \/ HostSound \/ Reset

Spec == Init /\ [][Next]_vars

-----------------------------------------------------------------------------
(* What an image sounds like, block by block: how long each pulse is, the  *)
(* level turning after each; a pause goes low after its first millisecond. *)
Pulses(b) ==
    LET twice(bit) == IF bit = 1 THEN <<b.one, b.one>> ELSE <<b.zero, b.zero>>
        pilot == IF b.id \in {"standard", "turbo", "tone"} THEN [i \in 1 .. b.n |-> b.pulse] ELSE <<>>
        sync == IF b.id \in {"standard", "turbo", "pulses"} THEN b.table ELSE <<>>
        data == IF b.id \in {"standard", "turbo", "data"}
                THEN FlattenSeq([i \in DOMAIN Bits(b) |-> twice(Bits(b)[i])]) ELSE <<>>
    IN  pilot \o sync \o data
Turned(s, length) == [time |-> s.time + length, level |-> Flip(s.level),
                      edges |-> Append(s.edges, <<s.time + length, Flip(s.level)>>)]
Held(s, l, length) == [time |-> s.time + length, level |-> l,
                       edges |-> IF l = s.level THEN s.edges ELSE Append(s.edges, <<s.time, l>>)]
Silent(s, ms) == IF ms = 0 THEN s ELSE Held(Held(s, s.level, Ms), 0, (ms - 1) * Ms)
Sound(s, b) ==
    IF b.id = "direct"
    THEN Silent(FoldLeft(LAMBDA x, l : Held(x, l, b.pulse), s, Bits(b)), b.pause)
    ELSE Silent(FoldLeft(Turned, s, Pulses(b)), b.pause)
Heard(image, from) ==
    LET bad == {i \in DOMAIN image : i >= from.block /\ BadDirect(image[i])}
        last == IF bad = {} THEN Len(image) ELSE (CHOOSE i \in bad : \A j \in bad : i <= j) - 1
    IN  FoldLeft(Sound, [time |-> from.time, level |-> 0, edges |-> <<>>],
                 SubSeq(image, from.block, IF from.block > last THEN from.block - 1 ELSE last)).edges

(* However the motor, the pause key and the instructions cut up the time,  *)
(* the deck turns its level exactly when the image says.                   *)
PlaysImage ==
    d.present => d.edges = SelectSeq(Heard(d.image, d.from), LAMBDA e : e[1] <= d.played)

(* What was captured is what was heard or played since the capture began,  *)
(* to the bit, whatever else was switched meanwhile.                       *)
Captured ==
    LET written == IF file.kind = "cdt" THEN IF file.data = <<>> THEN <<>>
                                             ELSE IF r.cap = "cdt" THEN FlattenSeq(file.data[1].bytes)
                                             ELSE Bits(file.data[1])
                   ELSE file.data
    IN  h.failed \/ h.want = written \o r.bit \o (IF r.cap = "wav" THEN r.frame ELSE <<>>)

TapeSound == PlaysImage /\ Captured
=============================================================================
