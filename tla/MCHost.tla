------------------------------- MODULE MCHost -------------------------------
(* The parts of the emulator that answer to the host: the serial boards,   *)
(* run control, the inputs and the web service, and what is kept in the    *)
(* host's files, which are tapes, snapshots and the settings.  Every       *)
(* behaviour of Spec is one of ControlSpec and one of UsersSpec.           *)
EXTENDS MCControl, MCUsers, TLC

CONSTANTS Parts

-----------------------------------------------------------------------------
(* A tape: blocks of every kind, a sound file to record from. *)
Block(id) == [id |-> id, pulse |-> 1, n |-> 1, table |-> <<1>>, zero |-> 1, one |-> 2, bytes |-> <<>>,
              used |-> 2, pause |-> 0]
TapeImages ==
    {<<[Block("standard") EXCEPT !.n = 3, !.table = <<1, 2>>, !.bytes = << <<0, 1>> >>, !.pause = 2],
       Block("text"), [Block("tone") EXCEPT !.n = 2]>>,
     <<[Block("direct") EXCEPT !.bytes = << <<1, 1>>, <<0, 0>> >>, !.used = 1, !.pause = 2],
       [Block("pulses") EXCEPT !.table = <<1, 2, 1>>],
       [Block("data") EXCEPT !.bytes = << <<1, 0>>, <<1, 0>> >>, !.used = 1]>>,
     <<Block("silence"), [Block("turbo") EXCEPT !.table = <<2, 1>>, !.bytes = << <<1, 1>> >>, !.used = 1],
       [Block("silence") EXCEPT !.pause = 2], [Block("direct") EXCEPT !.used = 3]>>}
Tapes == INSTANCE Tape WITH
    Images <- TapeImages, Sources <- {<<1, 0, 1, 1, 1>>}, Ms <- 2, ByteBits <- 2, MaxData <- 2, Ring <- 1,
    FrameMax <- 2, CycleSteps <- {2, 5}, MaxCycles <- 21, MaxEvents <- 2, MaxWant <- 5,
    d <- v1, r <- v2, file <- v3, h <- v4

-----------------------------------------------------------------------------
(* Snapshots of two blocks and ROMs of seven bytes; files of other         *)
(* programs of every version, cut short, compressed past their block, with *)
(* chunks of other kinds.                                                  *)
S0 == INSTANCE Snapshot WITH
    MaxBlocks <- 2, RomSize <- 7, MaxRun <- 5, Bytes <- {0, 1, 2}, E5 <- 2, Foreign <- {}, Slots <- {"a", "b"},
    Symbols <- {{}, {"a"}}, Addrs <- {1, 2}, MaxEvents <- 4,
    m <- v1, d <- v2, files <- v3, h <- v4
File(version, size, ram, chunks) ==
    [version |-> version, regs |-> 1, type |-> 4, pending |-> FALSE, size |-> size, ram |-> ram,
     chunks |-> chunks, cut |-> FALSE]
ForeignFiles ==
    {File(1, 0, <<1>>, <<>>), File(2, 0, <<1>>, <<>>), File(2, 2, <<1, 1>>, <<>>),
     File(2, 3, <<1, 1, 1>>, <<>>), File(2, 2, <<1>>, <<>>), File(4, 1, <<1>>, <<>>),
     File(3, 1, <<0>>, <<S0!Chunk("BRKC", 0, 1),
                        S0!Chunk("REMU", 0, <<S0!Record("other", 1), S0!Record("label", "b"), S0!Record("brk", 2)>>)>>)}
    \cup {File(3, 0, <<>>, <<c>>) : c \in {S0!Chunk("MEM", 2, 1), S0!Chunk("MEM", 3, 1), S0!Chunk("xx", 1, 1)}}
    \cup {File(3, 1, <<0>>, <<S0!Chunk("ROM", 0, rom)>>) :
             rom \in {<<2, 2>>, <<2, 2, 0, 0, 0, 0, 0>>, <<1, 2, 1, 1, 0, 2, 1>>}}
Snapshots == INSTANCE Snapshot WITH
    MaxBlocks <- 2, RomSize <- 7, MaxRun <- 5, Bytes <- {0, 1, 2}, E5 <- 2, Foreign <- ForeignFiles,
    Slots <- {"a", "b"}, Symbols <- {{}, {"a"}}, Addrs <- {1, 2}, MaxEvents <- 4,
    m <- v1, d <- v2, files <- v3, h <- v4

-----------------------------------------------------------------------------
(* Six configuration files, two edits of any rows, two disks and one that *)
(* cannot be loaded.                                                       *)
C0 == INSTANCE Settings WITH
    Starts <- {}, Items <- {}, Roms <- {<<"r1">>, <<"r2">>}, Images <- {<<"i">>, <<"j">>},
    Disks <- {<<"d1">>, <<"d2">>, <<"bad">>}, Carts <- {<<"game">>}, Slots <- {6, 7},
    Directory <- (<<"d1">> :> {"a"}) @@ (<<"d2">> :> {"b"}) @@ (<<"bad">> :> {}),
    MemSizes <- <<64, 128, 512>>, MaxEdits <- 2, MaxRemembered <- 1,
    cfg <- v1, live <- v2, ui <- v3, h <- v4
D == C0!config_defaults
ConfigFiles ==
    {D, [C0!config_set_model(D, "6128plus") EXCEPT !.disk[0] = <<"d1">>],
     [D EXCEPT !.on["cyboard"] = TRUE, !.image["cyboard"] = <<"i">>, !.cache["cyboard"] = <<"i">>,
               !.net4cpc = TRUE, !.rtc = TRUE, !.symbiface_mouse = TRUE, !.tinker = TRUE],
     [D EXCEPT !.on["albireo"] = TRUE, !.image["albireo"] = <<"i">>, !.cache["albireo"] = <<"i">>,
               !.cache["m4"] = <<"i">>, !.albireo_mouse = TRUE, !.autostart[<<"d2">>] = "b",
               !.template["albireo"][6] = <<"r1">>, !.rom[6] = <<"r1">>, !.boards[6] = {"albireo"}],
     [C0!config_set_model(D, "464") EXCEPT !.rom[7] = <<"r1">>, !.boards[7] = {"m4"}, !.tape = <<"i">>,
               !.template["m4"][7] = <<"r1">>, !.usifac = TRUE, !.perryfi = TRUE],
     [C0!config_set_model(D, "464plus") EXCEPT !.mx4 = FALSE, !.v9990 = TRUE, !.cache["cyboard"] = <<"i">>,
               !.on["m4"] = TRUE, !.image["m4"] = <<"i">>, !.cache["m4"] = <<"i">>, !.rom[7] = <<"r1">>]}
Rows == C0!General \cup C0!Storage \cup C0!Tinker
        \cup {"m4", "usifac", "net4cpc", "rtc", "dd1", "romslots", "diag", "cyboard", "symbiface_mouse",
              "albireo_mouse", "albireo", "pack", "perryfi", "v9990"}
Menus == INSTANCE Settings WITH
    Starts <- ConfigFiles, Items <- Rows, Roms <- {<<"r1">>, <<"r2">>}, Images <- {<<"i">>, <<"j">>},
    Disks <- {<<"d1">>, <<"d2">>, <<"bad">>}, Carts <- {<<"game">>}, Slots <- {6, 7},
    Directory <- (<<"d1">> :> {"a"}) @@ (<<"d2">> :> {"b"}) @@ (<<"bad">> :> {}),
    MemSizes <- <<64, 128, 512>>, MaxEdits <- 2, MaxRemembered <- 1,
    cfg <- v1, live <- v2, ui <- v3, h <- v4

ASSUME MediaAssumption == Tapes!TapeAssumption /\ Snapshots!SnapshotAssumption

-----------------------------------------------------------------------------
MediaInit == \/ part \notin {"tape", "snapshot", "settings"}
             \/ part = "tape" /\ Tapes!Init
             \/ part = "snapshot" /\ Snapshots!Init
             \/ part = "settings" /\ Menus!Init

MediaNext == \/ part \notin {"tape", "snapshot", "settings"}
             \/ part = "tape" /\ Tapes!Next
             \/ part = "snapshot" /\ Snapshots!Next
             \/ part = "settings" /\ Menus!Next

Init == part \in Parts /\ ControlInit /\ UsersInit /\ MediaInit
Next == part' = part /\ ControlNext /\ UsersNext /\ MediaNext
Spec == Init /\ [][Next]_hostVars

(* tape.c, real_tape.c: the deck turns the level exactly where the image   *)
(* has a pulse, however the cycles were cut up and motor and PLAY changed; *)
(* what is recorded is the signal until the stop.                          *)
TapeSound == part = "tape" => Tapes!TapeSound
(* snapshot.c, remu.c: a saved machine comes back as it was; a load that   *)
(* succeeds leaves no memory of the program before; the run-length code of *)
(* a ROM decodes to what was encoded, within its buffer.                   *)
SnapshotSound == part = "snapshot" => Snapshots!SnapshotSound
(* overlay.c, config.c: the machine is what the configuration says once    *)
(* the menu is closed; saved, it starts the same; boards that exclude each *)
(* other are never both on; autostart types a file that is on the disk.    *)
SettingsSound == part = "settings" => Menus!SettingsSound
=============================================================================
