------------------------------ MODULE Settings ------------------------------
(***************************************************************************)
(* The configuration, the menu that edits it and the machine built from    *)
(* it: config.c (defaults, models, boards, what a save and a load keep),   *)
(* overlay.c (the menu, its dialogs and its closing), cpc_build_from_      *)
(* config and the cold boot of main.c.                                     *)
(*                                                                         *)
(* Abstracted: a file is a tuple of names; the menu has the settings that  *)
(* depend on others, one ("volume") stands for those a handler applies to  *)
(* the machine at once and a revert forgets, one ("crt") for those it      *)
(* applies again; a row is reached in one step, since the arrow keys lead  *)
(* to every row of every visible tab; a picker is modal.  What a handler   *)
(* does to the machine just before a cold boot it asks for is left out.    *)
(***************************************************************************)
EXTENDS Integers, Sequences, FiniteSets

CONSTANTS
    Starts,         \* configuration files the program may start with
    Items,          \* the rows the user visits
    Roms, Images, Disks, Carts, \* what the user picks in a dialog
    Directory,      \* the files on each disk; a disk without any does not load
    Slots,          \* upper ROM slots, M4Slot and AmsdosSlot among them
    MemSizes,       \* sizes of RAM, ascending
    MaxRemembered,  \* CONFIG_DISK_AUTOSTART_MAX: disks whose autostart is remembered
    MaxEdits        \* bound on the rows activated, deleted or picked

M4Slot == 6
AmsdosSlot == 7
Boards == {"m4", "albireo", "cyboard"}
None == <<>>
Models == <<"464", "664", "6128", "464plus", "6128plus", "gx4000">>
Drives == 0 .. 1

VARIABLES
    cfg,    \* the configuration being edited
    live,   \* the machine
    ui,     \* the menu: visible, state, row, dialog, autostart, pending boot
    h       \* the configuration file; history: edits, the configuration last built,
            \* whether edits were lost, whether the file is not what was last saved,
            \* whether the pack row was used, what was typed at boot

vars == <<cfg, live, ui, h>>

-----------------------------------------------------------------------------
(* Models and boards *)

IsPlus(m) == m \in {"464plus", "6128plus", "gx4000"}
IsConsole(m) == m = "gx4000"
Is128k(m) == m \in {"6128", "6128plus"}
BuiltinTape(m) == m \in {"464", "464plus"}
BuiltinFdc(m) == m \in {"664", "6128", "6128plus"}
Computer(m) == IF m \in {"464", "664"} THEN m ELSE "6128"

config_default_os(m) == <<"os", Computer(m)>>
config_default_basic(m) == <<"basic", Computer(m)>>
config_default_amsdos(m) == <<"amsdos", IF m = "664" THEN "664" ELSE "6128">>
config_default_cartridge_for_model(m) == <<"cart", IF IsConsole(m) THEN "gx4000" ELSE "system">>
config_default_m4rom == <<"m4rom">>
config_default_diag == <<"diag">>

config_apply_model_constraints(c) ==
    IF ~IsConsole(c.model) THEN c
    ELSE [c EXCEPT !.memory = 64, !.dd1 = FALSE, !.external_tape = FALSE, !.amx = FALSE,
                   !.mx4 = FALSE, !.v9990 = FALSE, !.rom_board = FALSE]

config_set_model(c, m) ==
    LET plus == IsPlus(m)
        bundled == c.cartridge = None \/ Head(c.cartridge) = "cart"
    IN  config_apply_model_constraints(
            [c EXCEPT !.model = m, !.dd1 = FALSE, !.memory = IF Is128k(m) THEN 128 ELSE 64,
                      !.os = IF plus THEN None ELSE config_default_os(m),
                      !.basic = IF plus THEN None ELSE config_default_basic(m),
                      !.amsdos = IF plus \/ m = "464" THEN None ELSE config_default_amsdos(m),
                      !.cartridge = IF plus /\ bundled
                                    THEN config_default_cartridge_for_model(m) ELSE @])

config_defaults ==
    config_set_model(
        [model |-> "6128", memory |-> 128, mx4 |-> TRUE, rom_board |-> TRUE,
         external_tape |-> FALSE, dd1 |-> FALSE, tinker |-> FALSE, amx |-> FALSE,
         os |-> None, basic |-> None, amsdos |-> None, cartridge |-> None, tape |-> None,
         disk |-> [d \in Drives |-> None], autostart |-> [d \in Disks |-> ""],
         on |-> [b \in Boards |-> FALSE], image |-> [b \in Boards |-> None],
         cache |-> [b \in Boards |-> None],
         template |-> [b \in Boards |-> [s \in Slots |-> None]],
         rom |-> [s \in Slots |-> None], boards |-> [s \in Slots |-> {}],
         symbiface_mouse |-> FALSE, albireo_mouse |-> FALSE, usifac |-> FALSE,
         perryfi |-> FALSE, net4cpc |-> FALSE, rtc |-> FALSE, v9990 |-> FALSE,
         volume |-> 0, crt |-> 0], "6128")

(* the last board, in the order m4, albireo, cyboard, that is on, is a member  *)
(* of the slot and has a ROM for it                                            *)
Winner(c, s) ==
    LET has(b) == b \in c.boards[s] /\ c.on[b] /\ c.template[b][s] # None
    IN  CASE has("cyboard") -> c.template["cyboard"][s]
          [] ~has("cyboard") /\ has("albireo") -> c.template["albireo"][s]
          [] ~has("cyboard") /\ ~has("albireo") /\ has("m4") -> c.template["m4"][s]
          [] OTHER -> None
config_apply_boards(c) ==
    [c EXCEPT !.image = [b \in Boards |-> IF c.on[b] /\ @[b] = None THEN c.cache[b] ELSE @[b]],
              !.rom = [s \in Slots |-> IF c.boards[s] = {} THEN @[s] ELSE Winner(c, s)]]

(* what config_load_from makes of a file that config_save wrote for c: the    *)
(* slot of the M4 is not kept while its board is on, a slot belongs to the    *)
(* boards that have a ROM for it, and what is empty gets its default          *)
Reloaded(c) ==
    LET both == c.on["m4"] /\ c.on["albireo"]
        Default(v, d) == IF v = None THEN d ELSE v
    IN  config_apply_model_constraints(
            [c EXCEPT !.rom[M4Slot] = IF c.on["m4"] THEN None ELSE @,
                      !.boards = [s \in Slots |-> {b \in Boards : c.template[b][s] # None}],
                      !.os = Default(@, config_default_os(c.model)),
                      !.basic = Default(@, config_default_basic(c.model)),
                      !.cartridge = Default(@, config_default_cartridge_for_model(c.model)),
                      !.on["albireo"] = @ /\ ~both,
                      !.image["albireo"] = IF both THEN None ELSE @])

-----------------------------------------------------------------------------
(* The machine *)

Loads(d) == d # None /\ Directory[d] # {}
(* cpc_build_from_config; a cold boot does the same and keeps inserted disks  *)
cpc_build_from_config(c, disk) ==
    LET rom(s) == IF s = M4Slot /\ c.on["m4"]
                  THEN (IF c.mx4 THEN config_default_m4rom ELSE None)
                  ELSE IF (IF c.boards[s] # {} THEN c.mx4 ELSE c.rom_board) THEN c.rom[s] ELSE None
        on == [b \in Boards |-> c.on[b] /\ c.mx4 /\ ~(b = "m4" /\ c.on["albireo"])]
    IN  [model |-> c.model, memory |-> c.memory, mx4 |-> c.mx4,
         lower |-> IF IsPlus(c.model) THEN <<c.cartridge>> ELSE <<c.os, c.basic>>,
         amsdos |-> IF IsPlus(c.model) THEN None ELSE c.amsdos,
         rom |-> [s \in Slots |-> rom(s)], on |-> on,
         image |-> [b \in Boards |-> IF on[b] THEN c.image[b] ELSE None],
         symbiface_mouse |-> c.symbiface_mouse /\ c.mx4,
         albireo_mouse |-> on["albireo"] /\ c.albireo_mouse, amx |-> c.amx,
         usifac |-> c.mx4 /\ c.usifac, perryfi |-> c.mx4 /\ c.usifac /\ c.perryfi,
         net4cpc |-> c.net4cpc, rtc |-> c.rtc, v9990 |-> c.mx4 /\ c.v9990,
         tape |-> IF IsConsole(c.model) \/ ~(BuiltinTape(c.model) \/ c.external_tape)
                  THEN None ELSE c.tape,
         disk |-> [d \in Drives |->
                       IF IsConsole(c.model) THEN None
                       ELSE IF disk[d] # None THEN disk[d]
                       ELSE IF Loads(c.disk[d]) THEN c.disk[d] ELSE None],
         volume |-> c.volume, crt |-> c.crt]
NoDisks == [d \in Drives |-> None]
Fresh(c) == cpc_build_from_config(c, NoDisks)

-----------------------------------------------------------------------------
(* Handlers: x is what is edited, the machine and the menu *)

World == [c |-> cfg, l |-> live, u |-> ui]
Dirty(x) == [x EXCEPT !.u.dirty = TRUE]
Boot(x) == [Dirty(x) EXCEPT !.u.boot = TRUE]
Ask(x, kind, of) == [x EXCEPT !.u.dialog = [kind |-> kind, of |-> of, ready |-> FALSE, path |-> None]]
NoDialog == [kind |-> "none", of |-> 0, ready |-> FALSE, path |-> None]
floppy_accessible(c) == ~IsConsole(c.model) /\ (BuiltinFdc(c.model) \/ c.dd1)

amx_release_pointer(x) == IF x.c.amx THEN [x EXCEPT !.c.amx = FALSE, !.l.amx = FALSE] ELSE x
amx_take_pointer(x) ==
    LET any == x.c.symbiface_mouse \/ x.c.albireo_mouse
        y == [x EXCEPT !.c.symbiface_mouse = FALSE, !.c.albireo_mouse = FALSE]
    IN  IF any THEN Boot(y) ELSE y

overlay_check_board_changes(x) ==
    IF x.c.on = x.u.last THEN x
    ELSE Boot([x EXCEPT !.c = config_apply_boards(x.c), !.u.last = x.c.on])

disk_autostart_clear(x, d) == IF x.u.auto.drive = d THEN [x EXCEPT !.u.auto = [drive |-> -1, file |-> ""],
                                                                   !.u.request = FALSE] ELSE x
disk_autostart_restore(x, d, request) ==
    LET disk == x.l.disk[d]
    IN  IF disk # None /\ x.c.autostart[disk] \in Directory[disk]
        THEN [x EXCEPT !.u.auto = [drive |-> d, file |-> x.c.autostart[disk]], !.u.request = request]
        ELSE x

Off(x, b) == [x EXCEPT !.c.on[b] = FALSE, !.c.image[b] = None,
                       !.c.albireo_mouse = @ /\ b # "albireo"]

ActivateGeneral(i, x) ==
    LET c == x.c
        m == CHOOSE k \in 1 .. 6 : Models[k] = c.model
        sizes == SelectSeq(MemSizes, LAMBDA v : Is128k(c.model) => v >= 128)
        at == {k \in 1 .. Len(sizes) : sizes[k] = c.memory}
        mouse == [x EXCEPT !.c.amx = ~@]
    IN  CASE i = "model" -> Dirty([x EXCEPT !.c = config_set_model(c, Models[(m % 6) + 1])])
          [] i = "memory" -> Dirty([x EXCEPT !.c.memory =
                 sizes[((IF at = {} THEN 1 ELSE CHOOSE k \in at : TRUE) % Len(sizes)) + 1]])
          [] i = "mx4" -> Dirty([x EXCEPT !.c.mx4 = ~@, !.l.mx4 = ~c.mx4, !.l.v9990 = ~c.mx4 /\ c.v9990])
          [] i = "rom_board" -> Dirty([x EXCEPT !.c.rom_board = ~@])
          [] i = "external_tape" -> Dirty([x EXCEPT !.c.external_tape = ~@])
          [] i = "os" -> Ask(x, "os", 0)
          [] i = "basic" -> IF IsPlus(c.model) THEN x ELSE Ask(x, "basic", 0)
          [] i = "tinker" -> Dirty([x EXCEPT !.c.tinker = ~@])
          [] i = "amx" -> LET y == IF mouse.c.amx THEN amx_take_pointer(mouse) ELSE mouse
                          IN  Dirty([y EXCEPT !.l.amx = y.c.amx])

(* M4 and Albireo claim the same ports: one goes when the other is asked for; *)
(* a board with a cached image comes on at once, else its image is asked for  *)
Plug(x, b) ==
    CASE x.c.cache[b] = None -> Ask(x, b, 0)
      [] x.c.cache[b] # None /\ b = "m4" ->
             Boot([x EXCEPT !.c.on[b] = TRUE, !.c.image[b] = x.c.cache[b]])
      [] OTHER -> Dirty([x EXCEPT !.c.on[b] = TRUE])
Rival(b) == IF b = "m4" THEN "albireo" ELSE "m4"
Unplugged(x, b) == LET y == Off(x, b) IN IF b = "m4" THEN Boot([y EXCEPT !.c.rom[M4Slot] = None]) ELSE Dirty(y)
(* enabling the M4 leaves albireo_mouse as it is *)
Yield(x, b) ==
    IF b = "cyboard" \/ ~x.c.on[Rival(b)] THEN x
    ELSE IF b = "m4" THEN [Off(x, "albireo") EXCEPT !.c.albireo_mouse = x.c.albireo_mouse]
    ELSE Unplugged(x, "m4")

(* the Cyboard pack row switches four cards, and asks for an image if there is *)
(* none                                                                        *)
ActivatePack(x) ==
    LET c == x.c
        all == c.net4cpc /\ c.rtc /\ c.on["cyboard"] /\ c.symbiface_mouse
        pack == [x EXCEPT !.c.net4cpc = ~all, !.c.rtc = ~all, !.c.on["cyboard"] = ~all,
                          !.c.symbiface_mouse = ~all]
    IN  IF all THEN Dirty([pack EXCEPT !.c.image["cyboard"] = None])
        ELSE IF c.image["cyboard"] # None THEN Dirty(pack)
        ELSE IF c.cache["cyboard"] # None
        THEN Dirty([pack EXCEPT !.c.image["cyboard"] = c.cache["cyboard"]])
        ELSE Ask(pack, "cyboard", 0)

(* turning a mouse on takes the pointer from the others *)
ActivateMouse(i, x) ==
    LET y == [x EXCEPT !.c[i] = ~@]
        z == IF y.c[i] THEN amx_release_pointer(y) ELSE y
    IN  IF i = "albireo_mouse" THEN Boot([z EXCEPT !.c.symbiface_mouse = @ /\ ~z.c.albireo_mouse])
        ELSE IF z.c.symbiface_mouse /\ z.c.albireo_mouse THEN Boot([z EXCEPT !.c.albireo_mouse = FALSE])
        ELSE Dirty(z)

ActivateExtension(i, x) ==
    LET c == x.c
    IN  CASE i \in Boards /\ c.mx4 ->
                 IF ~c.on[i] THEN Plug(Yield(x, i), i)
                 ELSE IF i = "cyboard" THEN Dirty(Off(x, i)) ELSE Unplugged(x, i)
          [] i = "usifac" -> Dirty([x EXCEPT !.c.usifac = ~@, !.c.perryfi = @ /\ ~c.usifac,
                                             !.l.usifac = c.mx4 /\ ~c.usifac,
                                             !.l.perryfi = c.mx4 /\ ~c.usifac /\ c.perryfi])
          [] i = "net4cpc" -> Dirty([x EXCEPT !.c.net4cpc = ~@])
          [] i = "rtc" -> Dirty([x EXCEPT !.c.rtc = ~@, !.l.rtc = ~c.rtc])
          [] i = "dd1" /\ ~IsConsole(c.model) /\ ~BuiltinFdc(c.model) ->
                 LET rom == IF c.dd1 THEN None ELSE <<"amsdos", "6128">>
                 IN  Dirty([x EXCEPT !.c.dd1 = ~@, !.c.amsdos = rom, !.l.amsdos = rom])
          [] i = "romslots" /\ c.rom_board -> [x EXCEPT !.u.state = "romslots"]
          [] i = "diag" -> Dirty([x EXCEPT !.c.os = IF @ = config_default_diag
                                                    THEN config_default_os(c.model)
                                                    ELSE config_default_diag])
          [] i = "symbiface_mouse" /\ c.mx4 -> ActivateMouse(i, x)
          [] i = "albireo_mouse" /\ c.mx4 /\ c.on["albireo"] -> ActivateMouse(i, x)
          [] i = "pack" /\ c.mx4 -> ActivatePack(x)
          [] i = "perryfi" /\ c.mx4 /\ c.usifac ->
                 Dirty([x EXCEPT !.c.perryfi = ~@, !.l.perryfi = ~c.perryfi])
          [] i = "v9990" /\ c.mx4 -> Dirty([x EXCEPT !.c.v9990 = ~@, !.l.v9990 = ~c.v9990])
          [] OTHER -> x

ActivateTinker(i, x) ==
    CASE i = "volume" -> Dirty([x EXCEPT !.c.volume = 1 - @, !.l.volume = 1 - x.c.volume])
      [] i = "crt" -> Dirty([x EXCEPT !.c.crt = 1 - @, !.l.crt = 1 - x.c.crt])
      [] i = "reset" -> [x EXCEPT !.u.state = "reset_confirm"]

ActivateStorage(i, x) ==
    CASE i \in {"drive_a", "drive_b"} /\ floppy_accessible(x.c) ->
             Ask(x, "disk", IF i = "drive_a" THEN 0 ELSE 1)
      [] i = "tape" /\ ~IsConsole(x.c.model) -> Ask(x, "tape", 0)
      [] i = "cartridge" /\ IsPlus(x.c.model) -> Ask(x, "cartridge", 0)
      [] OTHER -> x

General == {"model", "memory", "mx4", "rom_board", "external_tape", "os", "basic", "tinker", "amx"}
Storage == {"drive_a", "drive_b", "tape", "cartridge"}
Tinker == {"volume", "crt", "reset"}
Tab(i) == CASE i \in General -> "general" [] i \in Storage -> "storage"
            [] i \in Tinker -> "tinker" [] OTHER -> "advanced"
Hidden(c, tab) == (tab = "advanced" /\ ~c.mx4) \/ (tab = "tinker" /\ ~c.tinker)
(* rows that a model does not have, or that a console ignores *)
Absent(c, i) ==
    \/ i = "external_tape" /\ (BuiltinTape(c.model) \/ IsConsole(c.model))
    \/ i = "os" /\ IsPlus(c.model)
    \/ i \in {"memory", "mx4", "rom_board", "amx"} /\ IsConsole(c.model)
    \/ i = "cartridge" /\ ~IsPlus(c.model)

Activate(i, x) ==
    CASE Tab(i) = "general" -> ActivateGeneral(i, x)
      [] Tab(i) = "storage" -> ActivateStorage(i, x)
      [] Tab(i) = "tinker" -> ActivateTinker(i, x)
      [] OTHER -> ActivateExtension(i, x)

(* Delete on a row *)
Clear(i, x) ==
    LET d == IF i = "drive_a" THEN 0 ELSE 1
        b == IF i = "m4" \/ i = "albireo" THEN i ELSE "cyboard"
        default == config_default_cartridge_for_model(x.c.model)
        y == disk_autostart_clear(x, d)
    IN  CASE i \in {"drive_a", "drive_b"} /\ floppy_accessible(x.c) ->
                 IF x.c.disk[d] = None THEN y
                 ELSE Dirty([y EXCEPT !.c.disk[d] = None, !.l.disk[d] = None])
          [] i = "tape" /\ x.c.tape # None -> Dirty([x EXCEPT !.c.tape = None])
          [] i = "cartridge" /\ IsPlus(x.c.model) /\ x.c.cartridge # default ->
                 Dirty([x EXCEPT !.c.cartridge = default])
          [] i \in {"m4", "albireo", "cyboard"} ->
                 overlay_check_board_changes(Boot([Off(x, b) EXCEPT !.c.cache[b] = None]))
          [] i = "crt" /\ x.c.crt = 1 -> Dirty([x EXCEPT !.c.crt = 0, !.l.crt = 0])
          [] OTHER -> x

-----------------------------------------------------------------------------
(* The ROM slots panel *)

RomPicked(x, s) == Ask(x, "romslot", s)
(* clearing a slot drops its boards and every board's ROM for it *)
RomCleared(x, s) ==
    LET tagged == x.c.boards[s] # {}
    IN  Boot([x EXCEPT !.c.rom[s] = None, !.c.boards[s] = {},
                       !.c.template = [b \in Boards |-> [@[b] EXCEPT ![s] = IF tagged THEN None ELSE @]],
                       !.c.amsdos = IF s = AmsdosSlot THEN config_default_amsdos(x.c.model) ELSE @])
(* the board tags of a filled slot: its boards take the ROM it holds *)
RomTagged(x, s, tags) ==
    LET Of(b) == IF b \in tags THEN x.c.rom[s]
                 ELSE IF b \in x.c.boards[s] THEN None ELSE x.c.template[b][s]
        y == [x EXCEPT !.c.boards[s] = tags,
                       !.c.template = [b \in Boards |-> [@[b] EXCEPT ![s] = Of(b)]]]
        applied == config_apply_boards(y.c)
    IN  IF applied = y.c THEN Dirty(y) ELSE Boot([y EXCEPT !.c = applied])

-----------------------------------------------------------------------------
(* What a picker returned, at the next tick *)

Mounted(x, d, path) ==
    LET y == IF x.c.disk[d] # path THEN disk_autostart_clear(x, d) ELSE x
    IN  IF Loads(path) THEN [y EXCEPT !.c.disk[d] = path, !.l.disk[d] = path]
        ELSE [y EXCEPT !.c.disk[d] = None, !.l.disk[d] = None]

Picked(x, kind, of, path) ==
    CASE kind = "disk" ->
             LET y == Mounted(x, of, path)
             IN  Dirty(IF Loads(path) THEN disk_autostart_restore(y, of, TRUE) ELSE y)
      [] kind = "tape" -> Dirty([x EXCEPT !.c.tape = path])
      [] kind = "os" -> Boot([x EXCEPT !.c.os = path])
      [] kind = "basic" -> Boot([x EXCEPT !.c.basic = path])
      [] kind = "cartridge" -> Boot([x EXCEPT !.c.cartridge = path])
      [] kind = "romslot" -> Boot([x EXCEPT !.c.rom[of] = path])
      [] kind = "m4" -> Boot([x EXCEPT !.c.on["m4"] = TRUE, !.c.image["m4"] = path, !.c.cache["m4"] = path,
                                       !.c.rom[M4Slot] = config_default_m4rom])
      [] kind \in {"albireo", "cyboard"} ->
             Dirty([x EXCEPT !.c.on[kind] = TRUE, !.c.image[kind] = path, !.c.cache[kind] = path])
Offered(kind) ==
    CASE kind = "disk" -> Disks [] kind = "cartridge" -> Carts
      [] kind \in Boards \/ kind = "tape" -> Images [] OTHER -> Roms

-----------------------------------------------------------------------------
Init ==
    \E c \in Starts :
        LET x == [c |-> config_apply_boards(Reloaded(c)), l |-> Fresh(config_apply_boards(Reloaded(c))),
                  u |-> [visible |-> FALSE, state |-> "menu", at |-> "model", dirty |-> FALSE,
                         boot |-> FALSE, saved |-> c, last |-> config_apply_boards(Reloaded(c)).on,
                         dialog |-> NoDialog, auto |-> [drive |-> -1, file |-> ""], request |-> FALSE]]
            y == disk_autostart_restore(x, 0, FALSE)
            z == IF y = x THEN disk_autostart_restore(x, 1, FALSE) ELSE y
        IN  /\ cfg = z.c /\ live = z.l /\ ui = z.u
            /\ h = [file |-> c, edits |-> 0, built |-> z.c, lost |-> FALSE, unsaved |-> FALSE, pack |-> FALSE,
                     typed |-> {}]

Becomes(x) == cfg' = x.c /\ live' = x.l /\ ui' = x.u
(* keys reach the menu when no picker is up; a frame ends after each key      *)
Listening == ui.dialog = NoDialog /\ ~ui.boot
InMenu == Listening /\ ui.visible /\ ui.state = "menu" /\ h.edits < MaxEdits
Edited(pack) == h' = [h EXCEPT !.edits = @ + 1, !.pack = @ \/ pack]

(* F9, and Escape in the menu *)
Toggle ==
    /\ Listening
    /\ ~ui.visible => h.edits < MaxEdits
    /\ ui' = CASE ~ui.visible -> [ui EXCEPT !.visible = TRUE, !.state = "menu", !.dirty = FALSE, !.saved = cfg]
               [] ui.visible /\ ui.dirty -> [ui EXCEPT !.state = "confirm"]
               [] OTHER -> [ui EXCEPT !.visible = FALSE]
    /\ UNCHANGED <<cfg, live, h>>

(* Enter and Delete on a row of a tab that shows; the cursor stays on a tab     *)
(* that a reset or a discard has hidden until an arrow key leaves it           *)
Enter(i) ==
    /\ InMenu /\ ~Absent(cfg, i)
    /\ Hidden(cfg, Tab(i)) => Tab(i) = Tab(ui.at)
    /\ LET x == [World EXCEPT !.u.at = i] IN
       \E y \in {overlay_check_board_changes(Activate(i, x)), Clear(i, x)} : y # x /\ Becomes(y)
    /\ Edited(i = "pack")

RomSlot(s) ==
    /\ Listening /\ ui.visible /\ ui.state = "romslots" /\ h.edits < MaxEdits
    /\ \E y \in {RomPicked(World, s), RomCleared(World, s)}
                \cup {RomTagged(World, s, t) : t \in IF cfg.rom[s] = None THEN {} ELSE SUBSET {"m4", "albireo"}} :
           Becomes(y)
    /\ Edited(FALSE)
LeavePanel ==
    /\ Listening /\ ui.visible /\ ui.state \in {"romslots", "reset_confirm"}
    /\ ui' = [ui EXCEPT !.state = "menu"]
    /\ UNCHANGED <<cfg, live, h>>

(* the table of remembered files has room, or an entry for this disk *)
config_disk_autostart_set(c, disk) ==
    c.autostart[disk] # "" \/ Cardinality({d \in Disks : c.autostart[d] # ""}) < MaxRemembered

(* the autostart panel of a drive: a file of its disk or none, remembered or  *)
(* not, refused when the table is full; leaving it closes the menu            *)
Autostart(d) ==
    /\ InMenu /\ floppy_accessible(cfg) /\ live.disk[d] # None
    /\ \E file \in Directory[live.disk[d]] \cup {""}, remember \in BOOLEAN :
        /\ remember /\ file # "" => config_disk_autostart_set(cfg, live.disk[d])
        /\ LET kept == IF file # "" /\ remember THEN file ELSE ""
               x == [World EXCEPT !.c.autostart[live.disk[d]] = kept,
                                  !.u.dirty = @ \/ kept # cfg.autostart[live.disk[d]]]
               y == IF file # "" THEN [x EXCEPT !.u.auto = [drive |-> d, file |-> file], !.u.request = TRUE]
                    ELSE disk_autostart_clear(x, d)
           IN  Becomes(IF y.u.dirty THEN [y EXCEPT !.u.state = "confirm"] ELSE [y EXCEPT !.u.visible = FALSE])
    /\ Edited(FALSE)

(* the callback of a picker, or the built-in browser when the platform has no  *)
(* dialog for a disk: a path, or none                                          *)
overlay_file_callback ==
    /\ ui.dialog.kind # "none" /\ ~ui.dialog.ready
    /\ \/ /\ \E path \in Offered(ui.dialog.kind) : ui' = [ui EXCEPT !.dialog.ready = TRUE, !.dialog.path = path]
          /\ UNCHANGED h
       \/ /\ ui' = [ui EXCEPT !.dialog = NoDialog]
          /\ h' = [h EXCEPT !.lost = @ \/ (~ui.dirty /\ cfg # ui.saved)]
    /\ UNCHANGED <<cfg, live>>

overlay_tick ==
    /\ ui.dialog.ready
    /\ Becomes(overlay_check_board_changes(
                   Picked([World EXCEPT !.u.dialog = NoDialog], ui.dialog.kind, ui.dialog.of, ui.dialog.path)))
    /\ UNCHANGED h

(* what the machine is made to type when the disk is there *)
Typed(u, l) == IF u.auto.drive >= 0 /\ ~IsConsole(l.model) /\ l.disk[u.auto.drive] # None
               THEN {<<u.auto.file, l.disk[u.auto.drive]>>} ELSE {}

(* main: a cold boot, or the reset that starts the chosen file *)
ColdBoot ==
    /\ ui.boot /\ ~ui.dialog.ready
    /\ live' = cpc_build_from_config(cfg, live.disk)
    /\ ui' = [ui EXCEPT !.boot = FALSE, !.request = @ /\ ui.visible]
    /\ h' = [h EXCEPT !.typed = Typed(ui, live'), !.built = cfg]
    /\ UNCHANGED cfg
Request ==
    /\ ui.request /\ ~ui.visible /\ ~ui.boot
    /\ ui' = [ui EXCEPT !.request = FALSE]
    /\ h' = [h EXCEPT !.typed = Typed(ui, live)]
    /\ UNCHANGED <<cfg, live>>

(* a mutant of NeedsBoot: the comparison forgets the ROM slots, the tape and   *)
(* the boards                                                                 *)
NeedsBootFaulty(c, s) == c.model # s.model \/ c.memory # s.memory
(* fields compared with those at the opening of the menu *)
NeedsBoot(c, s) ==
    \/ \E f \in {"model", "memory", "mx4", "rom_board", "dd1", "net4cpc", "symbiface_mouse", "os",
                  "basic", "cartridge", "external_tape", "tape", "rom"} : c[f] # s[f]
    \/ \E b \in {"cyboard", "albireo"} : c.on[b] # s.on[b] \/ c.image[b] # s.image[b]
(* what the file holds after config_save: what is written; what it held, when  *)
(* the host does not open it; the defaults, when it opens and keeps nothing,   *)
(* which no one is told (of a file cut short the empty one stands for all)     *)
config_save(c) == {c, h.file, config_defaults}
(* the result of config_save is ignored: the menu closes and boots all the same *)
Save ==
    /\ Listening /\ ui.visible /\ ui.state = "confirm"
    /\ ui' = [ui EXCEPT !.boot = NeedsBoot(cfg, ui.saved), !.dirty = FALSE, !.visible = FALSE]
    /\ \E file \in config_save(cfg) :
           h' = [h EXCEPT !.file = file, !.unsaved = file # cfg,
                          !.lost = @ \/ (NeedsBoot(cfg, h.built) /\ ~NeedsBoot(cfg, ui.saved))]
    /\ UNCHANGED <<cfg, live>>
Discard ==
    /\ Listening /\ ui.visible /\ ui.state = "confirm"
    /\ cfg' = ui.saved
    /\ live' = [live EXCEPT !.mx4 = ui.saved.mx4, !.v9990 = ui.saved.mx4 /\ ui.saved.v9990,
                            !.crt = ui.saved.crt]
    /\ ui' = [ui EXCEPT !.dirty = FALSE, !.visible = FALSE]
    /\ h' = [h EXCEPT !.lost = TRUE]

(* nothing changes unless the defaults are written; a file that keeps nothing  *)
(* of them loads as them                                                       *)
reset_config_to_defaults ==
    /\ Listening /\ ui.visible /\ ui.state = "reset_confirm"
    /\ \/ UNCHANGED vars
       \/ /\ cfg' = config_defaults
          /\ live' = [live EXCEPT !.disk = NoDisks, !.volume = 0, !.crt = 0]
          /\ ui' = [ui EXCEPT !.auto = [drive |-> -1, file |-> ""], !.request = FALSE,
                              !.last = config_defaults.on, !.dirty = FALSE, !.boot = TRUE,
                              !.state = "menu", !.visible = FALSE]
          /\ h' = [h EXCEPT !.file = config_defaults, !.unsaved = FALSE]

(* the program is closed and started again *)
Restart ==
    /\ Listening /\ ~ui.visible /\ ~ui.request
    /\ LET c == config_apply_boards(Reloaded(h.file))
           x == [c |-> c, l |-> Fresh(c), u |-> [ui EXCEPT !.at = "model", !.last = c.on, !.auto = [drive |-> -1, file |-> ""]]]
           y == disk_autostart_restore(x, 0, FALSE)
       IN  Becomes(IF y = x THEN disk_autostart_restore(x, 1, FALSE) ELSE y)
    /\ h' = [h EXCEPT !.lost = FALSE, !.unsaved = FALSE, !.built = cfg',
                      !.typed = Typed(ui', live')]

Next ==
    \/ Toggle \/ LeavePanel \/ overlay_file_callback \/ overlay_tick \/ ColdBoot \/ Request
    \/ Save \/ Discard \/ reset_config_to_defaults \/ Restart
    \/ \E i \in Items : Enter(i)
    \/ \E s \in Slots : RomSlot(s)
    \/ \E d \in Drives : Autostart(d)

Spec == Init /\ [][Next]_vars

-----------------------------------------------------------------------------
Resting == ~ui.visible /\ ~ui.boot /\ ui.dialog = NoDialog
(* a serial board is heard only through the MX4; the slots and AMSDOS have a   *)
(* conjunct of their own                                                       *)
Hardware(l) == [f \in DOMAIN l \ {"rtc", "rom", "amsdos"} |->
                   IF f \in {"usifac", "perryfi"} THEN l.mx4 /\ l[f] ELSE l[f]]

(* With the menu closed and no boot pending, the machine is the one the        *)
(* configuration describes: what was changed live, what needed a boot and what *)
(* the closing compared add up.  Three cases are set apart by h.lost: edits    *)
(* were discarded; a row that booted the machine was set back before the menu  *)
(* closed, so that the closing found nothing changed since its opening; the    *)
(* Cyboard row changed the configuration and its picker was cancelled, which   *)
(* closes the menu without asking.  Three more are told apart field by field:  *)
(* the clock, which the Cyboard row switches without the machine; AMSDOS on a  *)
(* Plus, which the DD1 row loads and a boot does not; a slot that boards took  *)
(* or gave up since the last boot, which does not ask for one.                 *)
MachineIsConfigured ==
    Resting /\ ~h.lost =>
        LET boot == cpc_build_from_config(cfg, live.disk)
        IN  /\ Hardware(live) = Hardware(boot)
            /\ h.pack \/ live.rtc = cfg.rtc
            /\ IsPlus(cfg.model) \/ live.amsdos = cfg.amsdos
            /\ \A s \in Slots : (cfg.boards[s] = {} <=> h.built.boards[s] = {}) => live.rom[s] = boot.rom[s]

(* Starting again after a save gives the machine that was saved: what the file *)
(* leaves out is what a load puts back.  A slot filled by hand while boards    *)
(* own it is the exception: their ROM returns.  A save that the host refused,  *)
(* or cut short, is another, h.unsaved: the menu closes as if it had been      *)
(* kept; the reset to defaults never leaves one.                               *)
Owned(c, s) == c.boards[s] # {} /\ c.rom[s] # Winner(c, s)
RestartsTheSame ==
    Resting /\ ~h.lost /\ ~h.unsaved =>
        LET now == cpc_build_from_config(cfg, NoDisks)
            then == Fresh(config_apply_boards(Reloaded(h.file)))
        IN  \A f \in DOMAIN now :
               IF f = "rom" THEN \A s \in Slots : Owned(cfg, s) \/ then.rom[s] = now.rom[s]
               ELSE then[f] = now[f]

(* The M4 and the Albireo, which decode the same ports, are never both on, and *)
(* one device at most drives the host pointer, the Cyboard row aside.          *)
Exclusive ==
    /\ ~(cfg.on["m4"] /\ cfg.on["albireo"])
    /\ h.pack \/ Cardinality({m \in {"amx", "symbiface_mouse", "albireo_mouse"} : cfg[m]}) <= 1

(* What is typed after a boot names a file of the disk that is in the drive,   *)
(* unless an edit was lost.                                                    *)
TypesAFile == ~h.lost => \A t \in h.typed : t[1] \in Directory[t[2]]

SettingsSound == MachineIsConfigured /\ RestartsTheSame /\ Exclusive /\ TypesAFile
=============================================================================
