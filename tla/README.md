# TLA+ models of 1984

1984 is an Amstrad CPC emulator in C: a Z80, the CPC's video, sound and
interrupt chips, the Plus ASIC, a floppy controller and a shelf of expansion
boards (network, serial, storage, graphics).  This directory holds TLA+
specifications of the parts of it that keep state over several steps, TLC
configurations that check them on small instances, and proofs for TLAPS.

`PROJECT.json` is the index: components, runs, the source lines behind each
definition, the mutants that show a property can fail, hazards, findings and
theorems.  Paths below such as `fdc.c` are under `src/src/`.

## 1. The system

The program is single-threaded.  One turn of the main loop (`main.c`) reads the
host's events, ticks the input injectors (paste, pilot, keyboard PTY), polls
the boards that talk to the host (`net4cpc_poll`, `usifac_poll`,
`perryfi_poll`, the M4's sockets, the web service), runs one CPC frame
(`cpc_frame`: 80 000 CPU cycles, 50 frames a second) and shows it.  In a frame
each Z80 instruction is followed by the bus time it took: CRTC characters at
1 MHz, Gate Array lines, ASIC, PSG, `fdc_tick`, tape.  Concurrency is therefore
not threads: it is the order in which the guest's program, the emulated
devices, the user and the host's network and file system get their turn, and
every state a device keeps between two turns can be met by any of the others.

| Component | State | Operations | What is hard | What makes it correct |
|---|---|---|---|---|
| Net4CPC TCP (`net4cpc.c`, `n4c_stack.c`, `tap.c`) | control block and W5100S registers per socket, RX and TX rings, ARP cache | socket commands, register reads and writes, `n4c_stack_poll`: frames in, `tcp_tick` | loss, copies and reordering, retransmission, closing from both ends, two copies of the connection's state | registers mirror the stack; each direction is a byte pipe; a segment or an attempt ends |
| Floppy controller and drives (`fdc.c`, `disk.c`) | phase, execution buffer, result bytes, pending seek; drives, tracks in memory | command and data bytes, status reads, tick, insert, eject | disks swapped inside a command, writes that fail or tear, one drive's seek during another's command | the phase machine never gets stuck; memory is what the file holds; OK means stored |
| Interrupts (`gate_array.c`, `asic.c`, `v9990.c`, `cpc.c`) | R52 counter, ASIC requests, V9990 flags, CPU line, EI delay | HSYNC, VSYNC, RMR, PRI and DCSR writes, acknowledge, delivery | four sources on one line, a guest's write between two bus events | no request without a source; the vector names the source acknowledged; lines between requests |
| CRTC and frame (`crtc.c`, `display.c`) | counters and latches of six CRTC types | register writes, one character | writes at the very character that compares | counters stay within what the type allows; sync widths |
| Banking (`gate_array.c`, `mem.c`, `cartridge.c`) | configuration registers, page table | port writes, ROM select, RMR2 | three RAM expansions with one port, order of register writes | the page table is a function of the registers |
| ASIC (`asic.c`) | unlock position, sprites, DMA channels | unlock bytes, register page, DMA line | pause and loop counters, a list rewritten under way | a list ends or waits; requests come from lists |
| V9990 (`v9990.c`) | registers, VRAM, command engine | ports, command bytes | commands fed by the CPU byte by byte, aborted half way | transfer-ready and completion flags agree with the engine |
| Z80 (`z80.c`) | registers | one instruction | none beyond the opcodes | tests |
| PSG, PPI, matrix (`psg.c`, `ppi.c`, `kbd.c`, `joy.c`) | registers, key matrix | port access, host keys | several writers of one matrix | see inputs |
| Inputs (`paste.c`, `pilot.c`, `kbd_pty.c`) | held keys, queue, wait condition | tick, script command, free | two injectors and the user on the same key, a script stopped half way | a key pressed by an injector is released |
| Serial modems (`usifac.c`, `perryfi.c`) | rings, mode, sockets | ports, poll | full rings, blocked or closed sockets, redial | bytes in order, each once, or the line drops visibly |
| Storage (`ide.c`, `ch376.c`, `fat.c`, `m4.c`, `host_mount.c`) | task file, command parameters, open files, FAT cache | registers, sector and file transfers, image swap, host edit | failing sectors half way, erased open files, image swapped under open handles | allocated clusters belong to one file; success means stored |
| Tape (`tape.c`, `real_tape.c`) | position, block state; live ring | tick, play, stop | live input late or early | see serial |
| Snapshots (`snapshot.c`) | none | save, load | a load that fails half way | all or nothing |
| Run control (`cpc.c`, `cpc_breakpoint.c`, `monitor.c`) | pause, step, breakpoints, frame budget | frame, step, set, clear | stops within a frame | no cycle lost or repeated; a stop is where it was asked |
| Web service (`websvc.c`, `webgui.c`) | sessions, clients, streams | request, upload, sweep, frame | session rebuilt under its streams, idle sweep | no use of a session after its end |
| Monitor (`cpc.c`) | beam position, holds | a character's time, HSYNC, end of a picture | pulses that come early, late or never | the picture comes to stand; it always ends |
| Configuration and menu (`config.c`, `overlay.c`) | configuration, machine built from it, menu, pending boot and pickers | rows, pickers, save, discard, defaults, restart | rows that act at once beside rows that wait for a boot; boards that exclude each other | the machine is what the configuration says, now and after a restart |
| Printers, LEDs, helpers, browser port | | | formatting and user interface | not modelled |

They interact by direct calls within the loop: a guest's `OUT` reaches a board
through the port decoder of `cpc.c`; a board that has something for the guest
leaves it in a register or a ring for the guest's next `IN`, or, for the Gate
Array, ASIC and V9990, raises the CPU's line at the end of an instruction.

`PROJECT.json` lists the hazards line by line, with the properties that are
about them.

## 2. Modules

| Module | Role | Code |
|---|---|---|
| `N4cTcp` | one TCP socket: commands, registers, stack; open network | `n4c_stack.c`, `net4cpc.c` |
| `MCN4cTcp` | the alphabet of segments of the open network | |
| `N4cLink` | extends `N4cTcp` with a peer, a faulty wire and the driver's stream | peer and wire are external |
| `MCN4cLink` | the experiments run on the link | |
| `BytePipe` | abstract specification: one direction of a connection | what `net4cpc.c` promises a driver |
| `N4cTcp_proofs`, `N4cLink_proofs` | theorems about `N4cTcp` and `N4cLink`, with the refinement of `BytePipe` | |
| `Fdc`, `MCFdc` | controller, two drives, image files; its experiments | `fdc.c`, `disk.c` |
| `Fdc_proofs` | theorems about `Fdc` | |
| `NatFacts` | arithmetic the proofs share | |
| `CpcIrq` | every source of the CPU's interrupt, to the acknowledge | `gate_array.c`, `asic.c`, `v9990.c`, `cpc.c`, `z80.c` |
| `Fat` | the FAT volume: table, cached sector, directory, data; its operations as operators | `fat.c` |
| `M4Files` | the M4 board's file commands over `Fat` | `m4.c` |
| `FileStore` | abstract specification: files by name, descriptors | what the M4's file commands promise |
| `Ide` | the SymbiFace drive | `ide.c` |
| `Storage_proofs` | theorems about `Ide` and `Ch376`, within `MCStorage` | |
| `Ch376` | the Albireo's chip over `Fat`, and its mouse | `ch376.c` |
| `MCStorage` | the three storage boards, one at a time; the card images | |
| `Serial` | USIfAC interface and PerryFi modem | `usifac.c`, `perryfi.c` |
| `RunControl` | frame loop, breakpoints, monitor, cold boot | `cpc.c`, `cpc_breakpoint.c`, `monitor.c`, `main.c` |
| `Inputs` | every hand on the keyboard matrix | `kbd.c`, `joy.c`, `paste.c`, `kbd_pty.c`, `pilot.c` |
| `Web` | clients, sessions, streams, uploads | `websvc.c`, `webgui.c` |
| `Tape` | deck, bridge to a recorder, recording | `tape.c`, `real_tape.c` |
| `Snapshot` | saving and loading, with the debugger's data | `snapshot.c`, `remu.c` |
| `Settings` | configuration, menu, machine | `config.c`, `overlay.c`, `main.c`, `cpc.c` |
| `HostParts`, `MCControl`, `MCUsers` | `Serial` and `RunControl`; `Inputs` and `Web`: one at a time, over shared variables | |
| `MCHost` | these four and `Tape`, `Snapshot`, `Settings`, one at a time | |
| `Host_proofs` | theorems about `Serial` and `RunControl`, for `ControlSpec` | |
| `Users_proofs` | theorems about `Inputs` and `Web`, for `UsersSpec` | |
| `Memory` | banking, ROMs, cartridges, who answers a port | `mem.c`, `cartridge.c`, `gate_array.c`, `io_decode.h`, `cpc.c` |
| `Crtc` | the video controller, character by character | `crtc.c`, `snapshot.c` |
| `Beam` | the monitor's holds | `cpc.c` |
| `V9990` | ports, memory layouts and command engine | `v9990.c` |
| `MCMachine` | `CpcIrq`, `Memory`, `Crtc`, `Beam` and `V9990`, one at a time | |
| `Machine_proofs` | theorems about `CpcIrq`, `Memory` and `Crtc`, carried to `MCMachine` | |

Operators in `N4cTcp` under "Faulty variants", and those named `...Faulty` in
the other modules, are mistakes each property was tried on; no specification
uses them.

`MCStorage`, `MCHost` and `MCMachine` join parts that share no state: `board` or
`part` is chosen at first and says which of them moves.  A part's property is
named in the MC module (`SerialExact == part = "serial" => Serials!SerialExact`) and is the
conjunction of the named parts given in its own module.

### 2.1 N4cTcp: a socket of the Net4CPC board

`cb` is the control block `s_tcp[s]`, `reg` the socket registers the guest
polls (`Sn_SR`, `Sn_IR`, `TX_RD`, `TX_WR`, `TX_FSR`, `RX_RSR`), `rx` the unread
bytes of the RX ring, `arp` whether the ARP table has the next hop, `toPeer`
the frames on the TAP.  `await` belongs to the driver: it is set between a SEND
and its `SEND_OK` when the driver is one that waits (`WaitSendOk`).  A poll of
the stack is several steps: `handle_tcp(seg)` for each frame and `tcp_tick` at
the end; `polling` says one is under way, and the guest runs between polls
only, as in the main loop.  Actions are named after the code: `CmdOpen`,
`CmdListen`, `CmdConnect`, `CmdSend`, `CmdRecv`, `CmdDiscon`, `CmdClose`,
`ClearIr`, `SoftReset`.

Payload bytes are their positions in the sender's stream, so order, loss and
repetition can be told; headers and checksums are left out; ring pointers are
counters since OPEN because the code uses their differences only.  Sequence
numbers wrap at `SeqMod`.

LISTEN and CONNECT act on a socket in any state, as in the code: the stack asks
only whether the control block is in use, and the register says what the command
did even when the stack did nothing.  `Spec` leaves out the write of `MR.RST`;
`ResetSpec` has it.  A driver is taken to SEND on a socket it saw ESTABLISHED, no more than
`TX_FSR` has room for and, with `WaitSendOk`, one segment at a time.

### 2.2 N4cLink: a connection end to end

The peer is external.  It does what the stack relies on: it acknowledges
cumulatively, sends again what is not acknowledged, trims what it already has.
It may also vanish or reset.  The wire loses, copies and reorders segments; a
FIN is not copied by the wire, the peer may send it `MaxFins` times.  A
behaviour runs one record of `Trials`: who opens, bytes in each direction,
whether the peer holds its FIN until its data is acknowledged, whether it may
die, whether the next hop stays resolved, and what the wire does.  The
connection is followed until the stack drops the control block.  A driver that
gave LISTEN or CONNECT again in the middle of it would begin another, with other
sequence numbers: here it gives one of them once, on the socket it has just
opened (`GuestCommand`).

### 2.3 Fdc: controller, drives, images

`fdc` is the controller's structure, `drive` the two drives with the tracks
kept in memory, `file` the `.dsk` files of the host.  A command's parameters
are chosen when the last byte comes, since nothing looks at them before.  A
sector is its identifier and one unit of contents; an image has one side and
`TrackCount` tracks.  `disk_load` and `disk_eject` may come at any time, in the
middle of a command too.  A write goes to the file first; the host may refuse
it or break it off, which leaves `Torn` contents in the file.
`OneDrivePerImage` is an assumption about the user: an image is in one drive at
a time.  With the same file in both, each drive keeps a copy in memory and the
other's copy goes stale; `MirrorsFile` says nothing of that case.

### 2.4 CpcIrq: the interrupt line

The step of `cpc_frame` is split as `fetch` (`Accept` an interrupt or `Fetch`),
`run` (the guest's write, `Execute`, and the bus events, in any order, each once
an instruction) and `tail` (`Deliver`).  An instruction is what it does to
interrupts: EI, DI, RMR with the reset bit, PRI, DCSR, IVR, the V9990's enable
and flag ports.  `since` is history: lines since the last request or reset.
Whether the machine is a Plus is chosen at first.

Left out: interrupt modes, NMI, the time a HALT spends, `cpc_reset` and
`snapshot_load`.

### 2.5 Fat, M4Files and FileStore: files on a card

`Fat` has the functions of `fat.c` as operators from a volume to a volume: `fat`,
`dir` and `data` are the card, `sec`, `cache` and `dirty` the one sector of the
table kept in memory, `err` is `io_error`.  Each takes the set of the kinds of
sectors that fail while it runs (`fatR`, `dirW` and so on), so a function that
breaks off half way leaves what the code leaves.  A cluster is one sector of
`ClusterUnits` units; there is one directory, whose entries are found by name.

`M4Files` executes one command a step: `vol` is `image_vol` with the card,
`fds` the descriptors, `command` and `answer` the packet and the response.
`m4_reset` closes the descriptors, `m4_set_image` takes the card out or puts it
back, `Quit` ends the program without closing anything, as `cpc_destroy` does.
`seen` is history: a sector failed; a program quit with a file open for writing.

`FileStore` knows files by name with their contents and published length, and
descriptors with a position.  `M4Files` maps its directory and chains onto it:
`StoreFile` reads a file through its writer's handle if there is one.  Once a
sector has failed nothing more is promised; the chains must still be sound.

Assumed of programs: a file that is written has one descriptor (`OneWriter`),
for the code never looks at the others.  Assumed of the user: cards are changed
when no file is open (`SwapClosed`).  Left out: host directories, listings, raw
sectors, subdirectories, long names.

### 2.6 Ide: the SymbiFace drive

The task file (`count`, `lba`, `status`, `error`, `cmd`), the buffer of one
sector and the position of the data register in it, over an image whose reads
and writes may fail.  The guest gives commands, moves bytes, resets the drive and
changes its address registers in the middle of a transfer; the user changes the
image.  `first` and `moved` are history: the command's range and the bytes moved.
A sector that is written passes through the stream's buffer: `fwrite` may fail,
which the drive reports, or the host may refuse it at the `fflush`, which nobody
asks (`ide.c:49`).  The latter leaves status and error clean and the image as it
was; `unsaved` remembers such sectors.  The host takes all of a sector or none.

### 2.7 Ch376: the Albireo

The chip is used in one of three ways, by three drivers: files (UNIDOS), raw
sectors and a mouse (SymbOS); `use` says which.  A command with its parameters is
one step, and so is what is read from the data port; an interrupt is `int`, its
reading `intPending`.  `flow` is the state of the driver's protocol, which
decides what the chip's answers mean.  Listings, writes and renames go through
the operators of `Fat`, the same ones as the M4's.

A raw sector may be read short, which the code takes for a success (it looks for
`fread`'s 0 only, `ch376.c:705` and `734`): the rest of the buffer is what the last
sector left there.  One that is written may be refused at an `fflush` that nobody
asks (`793`).  `astray` remembers these sectors.

### 2.8 Serial: USIfAC and PerryFi

`u` is the interface with its rings, `p` the modem, `line` the host's end of the
pseudo terminal or socket, `hist` what was sent and received in each direction.
Bytes are numbered, so order, loss and repetition show; those the modem makes
up are 0.  An AT command is its length until its end, when it may be any
command.  The host's end connects, writes, finishes, leaves and refuses.

Over TCP the interface has one client at a time (`u.client`); whoever connects
meanwhile waits (`u.waits`) and may be gone when his turn comes.  A client that
left is not noticed by reading, nor by the first sends, which succeed: it is the
failing one that ends it, and until then the guest's bytes go nowhere and the next
client waits.  `poll_tcp` lets each write to somebody who left succeed or fail.

### 2.9 RunControl: who lets the CPU run

`cpu` is the CPU with the cycles it owes, `loop` the main loop with a boot asked
for, `bps` the set of breakpoints with the map of addresses built from them, `ui` the
monitor with its pager and the card browser.  A frame is `EnterFrame`, one `Instr`
at a time and `ExitFrame`; in between nothing of the user's is read, as in the
code.  An instruction goes to any address and may change what memory is visible.

### 2.10 Inputs: hands on one matrix

`keys` is the matrix; `ps`, `pl` and `o` are the paste, the pilot and the other
hands.  `Frame` runs the ticks in the order of the main loop.  Pasting, pilot
commands, pads and keys come between frames.  History in `o`: `stuck`, keys whose
holder forgot them; `text`, the texts pasted since a paste was last cut off, and
`typed`, the characters typed of them with their places; `sent` and `given`, what
the keyboard terminal got and what was pasted of it.

### 2.11 Web: clients and sessions

`cl` are the clients with their state machine, `se` the sessions' slots, `g`
the one machine of the web gui, `h` history.  `websvc` gives every visitor a
machine, `webgui` lends them the one on the desk; both share the client's code.
Reading a client and dispatching what is complete is one step, in any order among
clients.  A session is created, used, rebuilt by an upload of a configuration,
reaped for a newcomer and swept when idle; a send may fail at any time.

A request presses or lifts the stick, the buttons or, by its name, a key; `keys`
are down, `held` are the stick's and the buttons', which a leaving viewer and
`webgui_stop` lift, `named` those pressed by name, which nobody remembers
(`webgui.c:335`, `695`).  A configuration that arrives by upload destroys the
session's machine before the next is built.  If that fails the session goes on
with a cleared machine and a freed encoder (`websvc.c:747`): `h.failed` has its
cookie, and whatever runs its next frame or destroys it is undefined and may end
the service (`Crash`).

### 2.12 Tape: deck and recorder

`d` is the deck with its block, `r` the bridge to a recorder with its ring and
the capture, `file` the file written.  A pulse's length is a small number of
cycles; `cpc_advance_bus` lets some cycles pass, as many as an instruction takes.
`PlaysImage` compares the edges with `Heard`, which lays out the whole image from
where it was rewound to without the deck's state machine.

### 2.13 Snapshot

`m` is the machine, `d` the debugger's data, `files` what is on disk, `h` the
machines that were saved.  A save may break off at any part of the file.  Loaded
are files of this program and those of others: every version, cut short,
compressed past their block, with unknown chunks.  A file cut inside a chunk
fails; one cut exactly between two is taken for a whole one without the later
chunks (`snapshot.c:121`), and what is lost at the unchecked `fclose` is a file cut
anywhere.  The registers are one value,
memory a value per block of 64 KB.  What a load does to the video controller is
in `Crtc`, to the map in `Memory`.

### 2.14 Settings

`cfg` is the configuration, `live` the machine, `ui` the menu with its picker and
pending boot, `h.file` the saved file.  The handler of a row maps the three
together to what it leaves: what is changed at once, what waits for a boot, what
a picker still has to choose.  Constraints between
boards, the ROM slots with the boards that claim them, the disks with what is
autostarted from them and the models with their defaults are as in the code.
`Restart` ends the program and builds the machine from the file.

`config_save` says what the file may hold afterwards: what was written; what it
held before, if it could not be opened; nothing, which loads as the defaults, if
the host accepted the opening and not the bytes (no write is checked).  Of a file
cut short the model has the empty one.  Save ignores the result
(`overlay.c:3245`): the menu closes and boots all the same, and `h.unsaved` has
that the file is not what was saved.  The reset to defaults changes nothing when
the file cannot be opened (`2447`).

### 2.15 Memory

`m` has the map (RAM configuration, ROM latches, RMR2, snapshot and M4
overlays), `ga` the Gate Array's copy of the ROM bits.  An address is the
quarter it is in, and what a read finds is named (`Rom("cart", 3)`,
`Rom("ram", 4)`) and not stored.  `Out` and `In` send a byte to a port, so that
one that reaches two devices of the board reaches both.  `ReadDevice` and
`WriteDevice` are the decoder of the expansions.

### 2.16 Crtc and Beam

`Crtc` is `crtc_tick` in full: counters, latches, adjustment lines, pulses and
the differences between the types modelled (1 and 2 are run, the proof is for
any).  The widths of its counters are constants.  `h.pos` counts the characters
of the frame and gives the reference its place.  `Beam` is the
monitor with the code's own horizontal constants, fed by a source of lines that
changes in the middle of one.

### 2.17 V9990

`v` is the chip: ports, registers, memory of 32 bytes, palette, command with its
position.  A guest's program is a few register writes given together; before and
after it any port may be used.  `h` has a reference memory, to which a command is
applied with pixels packed by closed forms and no position to keep.

## 3. What the runs check

Run times are with two workers.  Deadlock is checked unless noted.

| Run | Specification, bounds | What it shows |
|---|---|---|
| `n4c_tcp` | `Spec`; sequence numbers modulo 2, MSS 2, rings of 2, one retry, 2 bytes written; any SYN, SYN+ACK, ACK, FIN (with 2 bytes or none) or RST with any numbers; LISTEN and CONNECT in any state; the TAP may fail; 1.6 million states | `StatusMirrorsStack`, `RxRingSound`, `TxRingSound`, `SendOkMeansAcked`, `EstablishedByHandshake`, `ClosedStaysClosed` |
| `n4c_link` | `LinkSpec`; modulo 16, 2 frames in flight each way; one direction at a time with loss, copies and reordering, both at once with loss and a next hop that comes and goes; 1.8 million states | `AckedBytesDelivered`, `EndsInStep` (room is given back only for bytes the peer has; each end expects a number the other sent or is about to send); each direction implements `BytePipe` (`ImplementsPipes`) |
| `n4c_live` | `LinkFair`; two-frame timer | `AttemptsResolve`: a segment is acknowledged or given up with loss and a peer that dies, a CONNECT ends on a wire that delivers; `SentArrives` on the latter |
| `n4c_ghost` | `ResetSpec` | violation of `ClosedStaysClosed`, finding 3 |
| `n4c_fin_reorder` | `LinkSpec`, a peer that sends FIN after unacknowledged data | violation of `AckedBytesDelivered`, finding 1 |
| `n4c_late_arp` | `LinkFair`, a next hop that resolves late | violation of `SynResolves`, finding 2 |
| `fdc` | two drives, images of one track with two sectors, sector numbers modulo 3, an execution buffer of 2 sectors, seven experiments; 542 000 states | `FsmSound`, `MirrorsFile`, `PendingSeekTrue`, `ProtectedFileUntouched`, `WriteOkStored`, `Served` |
| `machine` | *interrupts:* a counter of 5 with its half at 3, DMA channels 0 and 1, raster lines 1 and 2. *Memory:* three models, two sizes of RAM, three bytes to any of 24 ports, boots, resets, snapshots. *Video:* counters of 6 characters, 4 rows and 4 lines, pulses of up to 4, a screen of three rows of two lines of four characters, two writes at any clock and one snapshot. *Monitor:* the lines of the firmware, one character shorter and one longer, one change. *V9990:* every command and layout, four events. 1.9 million states | `LineIsRequest`, `RequestHasSource`, `VectorNamesAcknowledged`, `RequestsApart`, `TypeOK`; `MemorySound`, `CrtcSound`, `BeamSound`, `V9990Sound` |
| `storage` | *M4:* three clusters of two units, a table of two sectors, two directory entries, three descriptors, four opens, writes, seeks and erasures with any number of reads, closes, resets and card changes; one command may meet failing data or directory sectors. *IDE:* two sectors of two bytes, three commands. *Albireo:* a chunk of two units, a disk of two sectors of two parts, two file operations, three with sectors or the mouse | `VolumeSound` (`ChainsSound`, `NothingLeaks`), `StorageTypeOK`; `M4Files` implements `FileStore` (`ImplementsStore`); `DriveExact`, `FilesExact`, `AlbireoExact` |
| `albireo_rename` | the same | violation of `RenameKeepsFile`, finding 4 |
| `host` | three events each of the serial boards (rings of 3, a line of 2), run control (2 addresses, 2 views of memory, 2 breakpoints, 4 cycles a frame), inputs (waits of 1 or 2 frames) and the web service (2 clients, 1 slot, 2 sessions); two of the tape, four snapshots, two edits of the settings; 1.6 million states | `SerialExact`, `RunControlSound`, `InputsSound`, `WebSound`, `TapeSound`, `SnapshotSound`, `SettingsSound` |
| `pilot_tap` | the inputs of `host` | violation of `TapEnds`, finding 5 |

The properties of the joined runs, part by part:

- `SerialExact`: the host's bytes reach the guest in order, each once, and none
  taken from the socket is lost; the guest's leave in order, but for those a
  full ring, a failed write, a host that had left or the escape swallowed; the modem is on line only
  with a connection; rings hold what they have room for.
- `RunControlSound`: an armed breakpoint is never run over (`StopsFirst`); each
  call of `cpc_frame` ends with one picture and less than two pictures' cycles
  (`OnePicture`); an edited card boots cold before the guest runs (`BootFirst`).
- `InputsSound`: a key that is down has a holder who will lift it, but for those
  in `stuck` (`NothingForgotten`); of the texts pasted, each character that has a
  key is typed once and in order (`TypedInOrder`); what the terminal got is pasted
  or held, in order, in a buffer that does not overflow (`TerminalKept`).
- `WebSound`: a session counts its streams (`AttachedExact`), is not taken from
  under one (`SessionsLive`); requests are answered once and in order
  (`Answered`); only a session whose own configuration failed is left without a
  machine, and the service dies of no other (`MachinesBuilt`); a stopped gui leaves
  no key down but those pressed by name (`StoppedLetsGo`).
- `TapeSound`: the level turns exactly where the image says, however the cycles
  were cut up (`PlaysImage`); a capture whose writes did not fail is the signal
  since it began, to the bit (`Captured`).
- `SnapshotSound`: what was saved to its end comes back over any machine
  (`Restores`); after a load without an error each block is the last chunk's that
  names it, the dump's or blank, and only above a flat dump of a smaller machine
  the old program's (`NotMixed`); after one that failed it is known how far the two
  programs may be mixed, and a file of no known version changes nothing
  (`FailedLoad`); every ROM of seven bytes survives the run-length code, within the
  buffer the code allots (`CodecExact`).
- `SettingsSound`: with the menu closed the machine is what the configuration
  describes (`MachineIsConfigured`), and what a restart builds
  (`RestartsTheSame`); boards that exclude each other are not both on
  (`Exclusive`); autostart types a file of the disk in the drive (`TypesAFile`).
  `h.lost`, `h.unsaved` and `h.pack` name cases in which the code does otherwise,
  listed below with three more that the property tells apart.
- `MemorySound`: every quarter has fitted RAM behind it, unless the copy helper or
  a snapshot chose the bank (`Mapped`); the debugger's
  view is the CPU's (`VisibleAgrees`); two copies of the ROM bits agree
  (`MirrorAgrees`); a reset starts in the model's firmware
  (`FirmwareAfterReset`); computed layouts are the hardware's table, no two
  devices answer a port, an accepted cartridge is whole.
- `CrtcSound`: an undisturbed frame is the raster of the registers, whatever
  writes left the frame before (`FrameIsReference`, `SyncIsReference`; HSYNC of
  a frame no shorter than the longest pulse, which R0, R4 and R9 near 0 may
  give: a pulse left over from the writes outlasts it); frames
  never cease (`FramesGoOn`); an HSYNC latches the mode once (`ModeOnce`).
- `BeamSound`: the beam is in its range (`InRange`), no picture outlasts the hold
  (`HoldEnds`), a steady source comes to stand (`Stands`), and from the second on
  its pictures end with VSYNC (`PictureEnds`).
- `V9990Sound`: memory is the reference's; transfer flags, command and line agree.
- `DriveExact`, `FilesExact`: what the data port moved is what the sectors or
  the file hold, in place and length, and what a write reported as done, but for
  the very sectors of the drive that the host refused untold (`unsaved`).
- `AlbireoExact`: the chip's raw sectors likewise, part by part, but for those in
  `astray`: one sector read short or refused costs no other; the mouse's
  motion is neither lost nor doubled.

**Why the bounds are enough.**
*Socket:* the handlers compare sequence numbers for equality only, except the
acknowledgement test, which modulo 2 has below, equal and above; an open
network then offers every relation of a segment to the control block.  Two
bytes with an MSS of two is a full segment and a short one, a SEND beyond
the ring and a segment of which only a part fits.  What depends on numbers
that are not yet wrapped is on the link.  One retry gives both outcomes of a timer.  On the link the modulus is
larger than all sequence numbers used, so that old copies are told apart as with
2^32; a wrap is met in `n4c_tcp`.  There the peer sends no more than the ring
holds, and in `n4c_live` the TAP takes every frame: a segment longer than the free
part of the ring is `RxRingSound`'s, and the theorem's.  Two frames in flight let a copy meet its
original and a FIN meet data.
*Floppy:* two sectors are the least that gives a transfer that stops half way,
a missing sector, and one identifier twice on a track; modulo 3 a transfer wraps
past the last identifier.  Two images and one drive give every swap; two drives
and one image the move of a disk.  The buffer holds a whole track, so that its
limit (`fdc.c:398` and after) is not met.  `SPECIFY` is allowed in every experiment.
*Interrupts:* 52 and 32 are to the code what 5 and 3 are here: a period between
half and twice the half.  One of each bus event in an instruction is enough, for
the longest instruction is shorter than a line.  `Recent` cuts off histories
longer than the period, in which nothing new can happen to `since`.
*Storage:* the cards start where long histories would lead: blank; one free
cluster and a read-only file; a label and one entry in a directory of two, with
the remains of an erased file in a free cluster; full.  Four moves then suffice
to create, extend, truncate, erase and reopen, with the other descriptors
reading.  Reads fetch two units, a seek goes to the second cluster.
`StateView` leaves out of a state what no step depends on: the last command and
its answer, and `err`, which is reset before it is looked at; every step is
still compared with `FileStore`.  `ChainsSound` is not claimed for failing
sectors of the table or failing writes of the directory: an entry that cannot
be read counts as free (`fat.c:58`, `100`), and a chain that is freed before its
directory entry could be written stays named by it (`fat.c:583`, `590`).
*IDE and Albireo:* two sectors tell the first, the last and one beyond the end;
a count of 0, which asks for 256, asks for more than there are.  The Albireo's
image has a lost cluster, a label before its file and no entry to spare.
*Serial:* a ring of three fills and wraps with three bytes; a line of two is cut
short by the third.  *Run control:* two addresses and two views are a breakpoint
hit, one missed by its address and one by its bank; four cycles a frame let an
instruction end in it, at its end or beyond it.  *Inputs:* a hold of one frame is
started, aged and over; a click and a tap of two are met half way.  *Web:* two
clients meet in one slot, so a session is shared, reaped and refused.
*Tape:* three images have every kind of block, with bits unused, a pause and none.
*Snapshots:* two blocks are the 64 KB and the 128 KB of the machines; seven bytes
hold a run, a literal and an escape, and a run at the code's limit.
*Settings:* six files start with each of the boards that exclude others on, and
with the MX4 off; an edit that is undone takes two.  *Memory:* three steps are a mapping, what
disturbs it and a reset.  *Video:* three rows are a first, one
between and a last; one write leaves the frame in disorder and a second meets it so.  *V9990:* four events
start a command, interfere and go on with it.

**Deadlock.**  The link configurations switch it off, for a behaviour ends when
the stack drops the connection, and so do `MCHost.cfg` and `PilotTap.cfg`, where
each part stops at the bound on its events.

**Fairness.**  `LinkFair` asks that the frame loop go on polling
(`GuestTick`; `net4cpc_poll` is called once a frame whatever the guest does),
that a frame queued on the TAP be read (`GuestReceives`; the poll reads until
none is left) and that the peer read what reached it (`PeerReceives`, an
assumption about the peer).  Nothing is asked of the guest, of a lossy wire or of
ARP.  In `Fdc`, `Serves` and `fdc_read_status` are the guest's driver, which by
the manual polls the status register until ready and then moves a byte;
`fdc_tick` is called for the bus time of every instruction.  A controller nobody
serves may wait for ever, and may do so in the code.

### Findings

1. `n4c_stack.c:1141`: FIN is taken without looking at its sequence number, so a
   FIN behind a lost segment acknowledges bytes that never came, against the
   comment at line 1113 that the peer's retransmission will sort it out.  The
   guest is told `CLOSE_WAIT` and the tail of the stream is missing.
2. `n4c_stack.c:1195`: a SYN that could not be sent for want of a MAC address
   pins `snd_nxt` as though it had been sent; the next retry is not made and
   the socket stays in `SYNSENT` for ever, against the comments at 958 and 1177.
3. `net4cpc.c:745`: `MR.RST` clears the registers and leaves the stack's
   control blocks: a segment or a timer then writes the state of a socket that
   reads `CLOSED`.
4. `ch376.c:598`: DIR_INFO_SAVE writes an entry made from a name and a size only
   over the file's: after a rename, for which `fat.h:142` says it is used, the
   contents cannot be reached.
5. `pilot.c:507`: the count of a tap is 0 when the function that lifts the key
   asks whether it is above 0, so a tapped key stays down, against
   `docs/PILOT.md:64`.
6. `ch376.c:638`: the comment has FILE_OPEN and BYTE_WRITE append to an existing
   file.  FILE_OPEN opens it at position 0 and `fat_write` stores at the position,
   so its beginning is written over; a driver that appends must seek
   (BYTE_LOCATE).  `FilesExact` in run `storage` states and shows the latter.

Met while modelling, modelled as the code does it and with no run of their own:

- `n4c_stack.c:1127` and `1132` compare sequence numbers as plain `u32`, so a
  connection that crosses 2^32 may release or keep its buffer wrongly;
- a SEND whose frame the TAP refuses leaves `snd_nxt` behind the bytes it holds
  for retransmission (`n4c_stack.c:982` and `1210`); the next segment uses their
  sequence numbers again.  `n4c_tcp` has such failures, the link runs do not;
- a SYN+ACK, a FIN and a SYN once written are never sent again
  (`n4c_stack.c:1080`): when lost, `SYNRECV`, `FIN_WAIT`, `LAST_ACK` and
  `SYNSENT` last until the guest acts, so no liveness is stated for them;
- giving up on a segment raises `DISCON`, where `n4c_stack.h:145` speaks of
  `TIMEOUT`; a SEND longer than the MSS sends the first MSS bytes only
  (`n4c_stack.h:132`);
- a driver that goes by `TX_FSR` instead of `SEND_OK` may give a second SEND
  while a segment is out, which replaces the one retransmission buffer
  (`n4c_stack.c:972`); `SendOkMeansAcked` is stated for a driver that waits;
- a WRITE sent to one disk and committed after a swap goes onto the new one;
  missing sectors at the end of a WRITE, and data beyond the execution buffer,
  are not reported;
- a comment at `overlay.c:2456` speaks of flushing pending writes on eject; a
  write goes through to the file, so nothing is pending;
- a write past the end of a file that stores nothing, the card being full, still
  makes the file as long as the position (`fat.c:738`): reads find fewer bytes
  than the length says.  `FileStore` allows it;
- `fat_seek` never returns false, whatever `fat.h:130` says of positions that
  cannot be reached; `C_WRITE2` answers success when nothing was stored
  (`m4.c:1204`);
- RMR with bit 4 set takes the line from a pending DMA request, which keeps its
  bit in DCSR and is seen again only with the next request; a raster request the
  Gate Array makes on a Plus while another is pending is not remembered;
- the M4 handles that were open while the host edited the card are closed by
  the cold boot that follows (`main.c:1216`): their directory entries are written
  over the host's; a handle whose file was erased or whose card was changed
  writes to clusters that may be another's (`fat.c:753`, `m4.c:505`);
- a result code or echo that meets the modem's full ring is dropped; a second ATD
  leaves the first socket open (`perryfi.c:186`); a byte is taken from the
  USIfAC's ring before the write that may fail (`usifac.c:249`); a TCP client that
  left keeps the next one waiting and takes the guest's bytes with it until a send
  fails (`usifac.c:262`);
- the drive and the Albireo report a sector as written that the host refuses at
  the `fflush` (`ide.c:49`, `ch376.c:793`); the Albireo serves the rest of an older
  sector after a short read (`705`, `734`);
- a key pressed by name through the web gui stays down when the gui is stopped
  (`webgui.c:335`, `695`); an uploaded configuration that cannot be built leaves the
  visitor's session with a freed encoder, which its next frame uses
  (`websvc.c:747`, `1174`, `1084`);
- the monitor's `G` lets the machine run while a card is mounted on the host
  (`monitor.c:423`), which F10 and the pause key do not;
- a paste that replaces another, and a text freed, forget the key that is held
  (`paste.c:147`); it stays down until another hand or a reset lifts it;
- what `real_tape_record_stop` writes last is not asked for its result
  (`real_tape.c:281`): a capture that fails only there is reported as whole.
  `Captured` speaks of captures whose writes did not fail;
- a failed snapshot leaves the registers of one program over the memory of
  another; user breakpoints come back a second time as the snapshot's; host
  symbols become labels with each save; a file cut between two chunks loads
  without an error (`snapshot.c:121`);
- Save compares with the configuration found when the menu opened, though a row
  may have booted in between (`overlay.c:3247`); Discard restores the
  configuration and not the cards, disks and volume that were applied at once
  (`3285`); a cancelled picker of the Cyboard row leaves the configuration
  changed (`2090`), and the row turns on a second mouse against the comment at
  2000; a ROM put by hand into a slot that a board claims is the board's again
  after a restart; a disk swapped by the web gui leaves the autostart of the one
  before armed (`webgui.c:457`);
- a save that fails is not noticed: the menu closes, the machine boots as edited,
  and the next start has the old configuration, or the defaults (`overlay.c:3245`);
- with the MX4 off and on again in one visit to the menu, a serial board that was
  taken out stays in the machine until the boot, unheard while the MX4 is off; a
  slot that boards take or give up keeps its ROM until something else boots; the
  DD1 row loads AMSDOS on a Plus, which no boot does (`overlay.c:1943`,
  `cpc.c:1066`);
- the M4's stub over the lower ROM and the ROMs of a snapshot survive a reset and
  a cold boot (`m4.c:712`); the copy helper and a snapshot choose a bank without
  regard to the RAM fitted (`cpc.c:754`, `snapshot.c:287`); a cold boot goes on
  when a ROM or a cartridge cannot be loaded (`main.c:1334`);
- a picture may be longer than a frame's cycles, for the monitor allows 351
  lines, some 89 900 cycles (`MONITOR_MAX_VSYNC`).  After single steps, which leave
  a budget below a frame's, one call of `cpc_frame` may then end without its
  picture and its overrun lengthens the next (`cpc.c:1664-1677`).  `RunControl`
  has pictures of the nominal length or less (`FrameLen <= CyclesPerFrame`), and
  `OnePicture` is stated for those;
- R2 = 0 never starts an HSYNC; a snapshot's registers are not masked as written
  ones are (`snapshot.c:295`); without HSYNC the monitor's position grows without
  bound (`cpc.c:1372`) and overflows after some eight seconds; lines of 62
  characters are out of its hold;
- V9990: at 16 bits a pixel LMMC takes one byte for a pixel where LMCM gives two,
  and POINT returns the low byte; a write to port 2 during a read transfer
  replaces the byte to be read; the reset by port 7 keeps addresses, buffer and
  transfer flags (`v9990.c:1098`).

## 4. What is proved

The theorems are in modules of their own, for every value of the constants that
satisfies the named assumptions, none of which goes beyond the kind and sign of a
constant except where said.

**`N4cTcp_proofs`** (assumptions `NumAssumption`, `SetAssumption`,
`FlagAssumption`):

- `TypesAndRxRing`, for `ResetSpec`, and `TypesAndRxRingNoReset`, for `Spec`:
  `TypeOK` and `RxRingSound`.  They are proved together as `TypeRx`: that the
  ring is not overfilled needs `RX_RSR` to be its length, for the stack takes
  only what `BufSize - RX_RSR` allows, and the type of the length needs the type
  of the ring.  One lemma per kind of step.
- `StatusMirrors`: `StatusMirrorsStack`, from `StatusInv` (`TypeRx` and the
  property).  Two lemmas, `StreamEffect` and `HandshakeEffect`, say once what a
  handler does to the fields the later proofs look at.
- `OneOutstandingSegment`, which assumes `WaitSendOk`: `TxRingSound` and
  `SendOkMeansAcked`.  Neither is inductive alone: that a late acknowledgement
  frees no more than is written needs the buffer to be empty whenever SEND may
  be given, which needs `SEND_OK` to be down while it is not.  `SendInv` joins
  the two with `StatusInv`.
- `SocketLifeCycle`: `EstablishedByHandshake` and `ClosedStaysClosed` as action
  properties, from `StatusInv`: a segment is handled for a live control block
  only, and that one's state is `Sn_SR`.  `ClosedStaysClosed` names the three
  commands that may take a socket out of CLOSED: the code lets LISTEN and CONNECT
  do so as well as OPEN.
- `TypesSound`, `SendOkSound` and `Handshakes` restate single conjuncts.

**`N4cLink_proofs`**: the connection end to end, under `Orderly`, which names what
the code relies on and does not check: no sequence number of the connection
passes the modulus (`NoWrap`; `n4c_stack.c:1127` compares them as plain numbers,
and the hazard of that name is what happens otherwise), the TAP takes each frame,
the driver waits for `SEND_OK`, and the peer's FIN does not overtake its data
(`finWaits`; run `n4c_fin_reorder` and finding 1 show what happens otherwise).
Loss, copies, reordering, a peer that dies or resets, streams, ring sizes, MSS and
the number of segments in flight are any.

- `AcksFollowDelivery`: `AckedBytesDelivered`.  `EndsStayInStep`: `EndsInStep`.
- `LinkImplementsPipes`: each direction implements `BytePipe`; initial states map
  to initial states and each step to a write, a read or a stutter (`OutPipeStep`,
  `InPipeStep`).

All three come from `LinkInv`: while the control block lives there is a number `b`,
the guest's first data byte, by which every sequence number is an offset into a
stream (`Flow(b)`).  It says of the ends how their counters lie to each other
(`OutFlow`, `InFlow`), of every segment on either wire and of the retransmission
buffer that its bytes are those of the stream at its number (`OutBytes`,
`InBytes`), which is what lets a copy or a late segment do no harm, and of the FIN
that those counted and in flight were sent (`FinBudget`): each FIN moves the
guest's expected number whatever its place, which must not make it acknowledge
past the stream.

**`Fdc_proofs`** (`SizeAssumption`, `ValueAssumption`): all but `Served`.

- `ControllerSound`: `FsmSound`, from `Inv`.  `FdcOk` ties the phase to the
  positions: a buffer being written has what came so far, of the command's kind;
  a command's counter is short of its length; a delayed result has not been read
  from.  `DiskInv` keeps each drive a disk whose track identifiers are distinct.
- `SeeksTrue`: `PendingSeekTrue`, for a swap during a seek too.
- `FilesUntouched`: `ProtectedFileUntouched`, an action property.
- `DisksMirrorFiles` and `WritesStored`, which assume `OneDrivePerImage`:
  `MirrorsFile` and `WriteOkStored`.  They need that no two drives hold one image
  (`Apart`), and that memory and file agree for disks that may be written
  (`Mirror`), joined as `Alike`; `WriteOkStored` then follows from the last write
  of a command with its sectors distinct (`EndsWellStored`).

**`Machine_proofs`** (`CounterAssumption`: `Half < Period <= 2 * Half`, true of
32 and 52; `SourceAssumption`; `MemoryAssumption`: RAM comes in blocks of 64 KB,
what is written to a port is a byte; `CrtcAssumption`: the counters have a width,
a register holds what `crtc_masked_reg_value` leaves of a write, and the machine is
switched on with something displayed; `HoldAssumption`: the vertical hold ends):

- `Types`: `TypeOK`.
- `Spacing`: `RequestsApart`, from `CountInv`: the counter never exceeds the
  lines passed since the last request or reset.  A request then needs a whole
  period, or a VSYNC that finds the counter at `Half` or beyond; an acknowledge
  only lowers the counter.  The property alone is no invariant of a state: it
  says nothing of the counter between two requests.
- `LineHeld`: `LineIsRequest`, from `LineInv`, which says what the CPU's line and
  the flag are in the middle of a step too.
- `SourceNamed`: `RequestHasSource`, from `SourceInv`, which adds that a flag
  waiting to be delivered has its source already.
- `VectorSound`: `VectorNamesAcknowledged`, an action property, from `SourceInv`.
- `InterruptsHold`: `MachineSpec` implements `CpcIrq`'s specification, so the five
  hold of what the run checks.
- `MemoryHolds`: `MemorySound`, from `MapInv`.  A bank, unless the helper or a
  snapshot chose it, has its whole block fitted (`Fits`, which needs RAM in whole
  blocks: a program that names a block that is not there gets the first); the
  register page pushes the lower ROM back to quarter 0, which is why it hides no
  ROM; a map with the ASIC has page 0 of a cartridge.  `OfModel` and `Fresh` are
  what a cold boot and a reset leave of the program before.  The two tables, the
  decoder and the cartridge are proved for every bank, port and file: the chunks
  of a file by the first that breaks `InOrder`.
- `VideoHolds`: `CrtcSound`, from `VideoInv`.  Its parts, after the types:
  `ModeInv` counts the latches of a pulse that goes on.  `RankInv` has the clocks
  a frame may still take (`ClocksLeft`, with the comparators missed): a tick
  lowers it, a write or a load adds one full run at most.  `FrameInv` puts
  the controller at its clock of the frame, and is what division by the length of
  a line and the height of a row turns into `FrameIsReference`.  `VInv` and
  `HInv` follow the pulses: after writes one may be under way that no register
  explains, and they say how soon it is over, which is why the property waits for
  the second frame.  The arithmetic of the places (products, quotients) is in
  `NatFacts`.  The proof is what showed that HSYNC's place needs a frame as long
  as the longest pulse; the run's screens are too few to have told.
- `BeamHolds`: `InRange` and `HoldEnds`, from `BeamInv`, with a lemma for each
  function of the monitor.  `HoldEnds` speaks of the first clock of a line, where a
  new source may be met at once: it lasts because a source is exchanged only at
  the end of a line, where the hold has just had its say.

**`Storage_proofs`** (`DriveAssumption`; `ChipAssumption`: a sector has parts, a
disk sectors, a mouse report a range): `DriveSound` is `SectorsExact` for any
size of sector, any image and any sequence of commands.  `IdeInv` splits what was
moved into whole sectors and the part of one that the position in the buffer
counts (`Transfer`, `Progress`); that the two make up the range asked for is a
fact about division, `SplitLength`.  Sectors the host refused untold are in
`unsaved`, and a sector once there can only be told wrong itself.  `DriveStaysExact` carries it to
`StorageSpec`, where the other boards leave the drive alone: `DriveExact`.
`AlbireoHolds` is `AlbireoExact`, from `AlbireoInv`.  The property says where the
parts moved must be on the disk and nothing of the chip's buffer, so it is not
inductive: what the buffer, its position and the two flags mean depends on which
transfer was begun last (`flow`).  For a read (`ReadOn`) the buffer is the sector
at the chip's address and the position counts the parts of it that were taken; for
a write (`WriteOn`) the buffer up to the position is the tail of what the guest
filled, which no sector holds before `Commit`.  `RawCount` has that a transfer
that may go on has sectors left.  A write changes one sector of the disk, so the
parts stored before stay theirs only because each has its own place, by quotient
and remainder (`PlaceOf`, `HasPlace`, from `NatFacts`).  A sector cut short or
refused untold is put in `astray`, which gains no other one; of the
buffer of such a sector the proof asks nothing.

**`Host_proofs`** (`RunsAssumption`, `SerialsAssumption`) is about `ControlSpec`, and
`Users_proofs` about `UsersSpec`: they have the steps of two parts and leave the
others free.  `MCHost`'s `Spec` is the conjunction of these and of the remaining
parts, so what they promise it promises.  `RunControlHolds` is `RunControlSound`, from
`RunInv`: the map of addresses has each armed breakpoint's (`BpsSound`); a program
that stands on an armed breakpoint has stopped there or somebody moved it or the
breakpoint (`StopKnown`); what a call has done and what the picture still needs
are no more than one picture (`OnTime`); a card that was edited is the host's
still, or a boot is due (`BootDue`).  `OnTime` is why the bound of `OnePicture` is
two pictures and no more.
`SerialHolds` is `SerialExact`, from `SerialInv`.  Neither direction is inductive by
itself: what was read and what waits in the ring of whoever serves the guest are
the bytes taken from the host (`Guest`), and these only keep their order because
those still on the wire are numbered on from them (`OnWire`); what the host got
and what waits for it are the bytes written, but for the lost (`HostEnd`).  The
interface's own ring for the host is empty while a modem is plugged in
(`InOrder`), or the modem's bytes would overtake those in it.  Every operation cuts or
joins these sequences: `ConcatRising` says when a joined sequence is in order,
`Cut` what is missing after a piece was taken out of one, and `Arrived` and `Went`
apply them to a poll.  Bytes sent to a client that had left are among the lost.

**`Users_proofs`** (`UsersAssumption`: frame counts and sizes are numbers, texts
are sequences, a script asks for keys of row 9).

`InputsHold` is `InputsSound`, from `HandInv`, which has three parts.  `Fine`
follows the text: the paste stands at a character that has a key whenever it holds
one, what is left of it lies at the end of the texts pasted, every character passed
that has a key was typed, in order and at its place, and the terminal's text is what
was pasted, kept and still on the wire.  `TypedInOrder` is not inductive without the
first of these: a key is lifted by looking up the character at the position, so that a
position that had moved would type another.  `Held` gives each key that is down its
hand.  It holds between frames with `Own`, the keys the pilot holds, but not within
one: a command of the pilot may end a hold whose key only the tick after it lifts,
and `Row`, all the keys it may have down, stands in until then.  There is a
lemma for each tick of a `Frame`, in the order of the main loop (`PtyTick`, `Applies`,
`PostFrame`, `PasteTick`, `ScriptTick`), and for each command.

`WebHolds` is `WebSound`, from `WebInv`: `Good(World)`, which has a lemma for each
operation on a world of clients, sessions, gui and history, and `Quiet`, what a
stopped gui leaves.  `AttachedExact` counts clients, and a count is right after one
of them left only if that one was counted once: hence that a client watches a
session that is there (`Live`) and only its own.  A session is taken
from its visitor only when its count is 0, so that no client can be left watching what
was destroyed, and this needs the counts to be exact.  `MachinesBuilt`
is inductive once it is said of each session: what has no machine failed by its own
upload, and `h.failed` only grows.  That
requests are answered once and in order rests on what each client was told
and what it still has coming (`Told`): a request in pieces is answered with its
last, and a stream's header comes before its parts, which go out whole.

**`NatFacts`** has what would else be inductions: a nonempty set of numbers has a
least element, a bounded one a greatest, which does the work for a predicate
written as a set (the next sector of a track, the last byte written).  It also
has that quotient and remainder are unique, and counters that wrap.

**Only model-checked.**

- Liveness (`AttemptsResolve`, `SentArrives`, `Served`) needs fairness and
  `ENABLED`, beyond the prover.
- `M4Files` with its refinement of `FileStore`, the files of `Ch376`
  (`FilesExact`), `Tape`, `Snapshot` and `V9990`: their properties are about what
  a fold computes (following a chain of clusters, laying out an image's pulses,
  run-length code, a block of pixels), for every length of the data.  That is
  induction over data, and the library's induction theorems take an operator the
  provers cannot instantiate.
- `VolumeSound` and `StorageTypeOK`, for the same reason: a cluster is in use
  when a fold along a chain reaches it.
- `Settings`: its rows and boards are finite in the code as well, and the run meets
  every pair of edits; a theorem would be the same enumeration.
- `Stands` and `PictureEnds` of `Beam`: that a steady source comes to stand is
  about how a loop of corrections converges, a liveness property in the guise of
  a bound.

## 5. What is not modelled, and the plan

The Z80's opcodes, rendering, sound synthesis, printers, the clock, LEDs, symbol
tables and the browser port hold no protocol a model checker would add to: they
are functions of their inputs, or user interface.  Of the parts that are
modelled, left out are:

- Net4CPC and M4 sockets on the host's own stack, UDP and raw sockets, and the
  byte order in which a driver writes the 16-bit registers;
- the ASIC's DMA lists (`CpcIrq` lets a channel ask for an interrupt at any
  HSYNC) and the bytes of the unlock sequence (`Memory` toggles the lock);
- subdirectories, long names, host directories and listings of the M4;
- the host's mount of a card: its one effect on the machine is in `RunControl`
  (an edit asks for a cold boot), what it does to open files is noted above;
- the interrupt line after a snapshot was loaded;
- malformed disk, tape and configuration files, HTTP's grammar, conditions of
  breakpoints.

What is left is to prove what a fold computes (chains of clusters, pulses,
run-length code, blocks of pixels), should induction over data come into the
provers' reach; `VolumeSound` and the exclusions of `Settings` would be next.
