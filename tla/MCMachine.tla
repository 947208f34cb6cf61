----------------------------- MODULE MCMachine ------------------------------
(* The parts of the machine behind the CPU: its interrupts, the memory     *)
(* map, the video controller, the monitor and the V9990.  Each is run on   *)
(* its own: the interrupts over the variables of CpcIrq, the others over   *)
(* three shared ones; part says which.                                     *)
EXTENDS CpcIrq, Sequences

CONSTANTS
    Parts, MaxSince,                \* the parts run; bound on CpcIrq's history
    Models, RamPages, GaBytes, RomSelects, RomSlots, Groups, Highs, PageSize, MaxMapEvents,
    Cartridges, Ports, CardSets,    \* of Memory
    HMod, VMod, RMod, MaMod, HswMod, VswMod, Cutoff, MinVsyncHend, CrtcTypes, PowerOn, Writes,
    MaxWrites, MaxLoads,            \* of Crtc
    LineSources, MinVhold, MinVsync, MaxVsync, Phases, Settle, Watch, Tolerance,
    MaxDisturb,                     \* of Beam
    GuestPrograms                   \* of V9990

VARIABLES part, v1, v2, v3

-----------------------------------------------------------------------------
(* Cartridges: two well formed, of one bank and of two; cut short; with a  *)
(* chunk of no bank; longer than their length says.                        *)
Cartridge(riff, bytes, chunks) == [riff |-> riff, bytes |-> bytes, chunks |-> chunks]
Chunk(page, size) == [page |-> page, size |-> size]
MCCartridges ==
    {Cartridge(16, 24, <<Chunk(0, 4)>>), Cartridge(26, 34, <<Chunk(0, 4), Chunk(1, 1)>>),
     Cartridge(26, 33, <<Chunk(0, 4), Chunk(3, 1)>>), Cartridge(14, 22, <<Chunk(-1, 2)>>),
     Cartridge(30, 40, <<Chunk(0, 4)>>)}
(* one port of every device, by the high byte and the low one *)
MCPorts == {<<127, 0>>, <<126, 0>>, <<119, 0>>, <<223, 0>>, <<95, 0>>, <<251, 126>>, <<251, 208>>, <<250, 126>>,
          <<254, 128>>, <<254, 64>>, <<254, 0>>, <<255, 96>>, <<255, 0>>, <<252, 0>>, <<253, 6>>, <<253, 16>>,
          <<253, 20>>, <<253, 21>>, <<253, 32>>, <<253, 48>>, <<253, 62>>, <<188, 0>>, <<244, 0>>, <<239, 0>>}
MCCardSets == {{"mx4", "m4", "v9990", "usifac", "ide", "rtc", "net4cpc", "symbiface_mouse", "symbnet"},
             {"mx4", "albireo", "albireo_mouse", "v9990"}}
Banks == INSTANCE Memory WITH
    Selects <- RomSelects, Cards <- CardSets, Slots <- RomSlots, MaxEvents <- MaxMapEvents,
    m <- v1, ga <- v2, h <- v3

-----------------------------------------------------------------------------
(* A screen of three rows of two lines of four characters, two writes at   *)
(* any clock and one snapshot loaded.                                      *)
MCPowerOn == [r \in {0, 1, 2, 3, 4, 5, 6, 7, 9, 12} |->
               CASE r = 0 -> 3 [] r \in {1, 2, 4, 6} -> 2 [] r = 3 -> 4 * 1 + 2
                 [] r \in {7, 9} -> 1 [] r = 5 -> 0 [] OTHER -> 5]
MCWrites == {<<0, 2>>, <<1, 0>>, <<3, 4 * 2 + 3>>, <<4, 0>>, <<5, 2>>, <<7, 2>>, <<9, 0>>, <<12, 9>>}
Video == INSTANCE Crtc WITH Types <- CrtcTypes, c <- v1, h <- v2

-----------------------------------------------------------------------------
(* The lines of the firmware, one character shorter and one longer, the    *)
(* pulse at the right and at the left; the height is scaled.               *)
Source(line, start, end, lines) ==
    [line |-> line, start |-> start, end |-> end, lines |-> lines, sync |-> 2]
MCLineSources == {Source(64, 49, 53, 12), Source(63, 49, 53, 12), Source(65, 10, 14, 14)}
Monitor == INSTANCE Beam WITH Sources <- LineSources, mon <- v1, s <- v2, h <- v3

-----------------------------------------------------------------------------
(* Layouts of every kind and depth; every command on a block of three by   *)
(* two pixels, and on one drawn backwards with its width left at 0; the    *)
(* address counters, running and stopped; a mask on half of the planes.    *)
Layout(kind, bpp) == <<6, [kind |-> kind, bpp |-> bpp, width |-> 8]>>
BlockCommand(command, nx, ny, direction) ==
    << <<32, 7>>, <<34, 0>>, <<36, 1>>, <<38, 1>>, <<40, nx>>, <<42, ny>>, <<44, direction>>, <<45, 12>>,
       <<46, 65535>>, <<48, 11>>, <<50, 6>>, <<52, command>> >>
MCGuestPrograms ==
    {BlockCommand(c, 3, 2, 0) : c \in {1, 2, 3, 4, 5, 13, 14}}
    \cup {BlockCommand(c, 0, 1, 12) : c \in {1, 2, 3, 4, 5, 13, 14}}
    \cup {<<Layout("P2", 2)>>} \cup {<<Layout("B", bpp)>> : bpp \in {4, 16}}
    \cup {<< <<0, 3>>, <<1, 1>>, <<2, 0>>, <<3, 3>>, <<4, 1>>, <<5, 0>>, <<9, {"command"}>> >>,
          << <<46, 255>>, <<45, 22>>, <<52, 15>> >>, << <<2, 129>>, <<5, 128>> >>, << <<13, 16>>, <<14, 2>> >>}
Card == INSTANCE V9990 WITH
    Size <- 32, Radix <- 4, PlaneX <- 8, FullX <- 5, FullY <- 2, Limit <- 7, Colours <- 8,
    Programs <- GuestPrograms, MaxEvents <- 4,
    Selects <- {[reg |-> 5, keepRead |-> TRUE, keepWrite |-> FALSE],
                [reg |-> 63, keepRead |-> FALSE, keepWrite |-> FALSE]},
    v <- v1, h <- v2

ASSUME MapAssumption == Banks!MemoryAssumption
ASSUME VideoAssumption == Video!CrtcAssumption
ASSUME HoldAssumption == Monitor!BeamAssumption
ASSUME CardAssumption == Card!V9990Assumption

-----------------------------------------------------------------------------
shared == <<v1, v2, v3>>
allVars == <<part, vars, shared>>

IrqAtRest == Init /\ ~plus
MachineInit ==
    /\ part \in Parts
    /\ \/ part = "irq" /\ Init /\ v1 = 0 /\ v2 = 0 /\ v3 = 0
       \/ part = "memory" /\ IrqAtRest /\ Banks!Init
       \/ part = "crtc" /\ IrqAtRest /\ Video!Init /\ v3 = 0
       \/ part = "beam" /\ IrqAtRest /\ Monitor!Init
       \/ part = "v9990" /\ IrqAtRest /\ Card!Init /\ v3 = 0

(* these parts stop at the bound of their events; interrupts and video go on *)
Bounded == part \in {"memory", "beam", "v9990"} /\ UNCHANGED shared

MachineNext ==
    /\ part' = part
    /\ \/ part = "irq" /\ Next /\ UNCHANGED shared
       \/ part = "memory" /\ Banks!Next /\ UNCHANGED vars
       \/ part = "crtc" /\ Video!Next /\ UNCHANGED <<vars, v3>>
       \/ part = "beam" /\ Monitor!Next /\ UNCHANGED vars
       \/ part = "v9990" /\ Card!Next /\ UNCHANGED <<vars, v3>>
       \/ Bounded /\ UNCHANGED vars

MachineSpec == MachineInit /\ [][MachineNext]_allVars

Recent == since <= MaxSince

(* mem.c, cartridge.c, cpc.c: every quarter has fitted memory behind it,   *)
(* the debugger's view is the CPU's, a reset starts in the firmware of the *)
(* model, no two devices answer a port, a cartridge is loaded whole.       *)
MemorySound == part = "memory" => Banks!MemorySound
(* crtc.c: with the registers left alone, frame, rows and pulses are those *)
(* of a 6845; whatever is written, frames go on and a line latches the     *)
(* mode once.                                                              *)
CrtcSound == part = "crtc" => Video!CrtcSound
(* cpc.c, cpc_monitor_*: the beam stays in its range, a stable source      *)
(* comes to stand, and a picture always ends.                              *)
BeamSound == part = "beam" => Monitor!BeamSound
(* v9990.c: memory is what the commands, run at once, would have left; the *)
(* transfer flags agree with the command's state; so does the line.        *)
V9990Sound == part = "v9990" => Card!V9990Sound
=============================================================================
