----------------------------- MODULE RunControl -----------------------------
(***************************************************************************)
(* Who lets the CPU run: the main loop (main.c) with its cold boot, the    *)
(* cycle budget of cpc_frame (cpc.c), the breakpoints (cpc_breakpoint.c),  *)
(* the monitor's commands (monitor.c) and the card browser of F10.         *)
(*                                                                         *)
(* One step is an event, a boot, the entry of cpc_frame, one instruction   *)
(* or its exit.  An instruction goes anywhere and may change what memory   *)
(* is visible; the host's end of a mounted card is HostEdits.              *)
(***************************************************************************)
EXTENDS Integers, FiniteSetsExt

CONSTANTS
    Addrs,          \* addresses; the CPU starts at 0
    Views,          \* a visible bank, of RAM or ROM
    CyclesPerFrame,
    Times,          \* cycles of an instruction
    FrameLen,       \* cycles of a monitor frame: at most CyclesPerFrame,
                    \* and longer than an instruction
    PageRows,       \* OUT_ROWS - 1
    MaxItems, MaxEvents     \* bounds: breakpoints, events from outside

RunControlAssumption ==
    /\ 0 \in Addrs /\ Views # {} /\ "any" \notin Views
    /\ {CyclesPerFrame, PageRows} \subseteq Nat \ {0}
    /\ FrameLen \in 1 .. CyclesPerFrame /\ Times \subseteq 1 .. FrameLen

VARIABLES
    cpu,    \* pc, the visible bank, cycles left of the monitor frame
    loop,   \* cpc_frame: where the main loop is, and its locals and CPC fields
    bps,    \* items (their order shows in listings only), address_map,
            \* snapshot_breakpoints, next_id
    ui      \* monitor page and lines to show, mount, cold boot, and history:
            \* whether the guest may run on what it had cached, whether it
            \* stopped where it is, whether its stops changed since, events

vars == <<cpu, loop, bps, ui>>

Start == [pc |-> 0, view |-> CHOOSE v \in Views : TRUE, beam |-> FrameLen]

Init ==
    /\ cpu = Start
    /\ loop = [at |-> "events", paused |-> FALSE, step |-> FALSE, debt |-> 0, target |-> 0,
               done |-> 0, stepping |-> FALSE, stop |-> FALSE, pictures |-> 0]
    /\ bps = [items |-> {}, map |-> {}, snap |-> TRUE, nextId |-> 0]
    /\ ui = [paging |-> FALSE, lines |-> 0, mounted |-> FALSE, boot |-> FALSE, stale |-> FALSE,
             stopped |-> FALSE, changed |-> FALSE, n |-> 0]

-----------------------------------------------------------------------------
(* cpc_breakpoint.c *)

rebuild_address_map(items) == {b.addr : b \in {c \in items : c.armed}}
WithItems(items) == bps' = [bps EXCEPT !.items = items, !.map = rebuild_address_map(items)]
FindItem(id) == {b \in bps.items : b.id = id}

(* the first identifier above the last one given that is free, around 0 *)
allocate_id ==
    LET Used == {b.id : b \in bps.items}
        Around(k) == 1 + ((bps.nextId + k - 1) % (MaxItems + 1))
    IN  Around(Min({k \in 1 .. MaxItems + 1 : Around(k) \notin Used}))

Armed(items, on) == {[b EXCEPT !.armed = on] : b \in items}

cpc_breakpoint_add(addr, where, source) ==
    LET same == {b \in bps.items : b.source = source /\ b.addr = addr /\ b.where = where}
        armed == source # "snapshot" \/ bps.snap
        new == [id |-> allocate_id, addr |-> addr, where |-> where, source |-> source,
                armed |-> armed]
    IN  IF same # {}
        THEN WithItems((bps.items \ same) \cup Armed(same, armed))
        ELSE /\ Cardinality(bps.items) < MaxItems
             /\ bps' = [bps EXCEPT !.items = @ \cup {new}, !.nextId = new.id,
                                   !.map = IF armed THEN @ \cup {addr} ELSE @]

cpc_breakpoint_clear(id) == FindItem(id) # {} /\ WithItems(bps.items \ FindItem(id))
cpc_breakpoint_clear_source(source) == WithItems({b \in bps.items : b.source # source})
cpc_breakpoint_set_armedFaulty(id, armed) ==     \* the map is not rebuilt
    /\ \E b \in FindItem(id) : b.armed # armed
    /\ bps' = [bps EXCEPT !.items = (@ \ FindItem(id)) \cup Armed(FindItem(id), armed)]
cpc_breakpoint_set_armed(id, armed) ==
    /\ \E b \in FindItem(id) : b.armed # armed
    /\ WithItems((bps.items \ FindItem(id)) \cup Armed(FindItem(id), armed))

cpc_set_snapshot_breakpoints(on) ==
    LET theirs == {b \in bps.items : b.source = "snapshot"}
        items == (bps.items \ theirs) \cup Armed(theirs, on)
    IN  bps' = [bps EXCEPT !.items = items, !.snap = on, !.map = rebuild_address_map(items)]

breakpoint_matches(b, c) == b.armed /\ b.addr = c.pc /\ b.where \in {"any", c.view}
cpc_breakpoint_match(c) ==
    c.pc \in bps.map /\ \E b \in bps.items : breakpoint_matches(b, c)

-----------------------------------------------------------------------------
(* The monitor's pages: a listing of n lines stops after PageRows of them, *)
(* and until a key continues it every other line typed is dropped.         *)
RunPage(n) == [ui EXCEPT !.paging = n > PageRows,
                         !.lines = IF n > PageRows THEN n - PageRows ELSE 0]
Quiet(e) == ui.n < MaxEvents /\ ui' = [e EXCEPT !.n = @ + 1]
NotPaging == loop.at = "events" /\ ~ui.paging

MonitorList == /\ NotPaging /\ \E n \in 1 .. 2 * PageRows : Quiet(RunPage(n))
               /\ UNCHANGED <<cpu, loop, bps>>
MonitorContinue == /\ loop.at = "events" /\ ui.paging /\ Quiet(RunPage(ui.lines))
                   /\ UNCHANGED <<cpu, loop, bps>>
MonitorBreak ==
    /\ NotPaging
    /\ \/ \E a \in Addrs, w \in Views \cup {"any"} : cpc_breakpoint_add(a, w, "user")
       \/ \E id \in 1 .. MaxItems + 1 : \/ cpc_breakpoint_clear(id)
                                        \/ \E on \in BOOLEAN : cpc_breakpoint_set_armed(id, on)
    /\ Quiet([ui EXCEPT !.changed = TRUE]) /\ UNCHANGED <<cpu, loop>>
MonitorStep == /\ NotPaging /\ loop.paused /\ ~loop.step
               /\ loop' = [loop EXCEPT !.step = TRUE] /\ Quiet(ui) /\ UNCHANGED <<cpu, bps>>
MonitorGo == /\ NotPaging /\ loop.paused
             /\ loop' = [loop EXCEPT !.paused = FALSE] /\ Quiet(ui) /\ UNCHANGED <<cpu, bps>>

(* The overlay's switch, and a snapshot with breakpoints of its own (what  *)
(* else one restores is in Snapshot).                                      *)
SnapshotSwitch == /\ loop.at = "events" /\ cpc_set_snapshot_breakpoints(~bps.snap)
                  /\ Quiet([ui EXCEPT !.changed = TRUE]) /\ UNCHANGED <<cpu, loop>>
SnapshotLoaded ==
    /\ loop.at = "events" /\ \/ cpc_breakpoint_clear_source("snapshot")
                             \/ \E a \in Addrs : cpc_breakpoint_add(a, "any", "snapshot")
    /\ \E pc \in Addrs : cpu' = [cpu EXCEPT !.pc = pc]
    /\ Quiet([ui EXCEPT !.changed = TRUE]) /\ UNCHANGED loop

-----------------------------------------------------------------------------
(* main.c *)

Reset == cpu' = Start
Restarted(l) == [l EXCEPT !.debt = 0]

(* F5 *)
KeyReset == /\ loop.at = "events" /\ Reset /\ loop' = Restarted(loop)
            /\ Quiet([ui EXCEPT !.changed = TRUE]) /\ UNCHANGED bps

(* F10: the guest is held while the host has the card, and booted after *)
F10Open ==
    /\ loop.at = "events" /\ ~ui.mounted
    /\ \/ loop' = [loop EXCEPT !.paused = TRUE] /\ Quiet([ui EXCEPT !.mounted = TRUE])
       \/ loop' = [loop EXCEPT !.paused = FALSE] /\ Quiet(ui)       \* nothing to mount
    /\ UNCHANGED <<cpu, bps>>
F10Close == /\ loop.at = "events" /\ ui.mounted
            /\ loop' = [loop EXCEPT !.paused = FALSE]
            /\ Quiet([ui EXCEPT !.mounted = FALSE, !.boot = TRUE]) /\ UNCHANGED <<cpu, bps>>
HostEdits == /\ ui.mounted /\ ~ui.stale /\ ui' = [ui EXCEPT !.stale = TRUE]
             /\ UNCHANGED <<cpu, loop, bps>>

(* a setting of the overlay that needs the machine rebuilt *)
AskBoot == /\ loop.at = "events" /\ ~ui.boot /\ Quiet([ui EXCEPT !.boot = TRUE])
           /\ UNCHANGED <<cpu, loop, bps>>

(* the end of the events: a cold boot if one is due *)
Tick ==
    /\ loop.at = "events"
    /\ IF ui.boot
       THEN /\ Reset /\ loop' = [Restarted(loop) EXCEPT !.at = "frame"]
            /\ ui' = [ui EXCEPT !.boot = FALSE, !.stale = ui.mounted /\ @, !.changed = TRUE]
       ELSE loop' = [loop EXCEPT !.at = "frame"] /\ UNCHANGED <<cpu, ui>>
    /\ UNCHANGED bps

-----------------------------------------------------------------------------
(* cpc_frame *)

EnterFrame ==
    LET budget == CyclesPerFrame + loop.debt
    IN  /\ loop.at = "frame"
        /\ IF loop.paused /\ ~loop.step
           THEN loop' = [loop EXCEPT !.at = "events"]
           ELSE loop' = [loop EXCEPT !.at = "run", !.stepping = loop.step, !.step = FALSE,
                                     !.target = IF budget <= 0 THEN CyclesPerFrame ELSE budget,
                                     !.done = 0, !.stop = FALSE, !.pictures = 0]
        /\ UNCHANGED <<cpu, bps, ui>>

MaxTarget == loop.target + CyclesPerFrame
Goes(l) == (l.done < l.target \/ l.pictures = 0) /\ l.done < MaxTarget

Instr(t, pc, view) ==
    LET completed == cpu.beam <= t
        after == [pc |-> pc, view |-> view,
                  beam |-> cpu.beam - t + IF completed THEN FrameLen ELSE 0]
        stops == cpc_breakpoint_match(after)
        ran == [loop EXCEPT !.done = @ + t, !.pictures = @ + IF completed THEN 1 ELSE 0,
                            !.paused = @ \/ stops, !.stop = stops]
    IN  /\ loop.at = "run" /\ cpu' = after
        /\ loop' = IF ran.pictures > 0 \/ stops \/ loop.stepping \/ ~Goes(ran)
                   THEN [ran EXCEPT !.at = "exit"] ELSE ran
        /\ ui' = [ui EXCEPT !.stopped = stops, !.changed = FALSE]
        /\ UNCHANGED bps

(* the debt of this frame; the monitor opens on a stop, and lists *)
ExitFrame ==
    /\ loop.at = "exit"
    /\ loop' = [loop EXCEPT !.at = "events",
                            !.debt = IF loop.pictures > 0 \/ loop.stop THEN 0
                                     ELSE loop.done - loop.target]
    /\ ui' = IF loop.stop \/ (loop.stepping /\ loop.paused) THEN RunPage(1) ELSE ui
    /\ UNCHANGED <<cpu, bps>>

-----------------------------------------------------------------------------
Monitor == MonitorList \/ MonitorContinue \/ MonitorBreak \/ MonitorStep \/ MonitorGo
Keys == KeyReset \/ F10Open \/ F10Close \/ AskBoot \/ SnapshotSwitch \/ SnapshotLoaded
Next == \/ Monitor \/ Keys \/ HostEdits \/ Tick \/ EnterFrame \/ ExitFrame
        \/ \E t \in Times, pc \in Addrs, v \in Views : Instr(t, pc, v)

Spec == Init /\ [][Next]_vars

-----------------------------------------------------------------------------
(* An instruction under an armed breakpoint that sees its bank is only run *)
(* once the guest has stopped there, unless the breakpoints or the program *)
(* counter were changed from outside since the instruction before.         *)
StopsFirst == /\ loop.at = "run" /\ cpc_breakpoint_match(cpu) => ui.stopped \/ ui.changed
              /\ \A b \in bps.items : breakpoint_matches(b, cpu) => cpu.pc \in bps.map

(* "Run a bounded overrun until one monitor frame completed" (cpc.c): a    *)
(* call that nothing stops ends with one, however the stops and steps      *)
(* before it left the budget, and no call runs for two pictures' cycles.   *)
OnePicture ==
    /\ loop.at = "exit" => loop.stop \/ loop.stepping \/ loop.pictures = 1
    /\ loop.done < 2 * FrameLen

(* A guest that ran with a card before the host edited it is booted before *)
(* it runs on it, unless somebody lets it run while the card is mounted.   *)
BootFirst == loop.at = "run" /\ ui.stale => ui.mounted

RunControlSound == StopsFirst /\ OnePicture /\ BootFirst
=============================================================================
