----------------------------- MODULE Host_proofs ----------------------------
(* What the frame loop, the breakpoints and the monitor promise together,  *)
(* for every set of addresses and banks, every mix of instruction times    *)
(* and any number of breakpoints and events; and that the serial boards    *)
(* keep and order their bytes, for rings and answers of any size.          *)
EXTENDS MCControl, TLAPS

(* RunControl: its variables *)
cpu == v1
loop == v2
bps == v3
ui == v4

USE DEF cpu, loop, bps, ui

CpuType == cpu \in [pc : Addrs, view : Views, beam : 1 .. FrameLen]
Loops == [at : {"events", "frame", "run", "exit"}, paused : BOOLEAN, step : BOOLEAN,
          debt : Int, target : Nat, done : Nat, stepping : BOOLEAN, stop : BOOLEAN,
          pictures : 0 .. 1]
LoopType == loop \in Loops
Uis == [paging : BOOLEAN, lines : Int, mounted : BOOLEAN, boot : BOOLEAN, stale : BOOLEAN,
        stopped : BOOLEAN, changed : BOOLEAN, n : Nat]
UiType == ui \in Uis

(* The map of addresses has every armed breakpoint's: none is missed for   *)
(* being looked up in the map first.                                       *)
MapOf(items, map) ==
    \A b \in items : /\ {"addr", "armed", "where"} \subseteq DOMAIN b
                     /\ b.armed => b.addr \in map
BpsSound == /\ DOMAIN bps = {"items", "map", "snap", "nextId"}
            /\ MapOf(bps.items, bps.map)

Stops(c) == \E b \in bps.items : Runs!breakpoint_matches(b, c)

(* Where the program is, it has stopped, or somebody changed where it is   *)
(* or what stops it.                                                       *)
StopKnown == Stops(cpu) => ui.stopped \/ ui.changed

(* The picture under way is finished within the call: what a call has done *)
(* and what the picture still needs are no more than one picture.          *)
OnTime == /\ loop.at = "run" => /\ loop.target >= 1 /\ loop.pictures = 0
                                /\ loop.done + cpu.beam <= FrameLen
          /\ loop.at = "exit" => loop.stop \/ loop.stepping \/ loop.pictures = 1
          /\ loop.done < 2 * FrameLen

(* A boot is due, or the card is still the host's. *)
BootDue == ui.stale => ui.mounted \/ (loop.at = "events" /\ ui.boot)

RunInv == /\ CpuType /\ LoopType /\ UiType /\ BpsSound
          /\ StopKnown /\ OnTime /\ BootDue

-----------------------------------------------------------------------------
LEMMA Sizes ==
    /\ FrameLen \in Nat /\ CyclesPerFrame \in Nat /\ PageRows \in Nat
    /\ 1 <= FrameLen /\ FrameLen <= CyclesPerFrame
    /\ Times \subseteq 1 .. FrameLen /\ 0 \in Addrs /\ Views # {}
BY RunsAssumption DEF Runs!RunControlAssumption

LEMMA StartType == Runs!Start \in [pc : Addrs, view : Views, beam : 1 .. FrameLen]
BY Sizes DEF Runs!Start

LEMMA UiUpdates ==
    ASSUME NEW u \in Uis, NEW on \in BOOLEAN
    PROVE  /\ [u EXCEPT !.n = @ + 1] \in Uis /\ [u EXCEPT !.mounted = on] \in Uis
           /\ [u EXCEPT !.boot = on] \in Uis /\ [u EXCEPT !.stale = on] \in Uis
           /\ [u EXCEPT !.changed = on] \in Uis
<1>1. u.n + 1 \in Nat  BY DEF Uis
<1>. QED  BY <1>1 DEF Uis

(* The monitor's pages and the count of events leave the rest alone. *)
SameFlags(u, w) ==
    /\ u \in Uis /\ u.mounted = w.mounted /\ u.boot = w.boot /\ u.stale = w.stale
    /\ u.stopped = w.stopped /\ u.changed = w.changed

LEMMA CountedUi ==
    ASSUME NEW u \in Uis
    PROVE  SameFlags([u EXCEPT !.n = @ + 1], u)
BY UiUpdates DEF SameFlags, Uis

LEMMA PageUi ==
    ASSUME UiType, NEW k \in Int
    PROVE  SameFlags(Runs!RunPage(k), ui)
<1>1. (k > PageRows) \in BOOLEAN /\ (IF k > PageRows THEN k - PageRows ELSE 0) \in Int
  BY Sizes
<1>. QED  BY <1>1 DEF Runs!RunPage, UiType, Uis, SameFlags

(* Rebuilding the map from a list makes it the list's. *)
LEMMA Rebuilt ==
    ASSUME NEW items, \A b \in items : {"addr", "armed", "where"} \subseteq DOMAIN b
    PROVE  MapOf(items, Runs!rebuild_address_map(items))
BY DEF MapOf, Runs!rebuild_address_map

LEMMA ArmedItems ==
    ASSUME NEW items, \A b \in items : {"addr", "armed", "where"} \subseteq DOMAIN b, NEW on
    PROVE  \A b \in Runs!Armed(items, on) : {"addr", "armed", "where"} \subseteq DOMAIN b
BY DEF Runs!Armed

(* cpc_breakpoint.c keeps the map in step with the list. *)
LEMMA WithItemsSound ==
    ASSUME NEW items, \A b \in items : {"addr", "armed", "where"} \subseteq DOMAIN b,
           BpsSound, Runs!WithItems(items)
    PROVE  BpsSound'
<1>1. /\ bps' = [bps EXCEPT !.items = items, !.map = Runs!rebuild_address_map(items)]
      /\ DOMAIN bps = {"items", "map", "snap", "nextId"}
  BY DEF Runs!WithItems, BpsSound
<1>2. bps'.items = items /\ bps'.map = Runs!rebuild_address_map(items)  BY <1>1
<1>. QED  BY <1>1, <1>2, Rebuilt DEF BpsSound

LEMMA AddSound ==
    ASSUME NEW addr, NEW where, NEW source, BpsSound, Runs!cpc_breakpoint_add(addr, where, source)
    PROVE  BpsSound'
<1> DEFINE same == {b \in bps.items : b.source = source /\ b.addr = addr /\ b.where = where}
           armed == source # "snapshot" \/ bps.snap
           new == [id |-> Runs!allocate_id, addr |-> addr, where |-> where, source |-> source,
                   armed |-> armed]
<1>1. \A b \in bps.items : {"addr", "armed", "where"} \subseteq DOMAIN b
  BY DEF BpsSound, MapOf
<1>2. CASE same # {}
  <2>1. Runs!WithItems((bps.items \ same) \cup Runs!Armed(same, armed))
    BY <1>2 DEF Runs!cpc_breakpoint_add
  <2>2. \A b \in Runs!Armed(same, armed) : {"addr", "armed", "where"} \subseteq DOMAIN b
    BY <1>1, ArmedItems
  <2>. QED  BY <1>1, <2>1, <2>2, WithItemsSound
<1>3. CASE same = {}
  <2>1. bps' = [bps EXCEPT !.items = @ \cup {new}, !.nextId = new.id,
                           !.map = IF armed THEN @ \cup {addr} ELSE @]
    BY <1>3 DEF Runs!cpc_breakpoint_add
  <2>2. DOMAIN bps = {"items", "map", "snap", "nextId"}  BY DEF BpsSound
  <2>3. /\ bps'.items = bps.items \cup {new}
        /\ bps'.map = IF armed THEN bps.map \cup {addr} ELSE bps.map
    BY <2>1, <2>2
  <2>4. {"addr", "armed", "where"} \subseteq DOMAIN new /\ new.armed = armed /\ new.addr = addr
    OBVIOUS
  <2>5. DOMAIN bps' = DOMAIN bps  BY <2>1
  <2>. HIDE DEF new, armed
  <2>. QED  BY <2>2, <2>3, <2>4, <2>5 DEF BpsSound, MapOf
<1>. QED  BY <1>2, <1>3
LEMMA ClearSound ==
    ASSUME NEW id, NEW source, BpsSound,
           Runs!cpc_breakpoint_clear(id) \/ Runs!cpc_breakpoint_clear_source(source)
    PROVE  BpsSound'
<1>1. \A b \in bps.items : {"addr", "armed", "where"} \subseteq DOMAIN b
  BY DEF BpsSound, MapOf
<1>2. \E items \in SUBSET bps.items : Runs!WithItems(items)
  BY DEF Runs!cpc_breakpoint_clear, Runs!cpc_breakpoint_clear_source
<1>. QED  BY <1>1, <1>2, WithItemsSound

LEMMA ArmSound ==
    ASSUME NEW id, NEW on, BpsSound,
           Runs!cpc_breakpoint_set_armed(id, on) \/ Runs!cpc_set_snapshot_breakpoints(on)
    PROVE  BpsSound'
<1>1. \A b \in bps.items : {"addr", "armed", "where"} \subseteq DOMAIN b
  BY DEF BpsSound, MapOf
<1>2. \A its \in SUBSET bps.items :
         \A b \in (bps.items \ its) \cup Runs!Armed(its, on) :
            {"addr", "armed", "where"} \subseteq DOMAIN b
  BY <1>1, ArmedItems
<1>3. CASE Runs!cpc_breakpoint_set_armed(id, on)
  <2>1. Runs!FindItem(id) \in SUBSET bps.items  BY DEF Runs!FindItem
  <2>2. Runs!WithItems((bps.items \ Runs!FindItem(id)) \cup Runs!Armed(Runs!FindItem(id), on))
    BY <1>3 DEF Runs!cpc_breakpoint_set_armed
  <2>. QED  BY <1>2, <2>1, <2>2, WithItemsSound
<1>4. CASE Runs!cpc_set_snapshot_breakpoints(on)
  <2> DEFINE theirs == {b \in bps.items : b.source = "snapshot"}
             items == (bps.items \ theirs) \cup Runs!Armed(theirs, on)
  <2>1. /\ bps' = [bps EXCEPT !.items = items, !.snap = on,
                              !.map = Runs!rebuild_address_map(items)]
        /\ DOMAIN bps = {"items", "map", "snap", "nextId"}
    BY <1>4 DEF Runs!cpc_set_snapshot_breakpoints, BpsSound
  <2>2. \A b \in items : {"addr", "armed", "where"} \subseteq DOMAIN b  BY <1>2
  <2>. HIDE DEF items
  <2>3. bps'.items = items /\ bps'.map = Runs!rebuild_address_map(items)
        /\ DOMAIN bps' = DOMAIN bps
    BY <2>1
  <2>. QED  BY <2>1, <2>2, <2>3, Rebuilt DEF BpsSound
<1>. QED  BY <1>3, <1>4

-----------------------------------------------------------------------------
LEMMA Start0 ==
    ASSUME Runs!Init
    PROVE  RunInv
<1>1. CpuType /\ LoopType /\ UiType
  <2>1. CpuType  BY StartType DEF Runs!Init, CpuType
  <2>2. LoopType  BY DEF Runs!Init, LoopType, Loops
  <2>3. UiType  BY DEF Runs!Init, UiType, Uis
  <2>. QED  BY <2>1, <2>2, <2>3
<1>2. BpsSound /\ StopKnown
  <2>1. bps.items = {} /\ DOMAIN bps = {"items", "map", "snap", "nextId"}  BY DEF Runs!Init
  <2>. QED  BY <2>1 DEF BpsSound, MapOf, StopKnown, Stops
<1>3. OnTime /\ BootDue  BY Sizes DEF Runs!Init, OnTime, BootDue
<1>. QED  BY <1>1, <1>2, <1>3 DEF RunInv

(* Everything that changes the breakpoints says so, and happens between    *)
(* two frames.                                                             *)
LEMMA BreakpointsStep ==
    ASSUME RunInv, Runs!MonitorBreak \/ Runs!SnapshotSwitch \/ Runs!SnapshotLoaded
    PROVE  RunInv'
<1>1. BpsSound'
  <2>1. CASE Runs!MonitorBreak
    BY <2>1, AddSound, ClearSound, ArmSound DEF Runs!MonitorBreak, RunInv
  <2>2. CASE Runs!SnapshotSwitch  BY <2>2, ArmSound DEF Runs!SnapshotSwitch, RunInv
  <2>3. CASE Runs!SnapshotLoaded
    BY <2>3, AddSound, ClearSound DEF Runs!SnapshotLoaded, RunInv
  <2>. QED  BY <2>1, <2>2, <2>3
<1>2. /\ loop.at = "events" /\ UNCHANGED loop
      /\ ui' = [[ui EXCEPT !.changed = TRUE] EXCEPT !.n = @ + 1]
      /\ cpu' = cpu \/ \E pc \in Addrs : cpu' = [cpu EXCEPT !.pc = pc]
  BY DEF Runs!MonitorBreak, Runs!SnapshotSwitch, Runs!SnapshotLoaded, Runs!NotPaging, Runs!Quiet
<1>3. CpuType' /\ LoopType' /\ UiType'
  <2>1. CpuType'  BY <1>2 DEF RunInv, CpuType
  <2>2. [ui EXCEPT !.changed = TRUE] \in Uis  BY UiUpdates DEF RunInv, UiType
  <2>3. UiType'  BY <1>2, <2>2, UiUpdates DEF UiType
  <2>. QED  BY <1>2, <2>1, <2>3 DEF RunInv, LoopType, Loops
<1>4. ui'.changed /\ ui'.stale = ui.stale /\ ui'.mounted = ui.mounted /\ ui'.boot = ui.boot
  BY <1>2 DEF RunInv, UiType, Uis
<1>5. StopKnown' /\ OnTime' /\ BootDue'
  BY <1>2, <1>4 DEF RunInv, StopKnown, OnTime, BootDue
<1>. QED  BY <1>1, <1>3, <1>5 DEF RunInv

(* The monitor's other commands, the keys and the host touch neither the   *)
(* program nor the breakpoints.                                            *)
LEMMA QuietStep ==
    ASSUME RunInv,
           \/ Runs!MonitorList \/ Runs!MonitorContinue \/ Runs!MonitorStep \/ Runs!MonitorGo
           \/ Runs!F10Open \/ Runs!F10Close \/ Runs!AskBoot \/ Runs!HostEdits
    PROVE  RunInv'
<1> DEFINE SameLoop == \/ UNCHANGED loop
                       \/ \E on \in BOOLEAN : \/ loop' = [loop EXCEPT !.paused = on]
                                              \/ loop' = [loop EXCEPT !.step = on]
<1>0. ui \in Uis /\ UiType  BY DEF RunInv, UiType
<1>1. /\ UNCHANGED <<cpu, bps>> /\ SameLoop
      /\ ui' \in Uis /\ ui'.stopped = ui.stopped /\ ui'.changed = ui.changed
      /\ BootDue'
  <2>1. CASE Runs!MonitorList \/ Runs!MonitorContinue
    <3>1. /\ UNCHANGED <<cpu, loop, bps>>
          /\ \E k \in Int : ui' = [Runs!RunPage(k) EXCEPT !.n = @ + 1]
      BY <1>0, <2>1, Sizes DEF Runs!MonitorList, Runs!MonitorContinue, Runs!Quiet, Uis
    <3>2. PICK k \in Int : ui' = [Runs!RunPage(k) EXCEPT !.n = @ + 1]  BY <3>1
    <3>3. SameFlags(Runs!RunPage(k), ui)  BY <1>0, PageUi
    <3>4. SameFlags(ui', Runs!RunPage(k))  BY <3>2, <3>3, CountedUi DEF SameFlags
    <3>. QED  BY <3>1, <3>3, <3>4 DEF SameFlags, RunInv, BootDue
  <2>2. CASE Runs!MonitorStep \/ Runs!MonitorGo
    <3>1. UNCHANGED <<cpu, bps>> /\ SameLoop /\ loop'.at = loop.at
          /\ ui' = [ui EXCEPT !.n = @ + 1]
      BY <2>2 DEF Runs!MonitorStep, Runs!MonitorGo, Runs!Quiet, RunInv, LoopType, Loops
    <3>2. SameFlags(ui', ui)  BY <1>0, <3>1, CountedUi
    <3>. QED  BY <3>1, <3>2 DEF SameFlags, RunInv, BootDue
  <2>3. CASE Runs!F10Open \/ Runs!F10Close
    <3>1. /\ loop.at = "events" /\ UNCHANGED <<cpu, bps>> /\ SameLoop /\ loop'.at = loop.at
          /\ \/ ui' = [[ui EXCEPT !.mounted = TRUE] EXCEPT !.n = @ + 1]
             \/ ui' = [ui EXCEPT !.n = @ + 1]
             \/ ui' = [[ui EXCEPT !.mounted = FALSE, !.boot = TRUE] EXCEPT !.n = @ + 1]
      BY <2>3 DEF Runs!F10Open, Runs!F10Close, Runs!Quiet, RunInv, LoopType, Loops
    <3>2. \A u \in {ui, [ui EXCEPT !.mounted = TRUE],
                     [ui EXCEPT !.mounted = FALSE, !.boot = TRUE]} :
             /\ u \in Uis /\ u.stopped = ui.stopped /\ u.changed = ui.changed
             /\ u.stale = ui.stale
             /\ (u.mounted \/ u.boot \/ (u.mounted = ui.mounted /\ u.boot = ui.boot))
      BY <1>0 DEF Uis
    <3>3. PICK u \in {ui, [ui EXCEPT !.mounted = TRUE],
                      [ui EXCEPT !.mounted = FALSE, !.boot = TRUE]} : ui' = [u EXCEPT !.n = @ + 1]
      BY <3>1
    <3>4. SameFlags(ui', u)  BY <3>2, <3>3, CountedUi
    <3>. QED  BY <3>1, <3>2, <3>4 DEF SameFlags, RunInv, BootDue
  <2>4. CASE Runs!AskBoot
    <3>1. UNCHANGED <<cpu, loop, bps>> /\ ui' = [[ui EXCEPT !.boot = TRUE] EXCEPT !.n = @ + 1]
      BY <2>4 DEF Runs!AskBoot, Runs!Quiet
    <3>2. SameFlags(ui', [ui EXCEPT !.boot = TRUE])  BY <1>0, <3>1, UiUpdates, CountedUi
    <3>. QED  BY <1>0, <3>1, <3>2 DEF SameFlags, Uis, RunInv, BootDue
  <2>5. CASE Runs!HostEdits
    <3>1. UNCHANGED <<cpu, loop, bps>> /\ ui.mounted /\ ui' = [ui EXCEPT !.stale = TRUE]
      BY <2>5 DEF Runs!HostEdits
    <3>2. ui' \in Uis  BY <1>0, <3>1, UiUpdates
    <3>3. /\ ui'.stopped = ui.stopped /\ ui'.changed = ui.changed
          /\ ui'.mounted = ui.mounted
      BY <1>0, <3>1 DEF Uis
    <3>. QED  BY <3>1, <3>2, <3>3 DEF BootDue
  <2>. QED  BY <2>1, <2>2, <2>3, <2>4, <2>5
<1>2. /\ LoopType' /\ loop'.at = loop.at /\ loop'.target = loop.target
      /\ loop'.done = loop.done /\ loop'.stop = loop.stop /\ loop'.stepping = loop.stepping
      /\ loop'.pictures = loop.pictures
  BY <1>1 DEF RunInv, LoopType, Loops
<1>. HIDE DEF SameLoop
<1>3. CpuType' /\ UiType' /\ BpsSound' /\ StopKnown'
  BY <1>1 DEF RunInv, CpuType, UiType, BpsSound, StopKnown, Stops
<1>4. OnTime'  BY <1>1, <1>2 DEF RunInv, OnTime
<1>. QED  BY <1>1, <1>2, <1>3, <1>4 DEF RunInv

(* F5, and the cold boot at the end of the events *)
LEMMA ResetStep ==
    ASSUME RunInv, Runs!KeyReset \/ Runs!Tick
    PROVE  RunInv'
<1>0. ui \in Uis /\ UNCHANGED bps /\ loop.at = "events"
  BY DEF RunInv, UiType, Runs!KeyReset, Runs!Tick
<1>1. /\ \/ loop' = [loop EXCEPT !.debt = 0]
         \/ loop' = [[loop EXCEPT !.debt = 0] EXCEPT !.at = "frame"]
         \/ loop' = [loop EXCEPT !.at = "frame"]
      /\ cpu' = Runs!Start \/ UNCHANGED cpu
      /\ ui' \in Uis
      /\ \/ ui'.changed
         \/ UNCHANGED cpu /\ ui'.changed = ui.changed /\ ui'.stopped = ui.stopped
      /\ ui'.stale => ui'.mounted \/ (loop'.at = "events" /\ ui'.boot)
  <2>1. CASE Runs!KeyReset
    <3>1. loop' = [loop EXCEPT !.debt = 0] /\ cpu' = Runs!Start
          /\ ui' = [[ui EXCEPT !.changed = TRUE] EXCEPT !.n = @ + 1]
      BY <2>1 DEF Runs!KeyReset, Runs!Reset, Runs!Restarted, Runs!Quiet
    <3>2. SameFlags(ui', [ui EXCEPT !.changed = TRUE])  BY <1>0, <3>1, UiUpdates, CountedUi
    <3>3. loop'.at = loop.at  BY <3>1 DEF RunInv, LoopType, Loops
    <3>. QED  BY <1>0, <3>1, <3>2, <3>3 DEF SameFlags, Uis, RunInv, BootDue
  <2>2. CASE Runs!Tick /\ ui.boot
    <3>1. /\ cpu' = Runs!Start /\ loop' = [[loop EXCEPT !.debt = 0] EXCEPT !.at = "frame"]
          /\ ui' = [ui EXCEPT !.boot = FALSE, !.stale = ui.mounted /\ @, !.changed = TRUE]
      BY <2>2 DEF Runs!Tick, Runs!Reset, Runs!Restarted
    <3>2. ui' \in Uis /\ ui'.changed /\ (ui'.stale => ui'.mounted)
      BY <1>0, <3>1 DEF Uis
    <3>. QED  BY <3>1, <3>2
  <2>3. CASE Runs!Tick /\ ~ui.boot
    <3>1. UNCHANGED <<cpu, ui>> /\ loop' = [loop EXCEPT !.at = "frame"]
      BY <2>3 DEF Runs!Tick
    <3>. QED  BY <1>0, <2>3, <3>1 DEF RunInv, BootDue
  <2>. QED  BY <2>1, <2>2, <2>3
<1>2. /\ LoopType' /\ loop'.at \in {"events", "frame"} /\ loop'.done = loop.done
  <2>1. CASE loop' = [loop EXCEPT !.debt = 0]  BY <1>0, <2>1 DEF RunInv, LoopType, Loops
  <2>2. CASE loop' = [loop EXCEPT !.at = "frame"]  BY <2>2 DEF RunInv, LoopType, Loops
  <2>3. CASE loop' = [[loop EXCEPT !.debt = 0] EXCEPT !.at = "frame"]
    <3>1. PICK l : l = [loop EXCEPT !.debt = 0]  OBVIOUS
    <3>2. l \in Loops /\ l.done = loop.done
      BY <3>1 DEF RunInv, LoopType, Loops
    <3>. QED  BY <2>3, <3>1, <3>2 DEF LoopType, Loops
  <2>. QED  BY <1>1, <2>1, <2>2, <2>3
<1>3. CpuType'  BY <1>1, StartType DEF RunInv, CpuType
<1>4. StopKnown' /\ BootDue'  BY <1>0, <1>1 DEF RunInv, StopKnown, Stops, BootDue
<1>5. OnTime'  BY <1>2 DEF RunInv, OnTime
<1>6. BpsSound' /\ UiType'  BY <1>0, <1>1 DEF RunInv, BpsSound, UiType
<1>. QED  BY <1>2, <1>3, <1>4, <1>5, <1>6 DEF RunInv

(* A call begins: nothing done, at most a picture to come. *)
LEMMA EnterStep ==
    ASSUME RunInv, Runs!EnterFrame
    PROVE  RunInv'
<1>0. loop.at = "frame" /\ UNCHANGED <<cpu, bps, ui>>  BY DEF Runs!EnterFrame
<1>1. CpuType' /\ UiType' /\ BpsSound' /\ StopKnown'
  BY <1>0 DEF RunInv, CpuType, UiType, BpsSound, StopKnown, Stops
<1>2. BootDue'  BY <1>0 DEF RunInv, BootDue
<1>3. PICK budget \in Int : budget = CyclesPerFrame + loop.debt
  BY Sizes DEF RunInv, LoopType, Loops
<1>4. LoopType' /\ OnTime'
  <2>1. CASE loop' = [loop EXCEPT !.at = "events"]
    BY <2>1 DEF RunInv, LoopType, Loops, OnTime
  <2>2. CASE loop' = [loop EXCEPT !.at = "run", !.stepping = loop.step, !.step = FALSE,
                                  !.target = IF budget <= 0 THEN CyclesPerFrame ELSE budget,
                                  !.done = 0, !.stop = FALSE, !.pictures = 0]
    <3>1. PICK t \in Nat : t >= 1 /\ t = IF budget <= 0 THEN CyclesPerFrame ELSE budget
      BY Sizes
    <3>2. /\ loop' = [loop EXCEPT !.at = "run", !.stepping = loop.step, !.step = FALSE,
                                   !.target = t, !.done = 0, !.stop = FALSE, !.pictures = 0]
          /\ LoopType /\ loop.step \in BOOLEAN
      BY <2>2, <3>1 DEF RunInv, LoopType, Loops
    <3>3. /\ LoopType' /\ loop'.at = "run" /\ loop'.target = t /\ loop'.done = 0
          /\ loop'.pictures = 0
      <4>1. PICK l : l = [loop EXCEPT !.at = "run", !.stepping = loop.step, !.step = FALSE]
        OBVIOUS
      <4>2. l \in Loops /\ l.at = "run"
        BY <3>2, <4>1 DEF LoopType, Loops
      <4>3. PICK m : m = [l EXCEPT !.target = t, !.done = 0]  OBVIOUS
      <4>4. m \in Loops /\ m.at = "run" /\ m.target = t /\ m.done = 0
        BY <3>1, <4>2, <4>3 DEF Loops
      <4>5. loop' = [m EXCEPT !.stop = FALSE, !.pictures = 0]
        BY <3>2, <4>1, <4>3
      <4>6. 0 \in 0 .. 1  OBVIOUS
      <4>. QED  BY <4>4, <4>5, <4>6 DEF Loops, LoopType
    <3>4. cpu'.beam \in 1 .. FrameLen  BY <1>1 DEF CpuType
    <3>. QED  BY <3>1, <3>3, <3>4, Sizes DEF OnTime
  <2>. QED  BY <1>3, <2>1, <2>2 DEF Runs!EnterFrame
<1>. QED  BY <1>1, <1>2, <1>4 DEF RunInv

(* The breakpoint under the program counter is found through the map. *)
LEMMA MatchIsStop ==
    ASSUME BpsSound, NEW c
    PROVE  Runs!cpc_breakpoint_match(c) <=> Stops(c)
BY DEF Runs!cpc_breakpoint_match, Runs!breakpoint_matches, Stops, BpsSound, MapOf

(* One instruction: a call goes on only while its picture is under way and *)
(* has room left, and ends with the picture.                               *)
LEMMA InstrStep ==
    ASSUME RunInv, NEW t \in Times, NEW pc \in Addrs, NEW v \in Views, Runs!Instr(t, pc, v)
    PROVE  RunInv'
<1> DEFINE completed == cpu.beam <= t
           left == cpu.beam - t + IF completed THEN FrameLen ELSE 0
           after == [pc |-> pc, view |-> v, beam |-> left]
           stops == Runs!cpc_breakpoint_match(after)
           ran == [loop EXCEPT !.done = @ + t, !.pictures = @ + IF completed THEN 1 ELSE 0,
                               !.paused = @ \/ stops, !.stop = stops]
<1>1. /\ loop.at = "run" /\ cpu' = after /\ UNCHANGED bps
      /\ ui' = [ui EXCEPT !.stopped = stops, !.changed = FALSE]
      /\ loop' = IF ran.pictures > 0 \/ stops \/ loop.stepping \/ ~Runs!Goes(ran)
                 THEN [ran EXCEPT !.at = "exit"] ELSE ran
  BY DEF Runs!Instr
<1>2. /\ cpu.beam \in 1 .. FrameLen /\ t \in 1 .. FrameLen /\ FrameLen \in Nat
      /\ loop.done \in Nat /\ loop.target \in Nat /\ loop.target >= 1 /\ loop.pictures = 0
      /\ loop.done + cpu.beam <= FrameLen
  BY <1>1, Sizes DEF RunInv, CpuType, LoopType, Loops, OnTime
<1>3. PICK l \in 1 .. FrameLen : l = left  BY <1>2
<1>4. CpuType'  BY <1>1, <1>3 DEF CpuType
<1>5. stops \in BOOLEAN  BY DEF Runs!cpc_breakpoint_match
<1>6. stops <=> Stops(after)  BY MatchIsStop DEF RunInv
<1>. HIDE DEF stops, after
<1>7. UiType' /\ ui'.stopped = stops /\ ui'.stale = ui.stale /\ ui'.mounted = ui.mounted
  BY <1>1, <1>5 DEF RunInv, UiType, Uis
<1>8. StopKnown'  BY <1>1, <1>6, <1>7 DEF StopKnown, Stops
<1>9. BootDue'  BY <1>1, <1>7 DEF RunInv, BootDue
<1>10. PICK p \in 0 .. 1 : p = (IF completed THEN 1 ELSE 0)  OBVIOUS
<1>11. PICK dn \in Nat : dn = loop.done + t  BY <1>2
<1>12. /\ loop \in [at : {"run"}, paused : BOOLEAN, step : BOOLEAN, debt : Int, target : Nat,
                    done : Nat, stepping : BOOLEAN, stop : BOOLEAN, pictures : 0 .. 1]
  BY <1>1 DEF RunInv, LoopType, Loops
<1>13. /\ ran = [loop EXCEPT !.done = dn, !.pictures = p, !.paused = @ \/ stops, !.stop = stops]
  BY <1>2, <1>10, <1>11
<1>. HIDE DEF ran
<1>14. /\ ran \in [at : {"run"}, paused : BOOLEAN, step : BOOLEAN, debt : Int, target : Nat,
                   done : Nat, stepping : BOOLEAN, stop : BOOLEAN, pictures : 0 .. 1]
       /\ ran.done = dn /\ ran.pictures = p /\ ran.stop = stops
       /\ ran.stepping = loop.stepping /\ ran.target = loop.target
  BY <1>5, <1>12, <1>13
<1>15. LoopType' /\ loop'.done = dn /\ loop'.pictures = p /\ loop'.stop = stops
       /\ loop'.stepping = loop.stepping /\ loop'.target = loop.target
  <2>1. CASE loop' = ran  BY <1>14, <2>1 DEF LoopType, Loops
  <2>2. CASE loop' = [ran EXCEPT !.at = "exit"]  BY <1>14, <2>2 DEF LoopType, Loops
  <2>. QED  BY <1>1, <2>1, <2>2
<1>16. p = 0 => dn + l <= FrameLen /\ l = cpu'.beam
  BY <1>1, <1>2, <1>3, <1>10, <1>11 DEF after
<1>17. dn < 2 * FrameLen  BY <1>2, <1>11
<1>18. p = 0 => Runs!Goes(ran)
  <2>1. ASSUME p = 0 PROVE dn < loop.target + CyclesPerFrame
    BY <1>2, <1>16, <2>1, Sizes
  <2>. QED  BY <1>14, <2>1 DEF Runs!Goes, Runs!MaxTarget
<1>19. loop'.at = "run" => p = 0
  BY <1>1, <1>14
<1>20. loop'.at = "exit" => p = 1 \/ stops \/ loop.stepping
  BY <1>1, <1>10, <1>14, <1>18
<1>21. OnTime'
  BY <1>2, <1>15, <1>16, <1>17, <1>19, <1>20 DEF OnTime
<1>22. BpsSound'  BY <1>1 DEF RunInv, BpsSound
<1>. QED  BY <1>4, <1>7, <1>8, <1>9, <1>15, <1>21, <1>22 DEF RunInv

LEMMA ExitStep ==
    ASSUME RunInv, Runs!ExitFrame
    PROVE  RunInv'
<1>0. loop.at = "exit" /\ UNCHANGED <<cpu, bps>> /\ UiType  BY DEF RunInv, Runs!ExitFrame
<1>1. SameFlags(ui', ui)
  <2>1. CASE ui' = Runs!RunPage(1)  BY <1>0, <2>1, PageUi
  <2>2. CASE UNCHANGED ui  BY <1>0, <2>2 DEF SameFlags, UiType
  <2>. QED  BY <2>1, <2>2 DEF Runs!ExitFrame
<1>2. PICK debt \in Int : loop' = [loop EXCEPT !.at = "events", !.debt = debt]
  <2>1. (IF loop.pictures > 0 \/ loop.stop THEN 0 ELSE loop.done - loop.target) \in Int
    BY DEF RunInv, LoopType, Loops
  <2>. QED  BY <2>1 DEF Runs!ExitFrame
<1>3. LoopType' /\ loop'.at = "events" /\ loop'.done = loop.done
  BY <1>2 DEF RunInv, LoopType, Loops
<1>4. CpuType' /\ UiType' /\ BpsSound' /\ StopKnown' /\ BootDue'
  BY <1>0, <1>1
     DEF RunInv, CpuType, UiType, BpsSound, StopKnown, Stops, BootDue, SameFlags
<1>5. OnTime'  BY <1>3 DEF RunInv, OnTime
<1>. QED  BY <1>3, <1>4, <1>5 DEF RunInv

LEMMA NextRunInv == RunInv /\ Runs!Next => RunInv'
BY BreakpointsStep, QuietStep, ResetStep, EnterStep, InstrStep, ExitStep
   DEF Runs!Next, Runs!Monitor, Runs!Keys

LEMMA SameRunInv == RunInv /\ UNCHANGED hostVars => RunInv'
BY DEF hostVars, RunInv, CpuType, LoopType, Loops, UiType, BpsSound, StopKnown, Stops, OnTime, BootDue

LEMMA InvIsSound == RunInv => Runs!RunControlSound
<1>. SUFFICES ASSUME RunInv PROVE Runs!RunControlSound  OBVIOUS
<1>1. Runs!StopsFirst
  BY MatchIsStop
     DEF RunInv, Runs!StopsFirst, StopKnown, BpsSound, MapOf, Runs!breakpoint_matches
<1>2. Runs!OnePicture  BY DEF RunInv, Runs!OnePicture, OnTime
<1>3. Runs!BootFirst  BY DEF RunInv, Runs!BootFirst, BootDue
<1>. QED  BY <1>1, <1>2, <1>3 DEF Runs!RunControlSound

(* No instruction under an armed breakpoint runs before the machine        *)
(* stopped there; every call of cpc_frame that nothing stops ends with one *)
(* picture and in time; a card the host edited is booted before the guest  *)
(* runs on it (cpc.c:1659-2076, cpc_breakpoint.c, main.c:1201-1229).       *)
THEOREM RunControlHolds == ControlSpec => []RunControlSound
<1>1. ControlInit => (part = "run" => RunInv)  BY Start0 DEF ControlInit
<1>2. (part = "run" => RunInv) /\ [part' = part /\ ControlNext]_hostVars => (part = "run" => RunInv)'
  <2>. SUFFICES ASSUME part = "run" => RunInv, [part' = part /\ ControlNext]_hostVars, part' = "run"
                PROVE  RunInv'
    OBVIOUS
  <2>1. CASE UNCHANGED hostVars  BY <2>1, SameRunInv DEF hostVars
  <2>2. CASE part' = part /\ ControlNext
    <3>1. part = "run" /\ Runs!Next  BY <2>2 DEF ControlNext
    <3>. QED  BY <3>1, NextRunInv
  <2>. QED  BY <2>1, <2>2
<1>3. (part = "run" => RunInv) => RunControlSound  BY InvIsSound DEF RunControlSound
<1>. QED  BY <1>1, <1>2, <1>3, PTL DEF ControlSpec
-----------------------------------------------------------------------------
(* The serial boards: sequences of numbered bytes, 0 for what a board made *)
(* up                                                                      *)

Bytes == Seq(Nat)

(* All that counts of the first come before all that count of the second.  *)
Before(S, T) == \A x \in S \ {0}, y \in T \ {0} : x < y

LEMMA ConcatIndex ==
    ASSUME NEW s \in Bytes, NEW t \in Bytes
    PROVE  /\ s \o t \in Bytes /\ Len(s \o t) = Len(s) + Len(t)
           /\ DOMAIN s = 1 .. Len(s) /\ DOMAIN t = 1 .. Len(t) /\ Len(s) \in Nat /\ Len(t) \in Nat
           /\ DOMAIN (s \o t) = 1 .. Len(s) + Len(t)
           /\ \A i \in 1 .. Len(s) : (s \o t)[i] = s[i] /\ s[i] \in Nat
           /\ \A i \in 1 .. Len(t) : (s \o t)[Len(s) + i] = t[i] /\ t[i] \in Nat
<1>1. \A i \in 1 .. Len(t) : Len(s) + i - Len(s) = i /\ Len(s) + i \in 1 .. Len(s) + Len(t)
                             /\ ~(Len(s) + i <= Len(s))
  BY DEF Bytes
<1>. QED  BY <1>1 DEF Bytes

LEMMA ConcatType ==
    ASSUME NEW s \in Bytes, NEW t \in Bytes
    PROVE  s \o t \in Bytes /\ Len(s \o t) = Len(s) + Len(t) /\ Len(s) \in Nat /\ Len(t) \in Nat
BY ConcatIndex

LEMMA ConcatRange ==
    ASSUME NEW s \in Bytes, NEW t \in Bytes
    PROVE  Serials!Range(s \o t) = Serials!Range(s) \cup Serials!Range(t)
<1> DEFINE w == s \o t
           m == Len(s)
           n == Len(t)
<1>0. /\ m \in Nat /\ n \in Nat /\ DOMAIN s = 1 .. m /\ DOMAIN t = 1 .. n
      /\ DOMAIN w = 1 .. m + n
      /\ \A i \in 1 .. m : w[i] = s[i] /\ s[i] \in Nat
      /\ \A i \in 1 .. n : w[m + i] = t[i] /\ t[i] \in Nat
  BY ConcatIndex
<1>. HIDE DEF w, m, n
<1>1. ASSUME NEW x, x \in Serials!Range(w)
      PROVE  x \in Serials!Range(s) \cup Serials!Range(t)
  <2>1. PICK i \in 1 .. m + n : x = w[i]
    BY <1>1, <1>0 DEF Serials!Range
  <2>2. CASE i \in 1 .. m  BY <2>1, <2>2, <1>0 DEF Serials!Range
  <2>3. CASE i \notin 1 .. m
    <3>1. i - m \in 1 .. n /\ m + (i - m) = i
      BY <2>1, <2>3, <1>0
    <3>2. x = t[i - m]
      BY <2>1, <3>1, <1>0
    <3>. QED  BY <3>1, <3>2, <1>0 DEF Serials!Range
  <2>. QED  BY <2>2, <2>3
<1>2. ASSUME NEW x, x \in Serials!Range(s) \cup Serials!Range(t)
      PROVE  x \in Serials!Range(w)
  <2>1. CASE x \in Serials!Range(s)
    <3>1. PICK i \in 1 .. m : x = s[i]  BY <2>1, <1>0 DEF Serials!Range
    <3>2. i \in 1 .. m + n  BY <3>1, <1>0
    <3>. QED  BY <3>1, <3>2, <1>0 DEF Serials!Range
  <2>2. CASE x \in Serials!Range(t)
    <3>1. PICK i \in 1 .. n : x = t[i]  BY <2>2, <1>0 DEF Serials!Range
    <3>2. m + i \in 1 .. m + n  BY <3>1, <1>0
    <3>. QED  BY <3>1, <3>2, <1>0 DEF Serials!Range
  <2>. QED  BY <1>2, <2>1, <2>2
<1>. QED  BY <1>1, <1>2 DEF w

LEMMA RangeNat ==
    ASSUME NEW s \in Bytes
    PROVE  Serials!Range(s) \subseteq Nat
BY DEF Serials!Range, Bytes

(* One after the other rise if each does and the first is before. *)
LEMMA ConcatRising ==
    ASSUME NEW s \in Bytes, NEW t \in Bytes
    PROVE  Serials!Rising(s \o t) <=> /\ Serials!Rising(s) /\ Serials!Rising(t)
                                      /\ Before(Serials!Range(s), Serials!Range(t))
<1> DEFINE w == s \o t
           m == Len(s)
           n == Len(t)
<1>0. /\ m \in Nat /\ n \in Nat /\ DOMAIN s = 1 .. m /\ DOMAIN t = 1 .. n
      /\ DOMAIN w = 1 .. m + n
      /\ \A i \in 1 .. m : w[i] = s[i] /\ s[i] \in Nat
      /\ \A i \in 1 .. n : w[m + i] = t[i] /\ t[i] \in Nat
  BY ConcatIndex
<1>. HIDE DEF w, m, n
<1>1. ASSUME Serials!Rising(w)
      PROVE  /\ Serials!Rising(s) /\ Serials!Rising(t)
             /\ Before(Serials!Range(s), Serials!Range(t))
  <2>1. Serials!Rising(s)
    <3>. SUFFICES ASSUME NEW i \in 1 .. m, NEW j \in 1 .. m, i < j, s[i] # 0, s[j] # 0
                  PROVE  s[i] < s[j]
      BY <1>0 DEF Serials!Rising
    <3>1. i \in 1 .. m + n /\ j \in 1 .. m + n  BY <1>0
    <3>. QED  BY <1>1, <3>1, <1>0 DEF Serials!Rising
  <2>2. Serials!Rising(t)
    <3>. SUFFICES ASSUME NEW i \in 1 .. n, NEW j \in 1 .. n, i < j, t[i] # 0, t[j] # 0
                  PROVE  t[i] < t[j]
      BY <1>0 DEF Serials!Rising
    <3>1. /\ m + i \in 1 .. m + n /\ m + j \in 1 .. m + n
          /\ m + i < m + j
      BY <1>0
    <3>. QED  BY <1>1, <3>1, <1>0 DEF Serials!Rising
  <2>3. ASSUME NEW x \in Serials!Range(s) \ {0}, NEW y \in Serials!Range(t) \ {0}
        PROVE  x < y
    <3>1. PICK i \in 1 .. m : x = s[i]  BY <1>0 DEF Serials!Range
    <3>2. PICK j \in 1 .. n : y = t[j]  BY <1>0 DEF Serials!Range
    <3>3. /\ i \in 1 .. m + n /\ m + j \in 1 .. m + n
          /\ i < m + j
      BY <1>0
    <3>4. x = w[i] /\ y = w[m + j]  BY <3>1, <3>2, <1>0
    <3>. QED  BY <1>1, <3>3, <3>4, <1>0 DEF Serials!Rising
  <2>. QED  BY <2>1, <2>2, <2>3 DEF Before
<1>2. ASSUME Serials!Rising(s), Serials!Rising(t), Before(Serials!Range(s), Serials!Range(t)),
             NEW i \in 1 .. m + n, NEW j \in 1 .. m + n, i < j,
             w[i] # 0, w[j] # 0
      PROVE  w[i] < w[j]
  <2>1. CASE j \in 1 .. m
    <3>1. i \in 1 .. m  BY <1>2, <2>1, <1>0
    <3>. QED  BY <1>2, <2>1, <3>1, <1>0 DEF Serials!Rising
  <2>2. CASE i \notin 1 .. m
    <3>1. /\ i - m \in 1 .. n /\ m + (i - m) = i
          /\ j - m \in 1 .. n /\ m + (j - m) = j /\ i - m < j - m
      BY <1>2, <2>2, <1>0
    <3>2. w[i] = t[i - m] /\ w[j] = t[j - m]  BY <3>1, <1>0
    <3>. QED  BY <1>2, <3>1, <3>2, <1>0 DEF Serials!Rising
  <2>3. CASE i \in 1 .. m /\ j \notin 1 .. m
    <3>1. j - m \in 1 .. n /\ m + (j - m) = j
      BY <1>2, <2>3, <1>0
    <3>2. w[i] = s[i] /\ w[j] = t[j - m]  BY <2>3, <3>1, <1>0
    <3>3. s[i] \in Serials!Range(s) /\ t[j - m] \in Serials!Range(t)
      BY <2>3, <3>1, <1>0 DEF Serials!Range
    <3>. QED  BY <1>2, <3>2, <3>3 DEF Before
  <2>. QED  BY <2>1, <2>2, <2>3
<1>3. ASSUME Serials!Rising(s), Serials!Rising(t), Before(Serials!Range(s), Serials!Range(t))
      PROVE  Serials!Rising(w)
  BY <1>2, <1>3, <1>0 DEF Serials!Rising
<1>. QED  BY <1>1, <1>3 DEF w

LEMMA ConcatAssoc ==
    ASSUME NEW s \in Bytes, NEW t \in Bytes, NEW r \in Bytes
    PROVE  (s \o t) \o r = s \o (t \o r)
BY DEF Bytes

LEMMA SameSequence ==
    ASSUME NEW s \in Bytes, NEW t \in Bytes, Len(s) = Len(t), \A i \in 1 .. Len(s) : s[i] = t[i]
    PROVE  s = t
BY SMTT(20) DEF Bytes

LEMMA Appended ==
    ASSUME NEW s \in Bytes, NEW n \in Nat
    PROVE  Append(s, n) = s \o <<n>>
BY SMTT(20) DEF Bytes

LEMMA Part ==
    ASSUME NEW s \in Bytes, NEW m \in 0 .. Len(s), NEW n \in m .. Len(s)
    PROVE  /\ SubSeq(s, m + 1, n) \in Bytes /\ Len(SubSeq(s, m + 1, n)) = n - m
           /\ \A i \in 1 .. n - m : SubSeq(s, m + 1, n)[i] = s[m + i]
<1>1. SubSeq(s, m + 1, n) \in Bytes /\ Len(SubSeq(s, m + 1, n)) = n - m
  BY DEF Bytes
<1>2. \A i \in 1 .. n - m : SubSeq(s, m + 1, n)[i] = s[m + i]
  BY SMTT(20) DEF Bytes
<1>. QED  BY <1>1, <1>2

(* A part of a sequence is a part of it and the rest of it. *)
LEMMA Divided ==
    ASSUME NEW s \in Bytes, NEW m \in 0 .. Len(s), NEW k \in m .. Len(s), NEW n \in k .. Len(s)
    PROVE  SubSeq(s, m + 1, n) = SubSeq(s, m + 1, k) \o SubSeq(s, k + 1, n)
<1> DEFINE f == SubSeq(s, m + 1, k)
           g == SubSeq(s, k + 1, n)
           h == SubSeq(s, m + 1, n)
<1>0. /\ Len(s) \in Nat /\ k \in 0 .. Len(s) /\ n \in m .. Len(s)
      /\ m \in Nat /\ k \in Nat /\ n \in Nat
  BY DEF Bytes
<1>1. f \in Bytes /\ Len(f) = k - m /\ \A i \in 1 .. k - m : f[i] = s[m + i]  BY <1>0, Part
<1>2. g \in Bytes /\ Len(g) = n - k /\ \A i \in 1 .. n - k : g[i] = s[k + i]  BY <1>0, Part
<1>3. h \in Bytes /\ Len(h) = n - m /\ \A i \in 1 .. n - m : h[i] = s[m + i]  BY <1>0, Part
<1>. HIDE DEF f, g, h
<1>4. PICK w \in Bytes : w = f \o g  BY <1>1, <1>2, ConcatType
<1>5. /\ Len(w) = n - m
      /\ \A i \in 1 .. Len(f) : w[i] = f[i]
      /\ \A i \in 1 .. Len(g) : w[Len(f) + i] = g[i]
  <2>1. Len(w) = Len(f) + Len(g)  BY <1>1, <1>2, <1>4, ConcatType
  <2>2. \A i \in 1 .. Len(f) : (f \o g)[i] = f[i]  BY <1>1, <1>2, ConcatIndex
  <2>3. \A i \in 1 .. Len(g) : (f \o g)[Len(f) + i] = g[i]
    <3>1. f \in Bytes /\ g \in Bytes  BY <1>1, <1>2
    <3>. QED  BY <3>1, ConcatIndex, ZenonT(30)
  <2>4. Len(w) = n - m  BY <1>0, <1>1, <1>2, <2>1
  <2>. QED  BY <1>4, <2>2, <2>3, <2>4
<1>6. ASSUME NEW i \in 1 .. n - m PROVE w[i] = h[i]
  <2>1. CASE i <= k - m  BY <1>0, <1>1, <1>3, <1>5, <2>1
  <2>2. CASE ~(i <= k - m)
    <3>1. i - (k - m) \in 1 .. n - k /\ (k - m) + (i - (k - m)) = i
          /\ k + (i - (k - m)) = m + i
      BY <1>0, <2>2
    <3>2. PICK j \in 1 .. n - k : j = i - (k - m) /\ (k - m) + j = i /\ k + j = m + i  BY <3>1
    <3>3. w[i] = g[j]  BY <1>1, <1>2, <1>5, <3>2
    <3>4. g[j] = s[k + j] /\ h[i] = s[m + i]  BY <1>2, <1>3
    <3>. QED  BY <3>2, <3>3, <3>4
  <2>. QED  BY <2>1, <2>2
<1>7. w = h  BY <1>3, <1>5, <1>6, SameSequence
<1>. QED  BY <1>4, <1>7 DEF f, g, h

(* A sequence is its first bytes and the others. *)
LEMMA Pieces ==
    ASSUME NEW s \in Bytes, NEW n \in 0 .. Len(s)
    PROVE  /\ SubSeq(s, 1, n) \in Bytes /\ Len(SubSeq(s, 1, n)) = n
           /\ SubSeq(s, n + 1, Len(s)) \in Bytes /\ Len(SubSeq(s, n + 1, Len(s))) = Len(s) - n
           /\ s = SubSeq(s, 1, n) \o SubSeq(s, n + 1, Len(s))
           /\ \A i \in 1 .. n : SubSeq(s, 1, n)[i] = s[i]
           /\ \A i \in 1 .. Len(s) - n : SubSeq(s, n + 1, Len(s))[i] = s[n + i]
<1>0. Len(s) \in Nat  BY DEF Bytes
<1>1. PICK m \in 0 .. n : m = 0  BY <1>0
<1>2. m + 1 = 1 /\ m \in 0 .. Len(s) /\ n \in m .. Len(s) /\ Len(s) \in m .. Len(s)
      /\ Len(s) \in n .. Len(s) /\ n - m = n /\ Len(s) - m = Len(s)
      /\ \A i \in 1 .. n : m + i = i
  BY <1>0, <1>1
<1>3. /\ SubSeq(s, m + 1, n) \in Bytes /\ Len(SubSeq(s, m + 1, n)) = n - m
      /\ \A i \in 1 .. n - m : SubSeq(s, m + 1, n)[i] = s[m + i]
  BY <1>2, Part
<1>4. /\ SubSeq(s, n + 1, Len(s)) \in Bytes /\ Len(SubSeq(s, n + 1, Len(s))) = Len(s) - n
      /\ \A i \in 1 .. Len(s) - n : SubSeq(s, n + 1, Len(s))[i] = s[n + i]
  BY <1>2, Part
<1>5. SubSeq(s, m + 1, Len(s)) = SubSeq(s, m + 1, n) \o SubSeq(s, n + 1, Len(s))
  BY <1>2, Divided
<1>6. SubSeq(s, 1, Len(s)) = s  BY <1>0 DEF Bytes
<1>. QED  BY <1>2, <1>3, <1>4, <1>5, <1>6

(* Bytes cut out of the middle: the rest still rises, without them.        *)
LEMMA Cut ==
    ASSUME NEW a \in Bytes, NEW b \in Bytes, NEW c \in Bytes, Serials!Rising(a \o (b \o c))
    PROVE  /\ Serials!Rising(a \o c)
           /\ Serials!Range(a \o c) \ {0} = (Serials!Range(a \o (b \o c)) \ {0}) \ Serials!Range(b)
<1> DEFINE A == Serials!Range(a)
           B == Serials!Range(b)
           C == Serials!Range(c)
<1>0. b \o c \in Bytes  BY ConcatType
<1>1. /\ Serials!Rising(a) /\ Serials!Rising(b) /\ Serials!Rising(c)
      /\ Before(A, Serials!Range(b \o c)) /\ Before(B, C)
  BY <1>0, ConcatRising
<1>2. /\ Serials!Range(b \o c) = B \cup C /\ Serials!Range(a \o c) = A \cup C
      /\ Serials!Range(a \o (b \o c)) = A \cup (B \cup C)
  BY <1>0, ConcatRange
<1>3. A \subseteq Nat /\ B \subseteq Nat /\ C \subseteq Nat  BY RangeNat
<1>. HIDE DEF A, B, C
<1>4. Before(A, B) /\ Before(A, C)  BY <1>1, <1>2 DEF Before
<1>5. Serials!Rising(a \o c)  BY <1>1, <1>4, ConcatRising DEF A, C
<1>6. (A \cup C) \ {0} = ((A \cup (B \cup C)) \ {0}) \ B
  <2>1. \A x \in A \cup C : x # 0 => x \notin B
    BY <1>1, <1>3, <1>4 DEF Before
  <2>. QED  BY <2>1
<1>. QED  BY <1>2, <1>5, <1>6 DEF B
(* What the guest has read and what waits for it are the bytes taken for   *)
(* it since the last clear.                                                *)
Guest(s, cleared, taken) ==
    Serials!Rising(s) /\ Serials!Range(s) \ {0} = cleared + 1 .. taken

(* What the host got and what waits for it are the bytes the guest wrote,  *)
(* but for the lost ones.                                                  *)
HostEnd(s, wrote, lost) == Serials!Rising(s) /\ Serials!Range(s) = (1 .. wrote) \ lost

LEMMA Empty ==
    /\ <<>> \in Bytes /\ Len(<<>>) = 0 /\ <<>> \o <<>> = <<>>
    /\ Serials!Range(<<>>) = {} /\ Serials!Rising(<<>>)
    /\ \A s \in Bytes : s \o <<>> = s /\ <<>> \o s = s
BY DEF Bytes, Serials!Range, Serials!Rising

LEMMA One ==
    ASSUME NEW n \in Nat
    PROVE  /\ <<n>> \in Bytes /\ Len(<<n>>) = 1 /\ <<n>>[1] = n
           /\ Serials!Range(<<n>>) = {n} /\ Serials!Rising(<<n>>)
<1>1. <<n>> \in Bytes /\ Len(<<n>>) = 1 /\ <<n>>[1] = n /\ DOMAIN <<n>> = {1}  BY DEF Bytes
<1>. QED  BY <1>1 DEF Serials!Range, Serials!Rising

(* A byte is moved from the front of one to the end of another.            *)
LEMMA Front ==
    ASSUME NEW s \in Bytes, s # <<>>
    PROVE  /\ Head(s) \in Nat /\ Tail(s) \in Bytes /\ Len(Tail(s)) = Len(s) - 1
           /\ s = <<Head(s)>> \o Tail(s)
           /\ \A r \in Bytes : Append(r, Head(s)) = r \o <<Head(s)>>
<1>1. Head(s) \in Nat /\ Tail(s) \in Bytes /\ Len(Tail(s)) = Len(s) - 1  BY DEF Bytes
<1>2. s = <<Head(s)>> \o Tail(s)  BY SMTT(20) DEF Bytes
<1>. QED  BY <1>1, <1>2, Appended

(* The first bytes of what came, as many as there is room for. *)
LEMMA FirstFacts ==
    ASSUME NEW s \in Bytes, NEW n \in Nat
    PROVE  \E k \in 0 .. Len(s) :
              /\ k <= n /\ Serials!First(n, s) = SubSeq(s, 1, k)
              /\ k = Len(Serials!First(n, s)) /\ Serials!First(n, s) \in Bytes
              /\ n >= Len(s) => k = Len(s)
<1>1. Len(s) \in Nat  BY DEF Bytes
<1>2. PICK k \in 0 .. Len(s) : k = (IF n < Len(s) THEN n ELSE Len(s))  BY <1>1
<1>3. SubSeq(s, 1, k) \in Bytes /\ Len(SubSeq(s, 1, k)) = k  BY Pieces
<1>4. Serials!First(n, s) = SubSeq(s, 1, k)  BY <1>2 DEF Serials!First
<1>. QED  BY <1>1, <1>2, <1>3, <1>4

(* Taken from the host: numbered on. *)
LEMMA Arrived ==
    ASSUME NEW s \in Bytes, NEW c \in Nat, NEW t \in Nat, c <= t, Guest(s, c, t),
           NEW m \in Bytes, \A i \in 1 .. Len(m) : m[i] = t + i
    PROVE  Guest(s \o m, c, t + Len(m))
<1>1. Len(m) \in Nat /\ DOMAIN m = 1 .. Len(m)  BY DEF Bytes
<1>2. Serials!Range(m) = t + 1 .. t + Len(m)
  <2>1. \A x \in t + 1 .. t + Len(m) : x - t \in 1 .. Len(m) /\ x = m[x - t]
    BY <1>1
  <2>2. Serials!Range(m) \subseteq t + 1 .. t + Len(m)
    BY <1>1 DEF Serials!Range
  <2>3. t + 1 .. t + Len(m) \subseteq Serials!Range(m)
    BY <1>1, <2>1 DEF Serials!Range
  <2>. QED  BY <2>2, <2>3
<1>3. Serials!Rising(m)  BY <1>1 DEF Serials!Rising
<1>4. Before(Serials!Range(s), Serials!Range(m))
  <2>1. \A x \in Serials!Range(s) \ {0} : x \in c + 1 .. t  BY DEF Guest
  <2>. QED  BY <1>1, <1>2, <2>1 DEF Before
<1>5. Serials!Rising(s \o m)  BY <1>3, <1>4, ConcatRising DEF Guest
<1>6. Serials!Range(s \o m) \ {0} = (c + 1 .. t) \cup (t + 1 .. t + Len(m))
  <2>1. 0 \notin t + 1 .. t + Len(m)  BY <1>1
  <2>. QED  BY <1>2, <2>1, ConcatRange DEF Guest
<1>7. (c + 1 .. t) \cup (t + 1 .. t + Len(m)) = c + 1 .. t + Len(m)  BY <1>1
<1>. QED  BY <1>5, <1>6, <1>7 DEF Guest

(* Echoes and results are nobody's bytes. *)
LEMMA MadeUp ==
    ASSUME NEW s \in Bytes, NEW c, NEW t, Guest(s, c, t),
           NEW z \in Bytes, Serials!Range(z) \subseteq {0}
    PROVE  Guest(s \o z, c, t)
<1>1. Serials!Rising(z)  BY ConcatIndex DEF Serials!Rising, Serials!Range
<1>2. Before(Serials!Range(s), Serials!Range(z))  BY DEF Before
<1>. QED  BY <1>1, <1>2, ConcatRising, ConcatRange DEF Guest

LEMMA Popped ==
    ASSUME NEW read \in Bytes, NEW ring \in Bytes, ring # <<>>, NEW c \in Nat, NEW t \in Nat,
           Guest(read \o ring, c, t)
    PROVE  LET after == IF Head(ring) = 0 THEN read ELSE Append(read, Head(ring))
           IN  after \in Bytes /\ Guest(after \o Tail(ring), c, t)
<1> DEFINE h == Head(ring)
           rest == Tail(ring)
<1>1. /\ h \in Nat /\ rest \in Bytes /\ ring = <<h>> \o rest
      /\ Append(read, h) = read \o <<h>>
  BY Front
<1>. HIDE DEF h, rest
<1>2. <<h>> \in Bytes /\ Serials!Range(<<h>>) = {h}  BY <1>1, One
<1>3. CASE h = 0
  <2>1. /\ Serials!Rising(read \o rest)
        /\ Serials!Range(read \o rest) \ {0} = (Serials!Range(read \o ring) \ {0}) \ {h}
    BY <1>1, <1>2, Cut DEF Guest
  <2>2. Guest(read \o rest, c, t)  BY <1>3, <2>1 DEF Guest
  <2>. QED  BY <1>3, <2>2 DEF h, rest
<1>4. CASE h # 0
  <2>1. (read \o <<h>>) \o rest = read \o ring
    <3>1. (read \o <<h>>) \o rest = read \o (<<h>> \o rest)
      BY <1>1, <1>2, ConcatAssoc, ZenonT(30)
    <3>. QED  BY <1>1, <3>1
  <2>2. read \o <<h>> \in Bytes  BY <1>2, ConcatType
  <2>3. Guest(Append(read, h) \o rest, c, t) /\ Append(read, h) \in Bytes  BY <1>1, <2>1, <2>2
  <2>. QED  BY <1>4, <2>3 DEF h, rest
<1>. QED  BY <1>3, <1>4

LEMMA Cleaned ==
    ASSUME NEW t \in Nat
    PROVE  Guest(<<>> \o <<>>, t, t)
BY Empty DEF Guest

LEMMA Wrote ==
    ASSUME NEW s \in Bytes, NEW n \in Nat, NEW lost \in SUBSET (1 .. n), HostEnd(s, n, lost)
    PROVE  /\ HostEnd(s \o <<n + 1>>, n + 1, lost)
           /\ HostEnd(s, n + 1, lost \cup {n + 1})
           /\ lost \cup {n + 1} \in SUBSET (1 .. n + 1) /\ lost \in SUBSET (1 .. n + 1)
<1>1. <<n + 1>> \in Bytes /\ Serials!Range(<<n + 1>>) = {n + 1} /\ Serials!Rising(<<n + 1>>)
  BY One
<1>2. Before(Serials!Range(s), {n + 1})  BY DEF Before, HostEnd
<1>3. (1 .. n + 1) \ lost = ((1 .. n) \ lost) \cup {n + 1}  OBVIOUS
<1>4. (1 .. n + 1) \ (lost \cup {n + 1}) = (1 .. n) \ lost  OBVIOUS
<1>5. Serials!Rising(s \o <<n + 1>>)  BY <1>1, <1>2, ConcatRising DEF HostEnd
<1>6. Serials!Range(s \o <<n + 1>>) = Serials!Range(s) \cup {n + 1}  BY <1>1, ConcatRange
<1>7. HostEnd(s \o <<n + 1>>, n + 1, lost)  BY <1>3, <1>5, <1>6 DEF HostEnd
<1>8. HostEnd(s, n + 1, lost \cup {n + 1})  BY <1>4 DEF HostEnd
<1>9. lost \cup {n + 1} \in SUBSET (1 .. n + 1) /\ lost \in SUBSET (1 .. n + 1)  OBVIOUS
<1>. QED  BY <1>7, <1>8, <1>9

(* What is known of the ring before a send, and what must hold after one in
   which k bytes got out and those up to the out-th are lost. *)
Sendable(got, tx, n, lost, k, out) ==
    /\ got \in Bytes /\ tx \in Bytes /\ n \in Nat /\ lost \in SUBSET (1 .. n)
    /\ HostEnd(got \o tx, n, lost)
    /\ k \in 0 .. Len(tx) /\ out \in k .. Len(tx)

AfterSend(got, tx, n, lost, k, out) ==
    /\ got \o SubSeq(tx, 1, k) \in Bytes
    /\ SubSeq(tx, out + 1, Len(tx)) \in Bytes
    /\ Len(SubSeq(tx, out + 1, Len(tx))) = Len(tx) - out
    /\ HostEnd((got \o SubSeq(tx, 1, k)) \o SubSeq(tx, out + 1, Len(tx)), n,
               lost \cup Serials!Range(SubSeq(tx, k + 1, out)))
    /\ lost \cup Serials!Range(SubSeq(tx, k + 1, out)) \in SUBSET (1 .. n)

(* A send, whole or failing, leaves the host's end in order: what got out follows
   what the host had, and what is missing is what the failure took. *)
LEMMA Went ==
    ASSUME NEW got, NEW tx, NEW n, NEW lost, NEW k, NEW out,
           Sendable(got, tx, n, lost, k, out)
    PROVE  AfterSend(got, tx, n, lost, k, out)
<1> DEFINE more == SubSeq(tx, 1, k)
           gone == SubSeq(tx, k + 1, out)
           rest == SubSeq(tx, out + 1, Len(tx))
           left == SubSeq(tx, k + 1, Len(tx))
<1>a. /\ got \in Bytes /\ tx \in Bytes /\ n \in Nat /\ lost \in SUBSET (1 .. n)
      /\ HostEnd(got \o tx, n, lost) /\ k \in 0 .. Len(tx) /\ out \in k .. Len(tx)
  BY DEF Sendable
<1>0. Len(tx) \in Nat /\ out \in 0 .. Len(tx)  BY <1>a DEF Bytes
<1>1. more \in Bytes /\ left \in Bytes /\ Len(left) = Len(tx) - k /\ tx = more \o left
  BY <1>a, Pieces
<1>2. rest \in Bytes /\ Len(rest) = Len(tx) - out  BY <1>0, <1>a, Pieces
<1>3. gone \in Bytes /\ left = gone \o rest
  <2>1. Len(tx) \in out .. Len(tx)  BY <1>0, <1>a
  <2>. QED  BY <1>0, <1>a, <2>1, Part, Divided
<1>. HIDE DEF more, gone, rest, left
<1>4. got \o more \in Bytes /\ gone \o rest \in Bytes
  <2>1. got \o more \in Bytes  BY <1>1, <1>a, ConcatType
  <2>2. gone \o rest \in Bytes  BY <1>2, <1>3, ConcatType
  <2>. QED  BY <2>1, <2>2
<1>5. got \o tx = (got \o more) \o (gone \o rest)
  <2>1. got \in Bytes /\ more \in Bytes /\ left \in Bytes  BY <1>1, <1>a
  <2>2. (got \o more) \o left = got \o (more \o left)  BY <2>1, ConcatAssoc, ZenonT(30)
  <2>. QED  BY <1>1, <1>3, <2>2
<1>6. /\ Serials!Rising((got \o more) \o rest)
      /\ Serials!Range((got \o more) \o rest) \ {0}
           = (Serials!Range(got \o tx) \ {0}) \ Serials!Range(gone)
  BY <1>a, <1>2, <1>3, <1>4, <1>5, Cut DEF HostEnd
<1>7. /\ Serials!Range(got \o tx) = Serials!Range(got \o more) \cup Serials!Range(gone \o rest)
      /\ Serials!Range(gone \o rest) = Serials!Range(gone) \cup Serials!Range(rest)
      /\ Serials!Range((got \o more) \o rest) = Serials!Range(got \o more) \cup Serials!Range(rest)
  BY <1>2, <1>3, <1>4, <1>5, ConcatRange
<1>8. 0 \notin Serials!Range(got \o tx)  BY <1>a DEF HostEnd
<1>9. HostEnd((got \o more) \o rest, n, lost \cup Serials!Range(gone))
  <2>1. Serials!Range((got \o more) \o rest) = Serials!Range(got \o tx) \ Serials!Range(gone)
    BY <1>6, <1>7, <1>8
  <2>. QED  BY <1>a, <1>6, <2>1 DEF HostEnd
<1>10. Serials!Range(gone) \subseteq 1 .. n  BY <1>a, <1>7 DEF HostEnd
<1>. QED  BY <1>a, <1>2, <1>4, <1>9, <1>10 DEF more, gone, rest, AfterSend
-----------------------------------------------------------------------------
(* The serial boards: their state *)
usifac == v1
perryfi == v2
line == v3
hist == v4

USE DEF usifac, perryfi, line, hist

Interface(q) ==
    /\ DOMAIN q = {"present", "backend", "client", "waits", "rx", "tx", "burst"}
    /\ q.rx \in Bytes /\ Len(q.rx) <= Room /\ q.tx \in Bytes /\ Len(q.tx) <= Room
ModemType(q) ==
    /\ DOMAIN q = {"present", "state", "echo", "quiet", "len", "fd", "esc", "rx"}
    /\ q.rx \in Bytes /\ Len(q.rx) <= Room
    /\ q.state = "ONLINE" => q.fd

(* What is on its way follows what was taken. *)
OnWire(l, taken) ==
    /\ DOMAIN l = {"up", "fin", "wire"}
    /\ l.wire \in Bytes /\ \A i \in 1 .. Len(l.wire) : l.wire[i] = taken + i
History(h) ==
    /\ DOMAIN h = {"read", "got", "taken", "wrote", "lost", "cleared", "events"}
    /\ h.read \in Bytes /\ h.got \in Bytes /\ h.taken \in Nat /\ h.wrote \in Nat
    /\ h.cleared \in Nat /\ h.cleared <= h.taken /\ h.lost \in SUBSET (1 .. h.wrote)

Waiting(q, m) == IF m.present THEN m.rx ELSE q.rx

(* With a modem plugged in, the interface's rings stay as they were. *)
InOrder(q, m, h) ==
    /\ Guest(h.read \o Waiting(q, m), h.cleared, h.taken)
    /\ HostEnd(h.got \o q.tx, h.wrote, h.lost)
    /\ m.present => q.tx = <<>>
SerialInv == /\ Interface(usifac) /\ ModemType(perryfi) /\ OnWire(line, hist.taken) /\ History(hist)
             /\ InOrder(usifac, perryfi, hist)

SameBytes(h, g) ==
    /\ DOMAIN h = DOMAIN g /\ h.read = g.read /\ h.got = g.got /\ h.taken = g.taken
    /\ h.wrote = g.wrote /\ h.lost = g.lost /\ h.cleared = g.cleared
SameRings(q, r) == DOMAIN q = DOMAIN r /\ q.rx = r.rx /\ q.tx = r.tx

LEMMA Positive == Room \in Nat /\ ReplySize \in Nat /\ 1 <= Room
BY SerialsAssumption DEF Serials!SerialAssumption

LEMMA CountedEvent ==
    ASSUME NEW h, History(h), Serials!Event(h)
    PROVE  SameBytes(hist', h) /\ History(hist')
<1>1. hist' = [h EXCEPT !.events = @ + 1]  BY DEF Serials!Event
<1>2. SameBytes(hist', h)  BY <1>1 DEF SameBytes, History
<1>. QED  BY <1>2 DEF SameBytes, History

(* Nothing happens to a byte. *)
LEMMA QuietBytes ==
    ASSUME SerialInv, SameRings(usifac', usifac), UNCHANGED perryfi, SameBytes(hist', hist),
           OnWire(line', hist.taken)
    PROVE  SerialInv'
BY DEF SerialInv, SameRings, SameBytes, Interface, ModemType, History, InOrder, Waiting

LEMMA EmptyWire ==
    ASSUME NEW up, NEW fin, NEW n
    PROVE  OnWire([up |-> up, fin |-> fin, wire |-> <<>>], n)
BY Empty DEF OnWire

LEMMA HostStep ==
    ASSUME SerialInv, Serials!Host \/ Serials!Burst
    PROVE  SerialInv'
<1>0. History(hist) /\ OnWire(line, hist.taken) /\ Interface(usifac)  BY DEF SerialInv
<1>1. CASE Serials!HostLeaves \/ Serials!Attach
  <2>1. /\ UNCHANGED perryfi /\ SameBytes(hist', hist)
        /\ (\E w : usifac' = [usifac EXCEPT !.waits = w]) \/ UNCHANGED usifac
    BY <1>0, <1>1, CountedEvent DEF Serials!HostLeaves, Serials!Attach
  <2>2. SameRings(usifac', usifac)  BY <1>0, <2>1 DEF SameRings, Interface
  <2>3. \/ UNCHANGED line
        \/ line' = [line EXCEPT !.up = TRUE, !.fin = FALSE]
        \/ \E w \in {<<>>, line.wire} : line' = [line EXCEPT !.up = FALSE, !.wire = w]
    BY <1>1 DEF Serials!HostLeaves, Serials!Attach
  <2>4. OnWire(line', hist.taken)
    <3>1. CASE UNCHANGED line  BY <1>0, <3>1
    <3>2. CASE line' = [line EXCEPT !.up = TRUE, !.fin = FALSE]  BY <1>0, <3>2 DEF OnWire
    <3>3. CASE \E w \in {<<>>, line.wire} : line' = [line EXCEPT !.up = FALSE, !.wire = w]
      <4>1. PICK w \in {<<>>, line.wire} : line' = [line EXCEPT !.up = FALSE, !.wire = w]
        BY <3>3
      <4>2. line'.wire = w /\ DOMAIN line' = DOMAIN line  BY <1>0, <4>1 DEF OnWire
      <4>3. w \in Bytes /\ \A i \in 1 .. Len(w) : w[i] = hist.taken + i
        BY <1>0, Empty DEF OnWire
      <4>. QED  BY <1>0, <4>2, <4>3 DEF OnWire
    <3>. QED  BY <2>3, <3>1, <3>2, <3>3
  <2>. QED  BY <2>1, <2>2, <2>4, QuietBytes
<1>2. CASE Serials!HostWrites
  <2> DEFINE w == line.wire
             n == hist.taken + Len(w) + 1
  <2>1. line' = [line EXCEPT !.wire = Append(w, n)] /\ UNCHANGED <<usifac, perryfi, hist>>
    BY <1>2 DEF Serials!HostWrites
  <2>2. /\ w \in Bytes /\ Len(w) \in Nat /\ hist.taken \in Nat
        /\ \A i \in 1 .. Len(w) : w[i] = hist.taken + i
    BY <1>0 DEF OnWire, History, Bytes
  <2>3. line'.wire = Append(w, n) /\ DOMAIN line' = DOMAIN line
    BY <1>0, <2>1 DEF OnWire
  <2>. HIDE DEF w
  <2>4. Append(w, n) \in Bytes /\ Len(Append(w, n)) = Len(w) + 1
        /\ \A i \in 1 .. Len(w) + 1 : Append(w, n)[i] = IF i <= Len(w) THEN w[i] ELSE n
    BY <2>2 DEF Bytes
  <2>5. \A i \in 1 .. Len(w) + 1 : Append(w, n)[i] = hist.taken + i
    BY <2>2, <2>4
  <2>. HIDE DEF n
  <2>6. OnWire(line', hist.taken)  BY <1>0, <2>3, <2>4, <2>5 DEF OnWire
  <2>. QED  BY <2>1, <2>6, QuietBytes DEF SameRings, SameBytes
<1>3. CASE Serials!HostFinishes
  <2>1. line' = [line EXCEPT !.fin = TRUE] /\ UNCHANGED <<usifac, perryfi, hist>>
    BY <1>3 DEF Serials!HostFinishes
  <2>2. OnWire(line', hist.taken)  BY <1>0, <2>1 DEF OnWire
  <2>. QED  BY <2>1, <2>2, QuietBytes DEF SameRings, SameBytes
<1>4. CASE Serials!Burst
  <2>1. (\E on : usifac' = [usifac EXCEPT !.burst = on]) /\ UNCHANGED <<perryfi, line, hist>>
    BY <1>4 DEF Serials!Burst
  <2>2. SameRings(usifac', usifac)  BY <1>0, <2>1 DEF SameRings, Interface
  <2>. QED  BY <1>0, <2>1, <2>2, QuietBytes DEF SameBytes
<1>. QED  BY <1>1, <1>2, <1>3, <1>4 DEF Serials!Host

(* The guest reads a byte. *)
LEMMA ReadStep ==
    ASSUME SerialInv, Serials!ReadData
    PROVE  SerialInv'
<1> DEFINE ring == Waiting(usifac, perryfi)
           after == IF Head(ring) = 0 THEN hist.read ELSE Append(hist.read, Head(ring))
<1>0. /\ History(hist) /\ Interface(usifac) /\ ModemType(perryfi)
      /\ InOrder(usifac, perryfi, hist) /\ OnWire(line, hist.taken)
  BY DEF SerialInv
<1>1. /\ ring \in Bytes /\ Len(ring) <= Room /\ hist.read \in Bytes
      /\ hist.cleared \in Nat /\ hist.taken \in Nat
  BY <1>0 DEF Interface, ModemType, History, Waiting
<1>2. ring # <<>> /\ UNCHANGED line /\ hist' = [hist EXCEPT !.read = after]
      /\ \/ ~perryfi.present /\ usifac' = [usifac EXCEPT !.rx = Tail(ring)] /\ UNCHANGED perryfi
         \/ perryfi.present /\ perryfi' = [perryfi EXCEPT !.rx = Tail(ring)] /\ UNCHANGED usifac
  BY DEF Serials!ReadData, Serials!PopRing, Serials!Modem, Waiting
<1>3. after \in Bytes /\ Guest(after \o Tail(ring), hist.cleared, hist.taken)
  BY <1>0, <1>1, <1>2, Popped DEF InOrder
<1>4. Tail(ring) \in Bytes /\ Len(Tail(ring)) <= Room
  BY <1>1, <1>2, Front, Positive DEF Bytes
<1>. HIDE DEF after
<1>5. PICK rest \in Bytes : rest = Tail(ring)  BY <1>4
<1>6. /\ Interface(usifac') /\ ModemType(perryfi') /\ Waiting(usifac', perryfi') = rest
      /\ usifac'.tx = usifac.tx /\ perryfi'.present = perryfi.present
  <2>1. CASE ~perryfi.present
    BY <1>0, <1>2, <1>4, <1>5, <2>1 DEF Interface, ModemType, Waiting
  <2>2. CASE perryfi.present
    BY <1>0, <1>2, <1>4, <1>5, <2>2 DEF Interface, ModemType, Waiting
  <2>. QED  BY <2>1, <2>2
<1>7. /\ hist'.read = after /\ hist'.got = hist.got /\ hist'.taken = hist.taken
      /\ hist'.wrote = hist.wrote /\ hist'.lost = hist.lost /\ hist'.cleared = hist.cleared
      /\ DOMAIN hist' = DOMAIN hist
  BY <1>0, <1>2 DEF History
<1>8. History(hist') /\ OnWire(line', hist'.taken)  BY <1>0, <1>2, <1>3, <1>7 DEF History, OnWire
<1>9. InOrder(usifac', perryfi', hist')  BY <1>0, <1>3, <1>5, <1>6, <1>7 DEF InOrder
<1>. QED  BY <1>6, <1>8, <1>9 DEF SerialInv
(* Bytes of nobody put into a ring that may have room for them. *)
LEMMA Padding ==
    ASSUME NEW s \in Bytes, Len(s) <= Room, NEW z \in Bytes, Serials!Range(z) \subseteq {0}
    PROVE  /\ Serials!Pushed(s, z) \in Bytes /\ Len(Serials!Pushed(s, z)) <= Room
           /\ \E y \in Bytes : Serials!Range(y) \subseteq {0} /\ Serials!Pushed(s, z) = s \o y
<1>1. Room - Len(s) \in Nat /\ Len(s) \in Nat  BY Positive DEF Bytes
<1>2. PICK k \in 0 .. Len(z) :
         /\ k <= Room - Len(s) /\ Serials!First(Room - Len(s), z) = SubSeq(z, 1, k)
  BY <1>1, FirstFacts
<1>3. PICK y \in Bytes : y = SubSeq(z, 1, k) /\ Len(y) = k /\ z = y \o SubSeq(z, k + 1, Len(z))
  BY Pieces
<1>4. Serials!Range(y) \subseteq {0}
  <2>1. SubSeq(z, k + 1, Len(z)) \in Bytes  BY Pieces
  <2>2. PICK r \in Bytes : r = SubSeq(z, k + 1, Len(z))  BY <2>1
  <2>3. z = y \o r  BY <1>3, <2>2
  <2>4. Serials!Range(z) = Serials!Range(y) \cup Serials!Range(r)  BY <2>3, ConcatRange
  <2>. QED  BY <2>4
<1>5. Serials!Pushed(s, z) = s \o y  BY <1>2, <1>3 DEF Serials!Pushed
<1>6. s \o y \in Bytes /\ Len(s \o y) = Len(s) + Len(y)  BY ConcatType
<1>7. Len(s) + Len(y) <= Room  BY <1>1, <1>2, <1>3, Positive
<1>. QED  BY <1>4, <1>5, <1>6, <1>7

LEMMA ZeroBytes ==
    /\ Serials!Zeroes(ReplySize) \in Bytes /\ Serials!Range(Serials!Zeroes(ReplySize)) \subseteq {0}
    /\ <<0>> \in Bytes /\ Serials!Range(<<0>>) \subseteq {0}
BY Positive, One DEF Serials!Zeroes, Serials!Range, Bytes

LEMMA ClearStep ==
    ASSUME SerialInv, Serials!FullReset \/ Serials!ClearRx
    PROVE  SerialInv'
<1>0. /\ History(hist) /\ Interface(usifac) /\ ModemType(perryfi)
      /\ InOrder(usifac, perryfi, hist) /\ OnWire(line, hist.taken)
  BY DEF SerialInv
<1>1. /\ ~perryfi.present /\ UNCHANGED <<perryfi, line>>
      /\ \/ /\ Serials!Cleared(usifac.tx, usifac')
            /\ usifac' = [usifac EXCEPT !.rx = <<>>, !.tx = <<>>, !.burst = FALSE]
         \/ /\ Serials!Cleared(<<>>, usifac')
            /\ usifac' = [usifac EXCEPT !.rx = <<>>]
  BY DEF Serials!FullReset, Serials!ClearRx, Serials!Cleared, Serials!Modem
<1>2. /\ usifac'.rx = <<>> /\ usifac'.tx \in {<<>>, usifac.tx} /\ Interface(usifac')
  <2>1. PICK none \in Bytes : none = <<>> /\ Len(none) <= Room  BY Empty, Positive
  <2>2. CASE usifac' = [usifac EXCEPT !.rx = <<>>, !.tx = <<>>, !.burst = FALSE]
    <3>1. usifac' = [usifac EXCEPT !.rx = none, !.tx = none, !.burst = FALSE]  BY <2>1, <2>2
    <3>2. usifac'.rx = none /\ usifac'.tx = none /\ DOMAIN usifac' = DOMAIN usifac
      BY <1>0, <3>1 DEF Interface
    <3>. QED  BY <1>0, <2>1, <3>2 DEF Interface
  <2>3. CASE usifac' = [usifac EXCEPT !.rx = <<>>]
    <3>1. usifac' = [usifac EXCEPT !.rx = none]  BY <2>1, <2>3
    <3>2. usifac'.rx = none /\ usifac'.tx = usifac.tx /\ DOMAIN usifac' = DOMAIN usifac
      BY <1>0, <3>1 DEF Interface
    <3>. QED  BY <1>0, <2>1, <3>2 DEF Interface
  <2>. QED  BY <1>1, <2>2, <2>3
<1>3. \E gone \in {<<>>, usifac.tx} :
         /\ Serials!Cleared(gone, usifac')
         /\ usifac'.tx = IF gone = <<>> THEN usifac.tx ELSE <<>>
  BY <1>0, <1>1 DEF Interface
<1>4. PICK gone \in {<<>>, usifac.tx} :
         /\ Serials!Cleared(gone, usifac')
         /\ usifac'.tx = IF gone = <<>> THEN usifac.tx ELSE <<>>
  BY <1>3
<1>5. PICK lost : lost = hist.lost \cup Serials!Range(gone)  OBVIOUS
<1>6. HostEnd(hist.got \o usifac'.tx, hist.wrote, lost) /\ lost \in SUBSET (1 .. hist.wrote)
  <2>1. CASE gone = <<>>
    BY <1>0, <1>4, <1>5, <2>1, Empty DEF InOrder, History
  <2>2. CASE gone # <<>>
    <3>1. gone = usifac.tx /\ usifac'.tx = <<>>  BY <1>4, <2>2
    <3>2. /\ hist.got \in Bytes /\ usifac.tx \in Bytes /\ hist.wrote \in Nat
          /\ hist.lost \in SUBSET (1 .. hist.wrote)
          /\ HostEnd(hist.got \o usifac.tx, hist.wrote, hist.lost)
      BY <1>0 DEF InOrder, History, Interface
    <3>3. /\ Serials!Rising(hist.got)
          /\ Serials!Range(hist.got \o usifac.tx)
               = Serials!Range(hist.got) \cup Serials!Range(usifac.tx)
          /\ Before(Serials!Range(hist.got), Serials!Range(usifac.tx))
          /\ Serials!Range(hist.got \o usifac.tx) = (1 .. hist.wrote) \ hist.lost
      BY <3>2, ConcatRising, ConcatRange DEF HostEnd
    <3>4. \A x \in Serials!Range(hist.got) : x \in 1 .. hist.wrote  BY <3>3
    <3>5. Serials!Range(usifac.tx) \subseteq 1 .. hist.wrote  BY <3>3
    <3>6. \A x \in Serials!Range(hist.got) : x \notin Serials!Range(usifac.tx)
      BY <3>3, <3>4 DEF Before
    <3>7. Serials!Range(hist.got) = (1 .. hist.wrote) \ lost
      BY <1>5, <3>1, <3>3, <3>6
    <3>8. hist.got \o <<>> = hist.got  BY <3>2, Empty
    <3>. QED  BY <1>5, <3>1, <3>2, <3>3, <3>5, <3>7, <3>8 DEF HostEnd
  <2>. QED  BY <2>1, <2>2
<1>7. PICK h : /\ h = [hist EXCEPT !.cleared = hist.taken, !.read = <<>>, !.lost = lost]
               /\ Serials!Event(h)
  BY <1>4, <1>5 DEF Serials!Cleared
<1>8. /\ h.read = <<>> /\ h.cleared = hist.taken /\ h.lost = lost
      /\ h.got = hist.got /\ h.taken = hist.taken /\ h.wrote = hist.wrote
      /\ DOMAIN h = DOMAIN hist
  BY <1>0, <1>7 DEF History
<1>9. History(h)
  <2>1. hist.taken \in Nat /\ hist.taken <= hist.taken  BY <1>0 DEF History
  <2>. QED  BY <1>0, <1>6, <1>8, <2>1, Empty DEF History
<1>10. SameBytes(hist', h) /\ History(hist')  BY <1>7, <1>9, CountedEvent
<1>11. InOrder(usifac', perryfi', hist')
  <2>1. Guest(<<>> \o <<>>, hist.taken, hist.taken)  BY <1>0, Cleaned DEF History
  <2>. QED  BY <1>1, <1>2, <1>6, <1>8, <1>10, <2>1 DEF InOrder, Waiting, SameBytes
<1>. QED  BY <1>0, <1>1, <1>2, <1>8, <1>10, <1>11 DEF SerialInv, SameBytes, OnWire

LEMMA StatStep ==
    ASSUME SerialInv, Serials!Stat
    PROVE  SerialInv'
<1>0. /\ History(hist) /\ Interface(usifac) /\ ModemType(perryfi)
      /\ InOrder(usifac, perryfi, hist) /\ OnWire(line, hist.taken)
  BY DEF SerialInv
<1>1. PICK rx : /\ rx = Serials!Pushed(usifac.rx, Serials!Zeroes(ReplySize))
                /\ usifac' = [usifac EXCEPT !.rx = rx]
  BY DEF Serials!Stat
<1>2. /\ ~perryfi.present /\ UNCHANGED <<perryfi, line>> /\ SameBytes(hist', hist)
      /\ History(hist')
  BY <1>0, CountedEvent DEF Serials!Stat, Serials!Modem
<1>3. rx \in Bytes /\ Len(rx) <= Room
  BY <1>0, <1>1, Padding, ZeroBytes DEF Interface
<1>4. PICK y \in Bytes : Serials!Range(y) \subseteq {0} /\ rx = usifac.rx \o y
  BY <1>0, <1>1, Padding, ZeroBytes DEF Interface
<1>5. usifac'.rx = rx /\ usifac'.tx = usifac.tx /\ Interface(usifac')
  BY <1>0, <1>1, <1>3 DEF Interface
<1>6. Guest(hist.read \o rx, hist.cleared, hist.taken)
  <2>1. /\ hist.read \in Bytes /\ usifac.rx \in Bytes
        /\ Guest(hist.read \o usifac.rx, hist.cleared, hist.taken)
    BY <1>0, <1>2 DEF History, Interface, InOrder, Waiting
  <2>2. hist.read \o usifac.rx \in Bytes  BY <2>1, ConcatType
  <2>3. Guest((hist.read \o usifac.rx) \o y, hist.cleared, hist.taken)
    BY <1>4, <2>1, <2>2, MadeUp
  <2>4. (hist.read \o usifac.rx) \o y = hist.read \o (usifac.rx \o y)
    BY <2>1, ConcatAssoc, ZenonT(30)
  <2>. QED  BY <1>4, <2>3, <2>4
<1>7. InOrder(usifac', perryfi', hist')
  BY <1>0, <1>2, <1>5, <1>6 DEF InOrder, Waiting, SameBytes
<1>. QED  BY <1>0, <1>2, <1>5, <1>7 DEF SerialInv, SameBytes, OnWire

LEMMA WriteStep ==
    ASSUME SerialInv, Serials!WriteData
    PROVE  SerialInv'
<1> DEFINE n == hist.wrote + 1
           tx == usifac.tx
<1>0. /\ History(hist) /\ Interface(usifac) /\ ModemType(perryfi)
      /\ InOrder(usifac, perryfi, hist) /\ OnWire(line, hist.taken)
  BY DEF SerialInv
<1>1. PICK tx2, lost2 :
         /\ tx2 = Serials!Pushed(tx, <<n>>)
         /\ lost2 = IF Len(tx) < Room THEN hist.lost ELSE hist.lost \cup {n}
         /\ usifac' = [usifac EXCEPT !.tx = tx2]
         /\ hist' = [hist EXCEPT !.wrote = n, !.lost = lost2]
         /\ ~perryfi.present /\ UNCHANGED <<perryfi, line>>
  BY DEF Serials!WriteData, Serials!Modem
<1>2. /\ hist.got \in Bytes /\ tx \in Bytes /\ Len(tx) \in Nat /\ Len(tx) <= Room
      /\ hist.wrote \in Nat /\ hist.lost \in SUBSET (1 .. hist.wrote)
      /\ HostEnd(hist.got \o tx, hist.wrote, hist.lost) /\ hist.got \o tx \in Bytes
  BY <1>0, ConcatType DEF History, Interface, InOrder, Bytes
<1>3. n \in Nat /\ <<n>> \in Bytes /\ Len(<<n>>) = 1 /\ hist.got \in Bytes  BY <1>2, One
<1>4. /\ tx2 \in Bytes /\ Len(tx2) <= Room /\ HostEnd(hist.got \o tx2, n, lost2)
      /\ lost2 \in SUBSET (1 .. n)
  <2>1. CASE Len(tx) < Room
    <3>1. Room - Len(tx) \in Nat /\ Room - Len(tx) >= 1  BY <1>2, <2>1, Positive
    <3>2. Serials!First(Room - Len(tx), <<n>>) = <<n>>
      <4>1. PICK k \in 0 .. 1 : k = 1 /\ Serials!First(Room - Len(tx), <<n>>) = SubSeq(<<n>>, 1, k)
        BY <1>3, <3>1, FirstFacts
      <4>. QED  BY <1>3, <4>1 DEF Bytes
    <3>3. tx2 = tx \o <<n>>  BY <1>1, <3>2 DEF Serials!Pushed
    <3>4. tx2 \in Bytes /\ Len(tx2) = Len(tx) + 1  BY <1>2, <1>3, <3>3, ConcatType
    <3>5. hist.got \o tx2 = (hist.got \o tx) \o <<n>>
      <4>1. (hist.got \o tx) \o <<n>> = hist.got \o (tx \o <<n>>)
        BY <1>2, <1>3, ConcatAssoc, ZenonT(30)
      <4>. QED  BY <3>3, <4>1
    <3>6. lost2 = hist.lost  BY <1>1, <2>1
    <3>7. HostEnd(hist.got \o tx2, n, lost2) /\ lost2 \in SUBSET (1 .. n)
      BY <1>2, <3>5, <3>6, Wrote
    <3>8. Len(tx2) <= Room  BY <1>2, <2>1, <3>4, Positive
    <3>. QED  BY <3>4, <3>7, <3>8
  <2>2. CASE ~(Len(tx) < Room)
    <3>1. Room - Len(tx) = 0 /\ 0 \in Nat  BY <1>2, <2>2, Positive
    <3>2. Serials!First(0, <<n>>) = <<>>
      BY <1>3 DEF Serials!First, Bytes
    <3>3. tx2 = tx  BY <1>1, <1>2, <3>1, <3>2, Empty DEF Serials!Pushed
    <3>4. lost2 = hist.lost \cup {n}  BY <1>1, <2>2
    <3>. QED  BY <1>2, <3>3, <3>4, Wrote
  <2>. QED  BY <2>1, <2>2
<1>. HIDE DEF n
<1>5. usifac'.rx = usifac.rx /\ usifac'.tx = tx2 /\ Interface(usifac')
  BY <1>0, <1>1, <1>4 DEF Interface
<1>6. /\ hist'.read = hist.read /\ hist'.got = hist.got /\ hist'.taken = hist.taken
      /\ hist'.wrote = n /\ hist'.lost = lost2 /\ hist'.cleared = hist.cleared
      /\ DOMAIN hist' = DOMAIN hist
  BY <1>0, <1>1 DEF History
<1>7. History(hist')  BY <1>0, <1>3, <1>4, <1>6 DEF History
<1>8. InOrder(usifac', perryfi', hist')
  BY <1>0, <1>1, <1>4, <1>5, <1>6 DEF InOrder, Waiting
<1>. QED  BY <1>0, <1>1, <1>5, <1>6, <1>7, <1>8 DEF SerialInv, OnWire
(* What is taken off the wire fits, follows what was taken, and leaves the *)
(* bytes after it.                                                         *)
LEMMA DrainedFacts ==
    ASSUME NEW s \in Bytes, Len(s) <= Room, NEW l, OnWire(l, hist.taken), hist.taken \in Nat
    PROVE  LET more == Serials!Drained(s, l)
               left == SubSeq(l.wire, Len(more) + 1, Len(l.wire))
           IN  /\ more \in Bytes /\ Len(more) \in Nat
               /\ s \o more \in Bytes /\ Len(s \o more) <= Room
               /\ \A i \in 1 .. Len(more) : more[i] = hist.taken + i
               /\ left \in Bytes
               /\ \A i \in 1 .. Len(left) : left[i] = hist.taken + Len(more) + i
<1> DEFINE w == l.wire
           more == Serials!Drained(s, l)
           left == SubSeq(w, Len(more) + 1, Len(w))
<1>1. w \in Bytes /\ Len(w) \in Nat /\ \A i \in 1 .. Len(w) : w[i] = hist.taken + i
  <2>1. w \in Bytes /\ \A i \in 1 .. Len(w) : w[i] = hist.taken + i  BY DEF OnWire
  <2>2. Len(w) \in Nat  BY <2>1 DEF Bytes
  <2>. QED  BY <2>1, <2>2
<1>2. Room - Len(s) \in Nat /\ Len(s) \in Nat  BY Positive DEF Bytes
<1>3. more = Serials!First(Room - Len(s), w)  BY DEF Serials!Drained
<1>. HIDE DEF w, more
<1>4. PICK k \in 0 .. Len(w) :
         /\ k <= Room - Len(s) /\ more = SubSeq(w, 1, k) /\ k = Len(more) /\ more \in Bytes
  BY <1>1, <1>2, <1>3, FirstFacts
<1>5. \A i \in 1 .. k : more[i] = hist.taken + i
  <2>1. \A i \in 1 .. k : more[i] = w[i] /\ i \in 1 .. Len(w)  BY <1>1, <1>4, Pieces
  <2>. QED  BY <1>1, <2>1
<1>6. s \o more \in Bytes /\ Len(s \o more) = Len(s) + k  BY <1>4, ConcatType
<1>7. left \in Bytes /\ Len(left) = Len(w) - k /\ \A i \in 1 .. Len(w) - k : left[i] = w[k + i]
  <2>1. left = SubSeq(w, k + 1, Len(w))  BY <1>4 DEF left
  <2>2. w \in Bytes /\ k \in 0 .. Len(w)  BY <1>1
  <2>3. /\ SubSeq(w, k + 1, Len(w)) \in Bytes /\ Len(SubSeq(w, k + 1, Len(w))) = Len(w) - k
        /\ \A i \in 1 .. Len(w) - k : SubSeq(w, k + 1, Len(w))[i] = w[k + i]
    BY <2>2, Pieces, ZenonT(30)
  <2>. QED  BY <2>1, <2>3
<1>8. \A i \in 1 .. Len(w) - k : w[k + i] = hist.taken + k + i
  <2>. SUFFICES ASSUME NEW i \in 1 .. Len(w) - k PROVE w[k + i] = hist.taken + k + i
    OBVIOUS
  <2>1. k + i \in 1 .. Len(w) /\ hist.taken + (k + i) = hist.taken + k + i  BY <1>1, <1>4
  <2>. QED  BY <1>1, <2>1
<1>. HIDE DEF left
<1>9. \A i \in 1 .. Len(left) : left[i] = hist.taken + k + i  BY <1>7, <1>8
<1>10. Len(s \o more) <= Room /\ k \in Nat  BY <1>1, <1>2, <1>4, <1>6, Positive
<1>. QED  BY <1>4, <1>5, <1>6, <1>7, <1>9, <1>10 DEF left, more, w

LEMMA SentStep ==
    ASSUME SerialInv, ~perryfi.present, UNCHANGED perryfi,
           NEW l, OnWire(l, hist.taken), NEW k \in 0 .. Len(usifac.tx), NEW out, NEW failed,
           Serials!Sent(l, k, out, failed)
    PROVE  SerialInv'
<1> DEFINE tx == usifac.tx
           rx == usifac.rx
           more == Serials!Drained(rx, l)
           left == SubSeq(l.wire, Len(more) + 1, Len(l.wire))
<1>0. /\ History(hist) /\ Interface(usifac) /\ ModemType(perryfi)
      /\ InOrder(usifac, perryfi, hist) /\ OnWire(line, hist.taken)
  BY DEF SerialInv
<1>1. /\ tx \in Bytes /\ Len(tx) \in Nat /\ Len(tx) <= Room /\ rx \in Bytes /\ Len(rx) <= Room
      /\ hist.read \in Bytes /\ hist.got \in Bytes /\ hist.taken \in Nat /\ hist.wrote \in Nat
      /\ hist.cleared \in Nat /\ hist.cleared <= hist.taken /\ hist.lost \in SUBSET (1 .. hist.wrote)
      /\ Guest(hist.read \o rx, hist.cleared, hist.taken)
      /\ HostEnd(hist.got \o tx, hist.wrote, hist.lost)
  BY <1>0 DEF History, Interface, InOrder, Waiting, Bytes
<1>2. /\ more \in Bytes /\ Len(more) \in Nat /\ rx \o more \in Bytes /\ Len(rx \o more) <= Room
      /\ \A i \in 1 .. Len(more) : more[i] = hist.taken + i
      /\ left \in Bytes /\ \A i \in 1 .. Len(left) : left[i] = hist.taken + Len(more) + i
  BY <1>0, <1>1, DrainedFacts, ZenonT(60)
<1>4. PICK up, fin, client, waits, wire :
         /\ out \in k .. Len(tx) /\ wire \in {left, <<>>}
         /\ hist' = [hist EXCEPT !.got = hist.got \o Serials!First(k, tx),
                                 !.taken = hist.taken + Len(more),
                                 !.lost = hist.lost \cup Serials!Range(SubSeq(tx, k + 1, out))]
         /\ usifac' = [usifac EXCEPT !.tx = SubSeq(tx, out + 1, Len(tx)), !.rx = rx \o more,
                                     !.client = client, !.waits = waits]
         /\ line' = [up |-> up, fin |-> fin, wire |-> wire]
  <2>1. /\ hist'= [hist EXCEPT !.got = @ \o Serials!First(k, usifac.tx),
                               !.taken = @ + Len(Serials!Drained(usifac.rx, l)),
                               !.lost = @ \cup Serials!Range(SubSeq(usifac.tx, k + 1, out))]
        /\ out \in k .. Len(tx)
    BY DEF Serials!Sent
  <2>2. PICK client, waits : usifac' = [usifac EXCEPT !.tx = SubSeq(@, out + 1, Len(@)),
                                                      !.rx = @ \o Serials!Drained(usifac.rx, l),
                                                      !.client = client, !.waits = waits]
    BY DEF Serials!Sent
  <2>3. PICK up, fin, wire : /\ line' = [up |-> up, fin |-> fin, wire |-> wire]
                             /\ wire \in {left, <<>>}
    <3>1. PICK open \in BOOLEAN :
             line' = [up |-> l.up /\ open, fin |-> l.fin /\ open, wire |-> IF open THEN left ELSE <<>>]
      BY DEF Serials!Sent
    <3>. QED  BY <3>1
  <2>. QED  BY <2>1, <2>2, <2>3
<1>. HIDE DEF more, left
<1>5. out \in k .. Len(tx)  BY <1>4
<1>6. Serials!First(k, tx) = SubSeq(tx, 1, k)
  BY <1>1 DEF Serials!First
<1>7. PICK got2, lost2, tx2, rx2 :
         /\ got2 = hist.got \o SubSeq(tx, 1, k) /\ tx2 = SubSeq(tx, out + 1, Len(tx))
         /\ lost2 = hist.lost \cup Serials!Range(SubSeq(tx, k + 1, out)) /\ rx2 = rx \o more
  OBVIOUS
<1>8. /\ got2 \in Bytes /\ tx2 \in Bytes /\ Len(tx2) = Len(tx) - out
      /\ HostEnd(got2 \o tx2, hist.wrote, lost2) /\ lost2 \in SUBSET (1 .. hist.wrote)
  <2>1. Sendable(hist.got, tx, hist.wrote, hist.lost, k, out)  BY <1>1, <1>5 DEF Sendable
  <2>2. AfterSend(hist.got, tx, hist.wrote, hist.lost, k, out)  BY <2>1, Went, Zenon
  <2>. HIDE DEF tx
  <2>. QED  BY <1>7, <2>2 DEF AfterSend
<1>9. /\ hist'.read = hist.read /\ hist'.got = got2 /\ hist'.taken = hist.taken + Len(more)
      /\ hist'.wrote = hist.wrote /\ hist'.lost = lost2 /\ hist'.cleared = hist.cleared
      /\ DOMAIN hist' = DOMAIN hist
  BY <1>0, <1>4, <1>6, <1>7 DEF History
<1>10. usifac'.rx = rx2 /\ usifac'.tx = tx2 /\ DOMAIN usifac' = DOMAIN usifac
  BY <1>0, <1>4, <1>7 DEF Interface
<1>11. /\ line'.wire \in {left, <<>>} /\ DOMAIN line' = {"up", "fin", "wire"}
  BY <1>4
<1>12. Interface(usifac')
  <2>1. Len(tx2) <= Room  BY <1>1, <1>5, <1>8, Positive
  <2>. QED  BY <1>0, <1>2, <1>7, <1>8, <1>10, <2>1 DEF Interface
<1>13. OnWire(line', hist'.taken)
  <2>1. CASE line'.wire = left  BY <1>2, <1>9, <1>11, <2>1 DEF OnWire
  <2>2. CASE line'.wire = <<>>  BY <1>11, <2>2, Empty DEF OnWire
  <2>. QED  BY <1>11, <2>1, <2>2
<1>14. History(hist')
  <2>1. hist.taken + Len(more) \in Nat /\ hist.cleared <= hist.taken + Len(more)  BY <1>1, <1>2
  <2>. QED  BY <1>0, <1>1, <1>8, <1>9, <2>1 DEF History
<1>15. Guest(hist.read \o rx2, hist.cleared, hist.taken + Len(more))
  <2>1. hist.read \o rx \in Bytes  BY <1>1, ConcatType
  <2>2. Guest((hist.read \o rx) \o more, hist.cleared, hist.taken + Len(more))
    BY <1>1, <1>2, <2>1, Arrived
  <2>3. (hist.read \o rx) \o more = hist.read \o (rx \o more)
    <3>1. hist.read \in Bytes /\ rx \in Bytes /\ more \in Bytes  BY <1>1, <1>2
    <3>. QED  BY <3>1, ConcatAssoc, ZenonT(30)
  <2>. QED  BY <1>7, <2>2, <2>3
<1>16. InOrder(usifac', perryfi', hist')
  BY <1>8, <1>9, <1>10, <1>15 DEF InOrder, Waiting
<1>. QED  BY <1>0, <1>12, <1>13, <1>14, <1>16 DEF SerialInv

LEMMA PollStep ==
    ASSUME SerialInv, ~perryfi.present, Serials!usifac_poll
    PROVE  SerialInv'
<1>0. OnWire(line, hist.taken) /\ UNCHANGED perryfi
  BY DEF SerialInv, Serials!usifac_poll
<1>1. CASE UNCHANGED <<usifac, line, hist>>
  BY <1>0, <1>1, QuietBytes DEF SameRings, SameBytes
<1>2. ASSUME NEW l, OnWire(l, hist.taken), Serials!Sending(l)
      PROVE  SerialInv'
  <2>1. PICK k \in 0 .. Len(usifac.tx), out \in 0 .. Len(usifac.tx), failed \in BOOLEAN :
                Serials!Sent(l, k, out, failed)
    BY <1>2 DEF Serials!Sending
  <2>. QED  BY <1>0, <1>2, <2>1, SentStep
<1>3. OnWire(Serials!Accepted, hist.taken)  BY EmptyWire DEF Serials!Accepted
<1>. QED  BY <1>0, <1>1, <1>2, <1>3 DEF Serials!usifac_poll, Serials!poll_pty, Serials!poll_tcp
(* The modem r is q, but for what it says to the guest and how it is set.  *)
Says(r, q) == /\ ModemType(r) /\ r.present = q.present
              /\ \E y \in Bytes : Serials!Range(y) \subseteq {0} /\ r.rx = q.rx \o y

LEMMA SaysMore ==
    ASSUME NEW r, NEW q, NEW m, Says(r, q), Says(q, m), ModemType(m)
    PROVE  Says(r, m)
<1>1. PICK y \in Bytes : Serials!Range(y) \subseteq {0} /\ r.rx = q.rx \o y  BY DEF Says
<1>2. PICK z \in Bytes : Serials!Range(z) \subseteq {0} /\ q.rx = m.rx \o z  BY DEF Says
<1>3. m.rx \in Bytes /\ r.rx = m.rx \o (z \o y)
  <2>1. m.rx \in Bytes  BY DEF ModemType
  <2>2. (m.rx \o z) \o y = m.rx \o (z \o y)  BY <2>1, ConcatAssoc, ZenonT(30)
  <2>. QED  BY <1>1, <1>2, <2>1, <2>2
<1>4. z \o y \in Bytes /\ Serials!Range(z \o y) \subseteq {0}
  <2>1. Serials!Range(z \o y) = Serials!Range(z) \cup Serials!Range(y)  BY ConcatRange
  <2>. QED  BY <1>1, <1>2, <2>1, ConcatType
<1>. QED  BY <1>3, <1>4 DEF Says

LEMMA SaysPushed ==
    ASSUME NEW q, ModemType(q), NEW z \in Bytes, Serials!Range(z) \subseteq {0}
    PROVE  Says([q EXCEPT !.rx = Serials!Pushed(@, z)], q)
<1>1. PICK rx : rx = Serials!Pushed(q.rx, z)  OBVIOUS
<1>2. q.rx \in Bytes /\ Len(q.rx) <= Room  BY DEF ModemType
<1>3. rx \in Bytes /\ Len(rx) <= Room  BY <1>1, <1>2, Padding
<1>4. \E y \in Bytes : Serials!Range(y) \subseteq {0} /\ rx = q.rx \o y
  BY <1>1, <1>2, Padding
<1>5. PICK r : r = [q EXCEPT !.rx = rx]  OBVIOUS
<1>6. ModemType(r) /\ r.present = q.present /\ r.rx = rx  BY <1>3, <1>5 DEF ModemType
<1>. QED  BY <1>1, <1>4, <1>5, <1>6 DEF Says

LEMMA SaysNothing ==
    ASSUME NEW r, ModemType(r), NEW q, ModemType(q), r.present = q.present, r.rx = q.rx
    PROVE  Says(r, q)
<1>1. q.rx \o <<>> = q.rx  BY Empty DEF ModemType
<1>2. <<>> \in Bytes /\ Serials!Range(<<>>) \subseteq {0}  BY Empty
<1>. QED  BY <1>1, <1>2 DEF Says

LEMMA ResultSays ==
    ASSUME NEW q, ModemType(q)
    PROVE  Says(Serials!Result(q), q)
BY SaysNothing, SaysPushed, ZeroBytes DEF Serials!Result

LEMMA EchoSays ==
    ASSUME NEW q, ModemType(q)
    PROVE  Says(Serials!Echoed(q), q)
BY SaysNothing, SaysPushed, ZeroBytes DEF Serials!Echoed

(* Setting one thing or another of a modem *)
LEMMA SetModem ==
    ASSUME NEW q, ModemType(q), NEW a, NEW b
    PROVE  /\ Says([q EXCEPT !.len = a], q) /\ Says([q EXCEPT !.esc = a], q)
           /\ Says([q EXCEPT !.echo = a, !.quiet = b], q)
           /\ Says([q EXCEPT !.state = "CMD", !.esc = a], q)
           /\ Says([q EXCEPT !.fd = FALSE, !.state = "CMD"], q)
           /\ Says([q EXCEPT !.fd = TRUE, !.state = "ONLINE", !.esc = a], q)
           /\ q.fd => Says([q EXCEPT !.state = "ONLINE"], q)
<1>1. Says([q EXCEPT !.len = a], q)
  <2>1. PICK r : r = [q EXCEPT !.len = a]  OBVIOUS
  <2>2. ModemType(r) /\ r.present = q.present /\ r.rx = q.rx  BY <2>1 DEF ModemType
  <2>. QED  BY <2>1, <2>2, SaysNothing
<1>2. Says([q EXCEPT !.esc = a], q)
  <2>1. PICK r : r = [q EXCEPT !.esc = a]  OBVIOUS
  <2>2. ModemType(r) /\ r.present = q.present /\ r.rx = q.rx  BY <2>1 DEF ModemType
  <2>. QED  BY <2>1, <2>2, SaysNothing
<1>3. Says([q EXCEPT !.echo = a, !.quiet = b], q)
  <2>1. PICK r : r = [q EXCEPT !.echo = a, !.quiet = b]  OBVIOUS
  <2>2. ModemType(r) /\ r.present = q.present /\ r.rx = q.rx  BY <2>1 DEF ModemType
  <2>. QED  BY <2>1, <2>2, SaysNothing
<1>4. Says([q EXCEPT !.state = "CMD", !.esc = a], q)
  <2>1. PICK r : r = [q EXCEPT !.state = "CMD", !.esc = a]  OBVIOUS
  <2>2. ModemType(r) /\ r.present = q.present /\ r.rx = q.rx  BY <2>1 DEF ModemType
  <2>. QED  BY <2>1, <2>2, SaysNothing
<1>5. Says([q EXCEPT !.fd = FALSE, !.state = "CMD"], q)
  <2>1. PICK r : r = [q EXCEPT !.fd = FALSE, !.state = "CMD"]  OBVIOUS
  <2>2. ModemType(r) /\ r.present = q.present /\ r.rx = q.rx  BY <2>1 DEF ModemType
  <2>. QED  BY <2>1, <2>2, SaysNothing
<1>6. Says([q EXCEPT !.fd = TRUE, !.state = "ONLINE", !.esc = a], q)
  <2>1. PICK r : r = [q EXCEPT !.fd = TRUE, !.state = "ONLINE", !.esc = a]  OBVIOUS
  <2>2. ModemType(r) /\ r.present = q.present /\ r.rx = q.rx  BY <2>1 DEF ModemType
  <2>. QED  BY <2>1, <2>2, SaysNothing
<1>7. q.fd => Says([q EXCEPT !.state = "ONLINE"], q)
  <2>1. PICK r : r = [q EXCEPT !.state = "ONLINE"]  OBVIOUS
  <2>2. q.fd => ModemType(r) /\ r.present = q.present /\ r.rx = q.rx  BY <2>1 DEF ModemType
  <2>. QED  BY <2>1, <2>2, SaysNothing
<1>. QED  BY <1>1, <1>2, <1>3, <1>4, <1>5, <1>6, <1>7

LEMMA HungUpSays ==
    ASSUME NEW q, ModemType(q)
    PROVE  Says(Serials!HungUp(q), q)
<1>1. PICK r : r = [q EXCEPT !.fd = FALSE, !.state = "CMD"]  OBVIOUS
<1>2. Says(r, q) /\ ModemType(r)  BY <1>1, SetModem DEF Says
<1>3. Says(Serials!Result(r), r)  BY <1>2, ResultSays
<1>. QED  BY <1>1, <1>2, <1>3, SaysMore DEF Serials!HungUp

(* What a step of the modem has to show *)
LEMMA ModemStep ==
    ASSUME SerialInv, perryfi.present, UNCHANGED usifac,
           NEW q, ModemType(q), Says(perryfi', q), q.present = perryfi.present,
           Guest(hist.read \o q.rx, hist.cleared, hist'.taken),
           History(hist'), hist'.read = hist.read, hist'.cleared = hist.cleared,
           HostEnd(hist'.got \o usifac.tx, hist'.wrote, hist'.lost), OnWire(line', hist'.taken)
    PROVE  SerialInv'
<1>0. History(hist) /\ Interface(usifac) /\ InOrder(usifac, perryfi, hist)  BY DEF SerialInv
<1>1. PICK y \in Bytes : Serials!Range(y) \subseteq {0} /\ perryfi'.rx = q.rx \o y  BY DEF Says
<1>2. hist.read \in Bytes /\ q.rx \in Bytes /\ hist.read \o q.rx \in Bytes
  BY <1>0, ConcatType DEF History, ModemType
<1>3. Guest((hist.read \o q.rx) \o y, hist.cleared, hist'.taken)  BY <1>1, <1>2, MadeUp
<1>4. Guest(hist.read \o perryfi'.rx, hist.cleared, hist'.taken)
  <2>1. (hist.read \o q.rx) \o y = hist.read \o (q.rx \o y)
    BY <1>2, ConcatAssoc, ZenonT(30)
  <2>. QED  BY <1>1, <1>3, <2>1
<1>5. ModemType(perryfi') /\ perryfi'.present  BY DEF Says
<1>6. InOrder(usifac', perryfi', hist')  BY <1>0, <1>4, <1>5 DEF InOrder, Waiting
<1>. QED  BY <1>0, <1>5, <1>6 DEF SerialInv, Interface

LEMMA OnlineStep ==
    ASSUME SerialInv, perryfi.present,
           NEW plus, NEW soon, NEW fails, Serials!OnlineByte(plus, soon, fails)
    PROVE  SerialInv'
<1> DEFINE n == hist.wrote + 1
<1>0. /\ History(hist) /\ Interface(usifac) /\ ModemType(perryfi)
      /\ InOrder(usifac, perryfi, hist) /\ OnWire(line, hist.taken)
  BY DEF SerialInv
<1>1. PICK count : count = Serials!EscapeCount(plus, soon)  OBVIOUS
<1>2. /\ UNCHANGED usifac
      /\ \/ /\ perryfi' = Serials!Result([perryfi EXCEPT !.state = "CMD", !.esc = 0])
            /\ hist' = [hist EXCEPT !.wrote = n, !.lost = @ \cup {n}] /\ UNCHANGED line
         \/ /\ perryfi' = Serials!HungUp([perryfi EXCEPT !.esc = count]) /\ line' = Serials!Gone
            /\ hist' = [hist EXCEPT !.wrote = n, !.lost = @ \cup {n}]
         \/ /\ perryfi' = [perryfi EXCEPT !.esc = count] /\ UNCHANGED line
            /\ \/ hist' = [hist EXCEPT !.wrote = n, !.got = Append(@, n)]
               \/ hist' = [hist EXCEPT !.wrote = n, !.lost = @ \cup {n}]
  BY <1>1 DEF Serials!OnlineByte
<1>3. Says(perryfi', perryfi)
  <2>1. /\ \A r : ModemType(r) => Says(Serials!Result(r), r) /\ Says(Serials!HungUp(r), r)
        /\ Says([perryfi EXCEPT !.state = "CMD", !.esc = 0], perryfi)
        /\ Says([perryfi EXCEPT !.esc = count], perryfi)
    BY <1>0, SetModem, ResultSays, HungUpSays
  <2>2. \A r : Says(r, perryfi) => ModemType(r)  BY DEF Says
  <2>. QED  BY <1>0, <1>2, <2>1, <2>2, SaysMore
<1>4. /\ hist.got \in Bytes /\ hist.wrote \in Nat /\ hist.lost \in SUBSET (1 .. hist.wrote)
      /\ usifac.tx = <<>> /\ HostEnd(hist.got, hist.wrote, hist.lost)
  BY <1>0, Empty DEF History, InOrder
<1>5. n \in Nat /\ <<n>> \in Bytes /\ hist.got \o <<n>> \in Bytes
      /\ Append(hist.got, n) = hist.got \o <<n>>
  <2>1. n \in Nat /\ <<n>> \in Bytes  BY <1>4, One
  <2>2. Append(hist.got, n) = hist.got \o <<n>>  BY <1>4, <2>1, Appended
  <2>. QED  BY <1>4, <2>1, <2>2, ConcatType
<1>6. /\ HostEnd(hist.got \o <<n>>, n, hist.lost) /\ HostEnd(hist.got, n, hist.lost \cup {n})
      /\ hist.lost \cup {n} \in SUBSET (1 .. n) /\ hist.lost \in SUBSET (1 .. n)
  BY <1>4, Wrote
<1>. HIDE DEF n
<1>7. PICK got2, lost2 :
         /\ hist' = [hist EXCEPT !.wrote = n, !.lost = lost2, !.got = got2]
         /\ \/ got2 = hist.got /\ lost2 = hist.lost \cup {n}
            \/ got2 = hist.got \o <<n>> /\ lost2 = hist.lost
  <2>1. CASE hist' = [hist EXCEPT !.wrote = n, !.lost = @ \cup {n}]
    <3>1. hist' = [hist EXCEPT !.wrote = n, !.lost = hist.lost \cup {n}, !.got = hist.got]
      BY <1>0, <2>1 DEF History
    <3>. QED  BY <3>1
  <2>2. CASE hist' = [hist EXCEPT !.wrote = n, !.got = Append(@, n)]
    <3>1. hist' = [hist EXCEPT !.wrote = n, !.lost = hist.lost, !.got = hist.got \o <<n>>]
      BY <1>0, <1>5, <2>2 DEF History
    <3>. QED  BY <3>1
  <2>. QED  BY <1>2, <2>1, <2>2
<1>8. /\ hist'.read = hist.read /\ hist'.got = got2 /\ hist'.taken = hist.taken
      /\ hist'.wrote = n /\ hist'.lost = lost2 /\ hist'.cleared = hist.cleared
      /\ DOMAIN hist' = DOMAIN hist
  BY <1>0, <1>7 DEF History
<1>9. History(hist')  BY <1>0, <1>4, <1>5, <1>6, <1>7, <1>8 DEF History
<1>10. HostEnd(hist'.got \o usifac.tx, hist'.wrote, hist'.lost)
  <2>1. HostEnd(got2, n, lost2) /\ got2 \in Bytes  BY <1>4, <1>5, <1>6, <1>7
  <2>2. got2 \o <<>> = got2  BY <2>1, Empty
  <2>. QED  BY <1>4, <1>8, <2>1, <2>2
<1>11. OnWire(line', hist'.taken)  BY <1>0, <1>2, <1>8, EmptyWire DEF Serials!Gone
<1>12. Guest(hist.read \o perryfi.rx, hist.cleared, hist'.taken)
  BY <1>0, <1>8 DEF InOrder, Waiting
<1>. QED  BY <1>0, <1>2, <1>3, <1>8, <1>9, <1>10, <1>11, <1>12, ModemStep

(* In command mode nothing of the guest's reaches the host. *)
LEMMA CommandStep ==
    ASSUME SerialInv, perryfi.present,
           Serials!CommandByte \/ Serials!RubOut \/ Serials!EndOfLine
    PROVE  SerialInv'
<1>0. /\ History(hist) /\ Interface(usifac) /\ ModemType(perryfi)
      /\ InOrder(usifac, perryfi, hist) /\ OnWire(line, hist.taken)
  BY DEF SerialInv
<1>1. /\ UNCHANGED usifac /\ SameBytes(hist', hist) /\ History(hist')
  BY <1>0, CountedEvent
     DEF Serials!CommandByte, Serials!RubOut, Serials!EndOfLine, SameBytes
<1>2. /\ \A r : ModemType(r) => Says(Serials!Result(r), r) /\ Says(Serials!HungUp(r), r)
                                /\ Says(Serials!Echoed(r), r)
      /\ \A r, q : Says(r, q) => ModemType(r)
      /\ \A r, q, m : Says(r, q) /\ Says(q, m) /\ ModemType(m) => Says(r, m)
  BY ResultSays, HungUpSays, EchoSays, SaysMore DEF Says
<1>3. Says(perryfi', perryfi) /\ OnWire(line', hist.taken)
  <2>1. CASE Serials!CommandByte \/ Serials!RubOut
    <3>1. (\E k : perryfi' = Serials!Echoed([perryfi EXCEPT !.len = k])) /\ UNCHANGED line
      BY <2>1 DEF Serials!CommandByte, Serials!RubOut
    <3>2. PICK k, r : r = [perryfi EXCEPT !.len = k] /\ perryfi' = Serials!Echoed(r)  BY <3>1
    <3>3. Says(r, perryfi) /\ ModemType(r)  BY <1>0, <1>2, <3>2, SetModem
    <3>4. Says(perryfi', perryfi)  BY <1>0, <1>2, <3>2, <3>3
    <3>. QED  BY <1>0, <3>1, <3>4
  <2>2. CASE Serials!EndOfLine
    <3>1. PICK q : /\ q = [Serials!Echoed(perryfi) EXCEPT !.len = 0]
                   /\ \/ Serials!Dial(q) \/ Serials!Answer(q) \/ Serials!HangUp(q)
                      \/ Serials!Settings(q) \/ Serials!Other(q)
      BY <2>2 DEF Serials!EndOfLine
    <3>2. Says(q, perryfi) /\ ModemType(q)
      <4>1. Says(Serials!Echoed(perryfi), perryfi) /\ ModemType(Serials!Echoed(perryfi))
        BY <1>0, <1>2
      <4>2. Says(q, Serials!Echoed(perryfi)) /\ ModemType(q)  BY <1>2, <3>1, <4>1, SetModem
      <4>. QED  BY <1>0, <1>2, <4>1, <4>2
    <3>3. Says(perryfi', q)
      <4>1. CASE Serials!Dial(q)
        <5>1. PICK r : /\ r \in {q, [q EXCEPT !.fd = TRUE, !.state = "ONLINE", !.esc = 0]}
                       /\ perryfi' = Serials!Result(r)
          BY <4>1 DEF Serials!Dial
        <5>2. Says(r, q)  BY <3>2, <5>1, SetModem, SaysNothing
        <5>. QED  BY <1>2, <3>2, <5>1, <5>2
      <4>2. CASE Serials!Answer(q)
        <5>1. PICK r : /\ r = (IF q.fd THEN [q EXCEPT !.state = "ONLINE"] ELSE q)
                       /\ perryfi' = Serials!Result(r)
          BY <4>2 DEF Serials!Answer
        <5>2. Says(r, q)  BY <3>2, <5>1, SetModem, SaysNothing
        <5>. QED  BY <1>2, <3>2, <5>1, <5>2
      <4>3. CASE Serials!HangUp(q)  BY <1>2, <3>2, <4>3 DEF Serials!HangUp
      <4>4. CASE Serials!Settings(q)
        <5>1. PICK e, qu, r : /\ r = [q EXCEPT !.echo = e, !.quiet = qu]
                              /\ perryfi' = Serials!Result(r)
          BY <4>4 DEF Serials!Settings
        <5>2. Says(r, q)  BY <3>2, <5>1, SetModem
        <5>. QED  BY <1>2, <3>2, <5>1, <5>2
      <4>5. CASE Serials!Other(q)  BY <1>2, <3>2, <4>5 DEF Serials!Other
      <4>. QED  BY <3>1, <4>1, <4>2, <4>3, <4>4, <4>5
    <3>4. OnWire(line', hist.taken)
      BY <1>0, <3>1, EmptyWire
         DEF Serials!Dial, Serials!Answer, Serials!HangUp, Serials!Settings, Serials!Other,
             Serials!Gone
    <3>. QED  BY <1>0, <1>2, <3>2, <3>3, <3>4
  <2>. QED  BY <2>1, <2>2
<1>4. Guest(hist.read \o perryfi.rx, hist.cleared, hist'.taken)
  BY <1>0, <1>1 DEF InOrder, Waiting, SameBytes
<1>5. HostEnd(hist'.got \o usifac.tx, hist'.wrote, hist'.lost)
  BY <1>0, <1>1 DEF InOrder, SameBytes
<1>6. /\ hist'.read = hist.read /\ hist'.cleared = hist.cleared /\ hist'.taken = hist.taken
  BY <1>1 DEF SameBytes
<1>. QED  BY <1>0, <1>1, <1>3, <1>4, <1>5, <1>6, ModemStep
(* On line the peer's bytes go to the guest, until the peer is gone. *)
LEMMA ModemPollStep ==
    ASSUME SerialInv, perryfi.present, Serials!perryfi_poll
    PROVE  SerialInv'
<1> DEFINE more == Serials!Drained(perryfi.rx, line)
           left == SubSeq(line.wire, Len(more) + 1, Len(line.wire))
<1>0. /\ History(hist) /\ Interface(usifac) /\ ModemType(perryfi)
      /\ InOrder(usifac, perryfi, hist) /\ OnWire(line, hist.taken)
  BY DEF SerialInv
<1>1. /\ hist.read \in Bytes /\ perryfi.rx \in Bytes /\ Len(perryfi.rx) <= Room
      /\ hist.taken \in Nat /\ hist.cleared \in Nat /\ hist.cleared <= hist.taken
      /\ Guest(hist.read \o perryfi.rx, hist.cleared, hist.taken)
  BY <1>0 DEF History, ModemType, InOrder, Waiting
<1>2. /\ more \in Bytes /\ Len(more) \in Nat
      /\ perryfi.rx \o more \in Bytes /\ Len(perryfi.rx \o more) <= Room
      /\ \A i \in 1 .. Len(more) : more[i] = hist.taken + i
      /\ left \in Bytes /\ \A i \in 1 .. Len(left) : left[i] = hist.taken + Len(more) + i
  BY <1>0, <1>1, DrainedFacts
<1>3. PICK q : /\ q = [perryfi EXCEPT !.rx = perryfi.rx \o more]
               /\ \/ perryfi' = Serials!HungUp(q) /\ line' = Serials!Gone
                  \/ perryfi' = q /\ line' = [line EXCEPT !.wire = left]
  BY DEF Serials!perryfi_poll
<1>4. UNCHANGED usifac /\ hist' = [hist EXCEPT !.taken = hist.taken + Len(more)]
  BY DEF Serials!perryfi_poll
<1>. HIDE DEF more, left
<1>5. ModemType(q) /\ q.rx = perryfi.rx \o more /\ q.present = perryfi.present
  BY <1>0, <1>2, <1>3 DEF ModemType
<1>6. Says(perryfi', q)  BY <1>3, <1>5, HungUpSays, SaysNothing
<1>7. /\ hist'.read = hist.read /\ hist'.got = hist.got /\ hist'.taken = hist.taken + Len(more)
      /\ hist'.wrote = hist.wrote /\ hist'.lost = hist.lost /\ hist'.cleared = hist.cleared
      /\ DOMAIN hist' = DOMAIN hist
  BY <1>0, <1>4 DEF History
<1>8. History(hist')
  <2>1. hist.taken + Len(more) \in Nat /\ hist.cleared <= hist.taken + Len(more)  BY <1>1, <1>2
  <2>. QED  BY <1>0, <1>7, <2>1 DEF History
<1>9. OnWire(line', hist'.taken)
  <2>1. CASE line' = Serials!Gone  BY <2>1, EmptyWire DEF Serials!Gone
  <2>2. CASE line' = [line EXCEPT !.wire = left]
    <3>1. line'.wire = left /\ DOMAIN line' = DOMAIN line  BY <1>0, <2>2 DEF OnWire
    <3>. QED  BY <1>0, <1>2, <1>7, <3>1 DEF OnWire
  <2>. QED  BY <1>3, <2>1, <2>2
<1>10. Guest(hist.read \o q.rx, hist.cleared, hist'.taken)
  <2>1. hist.read \o perryfi.rx \in Bytes  BY <1>1, ConcatType
  <2>2. Guest((hist.read \o perryfi.rx) \o more, hist.cleared, hist.taken + Len(more))
    BY <1>1, <1>2, <2>1, Arrived
  <2>3. (hist.read \o perryfi.rx) \o more = hist.read \o (perryfi.rx \o more)
    BY <1>1, <1>2, ConcatAssoc, ZenonT(30)
  <2>. QED  BY <1>5, <1>7, <2>2, <2>3
<1>11. HostEnd(hist'.got \o usifac.tx, hist'.wrote, hist'.lost)
  BY <1>0, <1>7 DEF InOrder
<1>. QED  BY <1>4, <1>5, <1>6, <1>7, <1>8, <1>9, <1>10, <1>11, ModemStep

LEMMA SerialStart ==
    ASSUME Serials!Init
    PROVE  SerialInv
<1>1. PICK k : usifac = Serials!Ready(k)  BY DEF Serials!Init
<1>2. Interface(usifac) /\ usifac.rx = <<>> /\ usifac.tx = <<>>
  BY <1>1, Empty, Positive DEF Serials!Ready, Interface
<1>3. ModemType(perryfi) /\ perryfi.rx = <<>>
  BY Empty, Positive DEF Serials!Init, Serials!Unplugged, ModemType
<1>4. hist = [read |-> <<>>, got |-> <<>>, taken |-> 0, wrote |-> 0, lost |-> {},
              cleared |-> 0, events |-> 0]
  BY DEF Serials!Init
<1>5. History(hist)  BY <1>4, Empty DEF History
<1>6. OnWire(line, hist.taken)  BY EmptyWire DEF Serials!Init
<1>7. InOrder(usifac, perryfi, hist)
  <2>1. hist.read = <<>> /\ hist.got = <<>> /\ hist.taken = 0 /\ hist.cleared = 0
        /\ hist.wrote = 0 /\ hist.lost = {}
    BY <1>4
  <2>2. Guest(<<>> \o <<>>, 0, 0)  BY Cleaned
  <2>3. HostEnd(<<>> \o <<>>, 0, {})  BY Empty DEF HostEnd
  <2>. QED  BY <1>2, <1>3, <2>1, <2>2, <2>3 DEF InOrder, Waiting
<1>. QED  BY <1>2, <1>3, <1>5, <1>6, <1>7 DEF SerialInv

LEMMA NextSerialInv == SerialInv /\ Serials!Next => SerialInv'
BY HostStep, ReadStep, PollStep, WriteStep, ClearStep, StatStep, ModemPollStep, OnlineStep,
   CommandStep
   DEF Serials!Next, Serials!Modem, Serials!perryfi_tx_push, Serials!Host

LEMMA SameSerialInv == SerialInv /\ UNCHANGED hostVars => SerialInv'
BY DEF hostVars, SerialInv, Interface, ModemType, OnWire, History, InOrder, Waiting

LEMMA SerialIsExact == SerialInv => Serials!SerialExact
<1>. SUFFICES ASSUME SerialInv PROVE Serials!SerialExact  OBVIOUS
<1>1. Waiting(usifac, perryfi) = Serials!Ring  BY DEF Waiting, Serials!Ring, Serials!Modem
<1>2. Serials!ToGuest  BY <1>1 DEF SerialInv, InOrder, Guest, Serials!ToGuest
<1>3. Serials!ToHost  BY DEF SerialInv, InOrder, HostEnd, Serials!ToHost
<1>4. Serials!OnlineHasCarrier /\ Serials!RingsFit
  BY DEF SerialInv, ModemType, Interface, Serials!OnlineHasCarrier, Serials!RingsFit
<1>. QED  BY <1>2, <1>3, <1>4 DEF Serials!SerialExact

(* What the host writes reaches the guest in order and once, what the      *)
(* guest writes leaves in order but for the bytes that met a full ring, a  *)
(* failed write or the escape, and the modem is on line only while it has  *)
(* a connection, for rings, results and numbers of bytes of any size       *)
(* (usifac.c, perryfi.c).                                                  *)
THEOREM SerialHolds == ControlSpec => []SerialExact
<1>1. ControlInit => (part = "serial" => SerialInv)  BY SerialStart DEF ControlInit
<1>2. (part = "serial" => SerialInv) /\ [part' = part /\ ControlNext]_hostVars => (part = "serial" => SerialInv)'
  <2>. SUFFICES ASSUME part = "serial" => SerialInv, [part' = part /\ ControlNext]_hostVars, part' = "serial"
                PROVE  SerialInv'
    OBVIOUS
  <2>1. CASE UNCHANGED hostVars  BY <2>1, SameSerialInv DEF hostVars
  <2>2. CASE part' = part /\ ControlNext
    <3>1. part = "serial" /\ Serials!Next  BY <2>2 DEF ControlNext
    <3>. QED  BY <3>1, NextSerialInv
  <2>. QED  BY <2>1, <2>2
<1>3. (part = "serial" => SerialInv) => SerialExact  BY SerialIsExact DEF SerialExact
<1>. QED  BY <1>1, <1>2, <1>3, PTL DEF ControlSpec
=============================================================================
