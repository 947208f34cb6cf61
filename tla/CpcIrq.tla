------------------------------- MODULE CpcIrq -------------------------------
(***************************************************************************)
(* The interrupt line of the CPU: the Gate Array's line counter            *)
(* (gate_array.c), the raster and DMA requests of the Plus ASIC (asic.c),  *)
(* the V9990's level request (v9990.c), and the step of cpc_frame (cpc.c)  *)
(* that acknowledges, runs one instruction, lets bus time pass and         *)
(* delivers.  A step of the CPU is several steps here, so the guest's      *)
(* write and the bus events of an instruction come in either order.        *)
(*                                                                         *)
(* Abstracted: an instruction is what it does to interrupts; the beam and  *)
(* the DMA lists are events that may come once in an instruction, which is *)
(* shorter than a line; the V9990's flags and enables are its irq output.  *)
(***************************************************************************)
EXTENDS Integers, FiniteSets

CONSTANTS
    Period,     \* HSYNCs between requests, 52 in the code
    Half,       \* bit 5 of the counter, 32
    Channels,   \* the DMA channels, 0 .. 2
    Lines       \* raster lines PRI may name, besides 0 for none

ASSUME CounterAssumption == Half \in Nat \ {0} /\ Period \in Half + 1 .. 2 * Half
ASSUME SourceAssumption == Channels \subseteq 0 .. 2 /\ Lines \subseteq Nat \ {0}

VARIABLES
    plus,    \* is the machine a Plus?
    ga,      \* the Gate Array
    asic,    \* the ASIC's requests
    gfx,     \* the V9990
    cpu,
    asserted,   \* cpc->ga_irq_asserted
    step,    \* where in the CPU step, and the bus events still to come in it
    since    \* history: HSYNCs since the Gate Array's last request or reset

vars == <<plus, ga, asic, gfx, cpu, asserted, step, since>>

Events == {"hsync", "raster", "vsync", "v9990"}

TypeOK ==
    /\ plus \in BOOLEAN
    /\ ga \in [counter : 0 .. Period - 1, pending : BOOLEAN, delay : 0 .. 2]
    /\ asic \in [raster : BOOLEAN, acked : BOOLEAN, dma : SUBSET Channels,
                 line : Lines \cup {0}, auto : BOOLEAN]
    /\ gfx \in [enabled : BOOLEAN, irq : BOOLEAN]
    /\ cpu \in [pending : BOOLEAN, iff : BOOLEAN, eiDelay : BOOLEAN]
    /\ asserted \in BOOLEAN
    /\ step \in [at : {"fetch", "run", "tail"}, left : SUBSET Events]
    /\ since \in Nat

Init ==
    /\ plus \in BOOLEAN
    /\ ga = [counter |-> 0, pending |-> FALSE, delay |-> 0]
    /\ asic = [raster |-> FALSE, acked |-> FALSE, dma |-> {}, line |-> 0, auto |-> FALSE]
    /\ gfx = [enabled |-> FALSE, irq |-> FALSE]
    /\ cpu = [pending |-> FALSE, iff |-> FALSE, eiDelay |-> FALSE]
    /\ asserted = FALSE
    /\ step = [at |-> "fetch", left |-> {}]
    /\ since = 0

-----------------------------------------------------------------------------
(* The Gate Array and the ASIC *)

asic_irq_pending(a) == a.raster \/ a.dma # {}

(* Operators named ...Faulty are mistakes the properties were tried on; no *)
(* specification uses them.                                                *)
TopFaulty(channels) == CHOOSE c \in channels : \A d \in channels : c <= d
Top(channels) == CHOOSE c \in channels : \A d \in channels : d <= c

(* The low bits of the vector: the raster before the channels, the highest *)
(* channel first.                                                          *)
Raster == 6
asic_irq_vector(a) ==
    CASE a.raster -> Raster
      [] ~a.raster /\ 2 \in a.dma -> 0
      [] ~a.raster /\ 2 \notin a.dma /\ 1 \in a.dma -> 2
      [] ~a.raster /\ a.dma = {0} -> 4
      [] OTHER -> Raster

ga_irq_ack(g) == [g EXCEPT !.counter = @ % Half]

asic_irq_ack(a) ==
    IF a.raster THEN [a EXCEPT !.raster = FALSE, !.acked = TRUE]
    ELSE [a EXCEPT !.acked = FALSE,
                   !.dma = IF a.auto /\ a.dma # {} THEN @ \ {Top(@)} ELSE @]

CountedFaulty(g) == IF g.counter + 1 > Period
                    THEN [g EXCEPT !.counter = 0, !.pending = TRUE]
                    ELSE [g EXCEPT !.counter = @ + 1]

(* The counter after one more line; a request every Period lines.          *)
Counted(g) == IF g.counter + 1 >= Period
              THEN [g EXCEPT !.counter = 0, !.pending = TRUE]
              ELSE [g EXCEPT !.counter = @ + 1]

ResyncedFaulty(g) ==
    IF g.delay = 0 THEN g
    ELSE IF g.delay > 1 THEN [g EXCEPT !.delay = @ - 1]
    ELSE [counter |-> 0, delay |-> 0, pending |-> TRUE]

(* Two lines into the VSYNC the counter starts again, with a request if it *)
(* was past its half.                                                      *)
Resynced(g) ==
    IF g.delay = 0 THEN g
    ELSE IF g.delay > 1 THEN [g EXCEPT !.delay = @ - 1]
    ELSE [counter |-> 0, delay |-> 0, pending |-> g.pending \/ g.counter >= Half]

ga_hsync(g) == Resynced(Counted(g))

(* Does this line make the Gate Array request? *)
Requests(g) == ga_hsync([g EXCEPT !.pending = FALSE]).pending

-----------------------------------------------------------------------------
(* Bus events of the running instruction *)

Event(e) == /\ step.at # "fetch"
            /\ e \in step.left
            /\ step' = [step EXCEPT !.left = @ \ {e}]

(* On a Plus a programmed raster line replaces the Gate Array's requests;  *)
(* without one they become raster requests, unless one waits already.  The *)
(* DMA lists run afterwards and may interrupt.                             *)
HSyncEnds ==
    /\ Event("hsync")
    /\ since' = IF Requests(ga) THEN 0 ELSE since + 1
    /\ IF plus
       THEN \E new \in SUBSET Channels :
              LET g == ga_hsync(ga)
                  legacy == asic.line = 0 /\ ~ga.pending /\ g.pending
                  kept == IF asic.line = 0 THEN g.pending ELSE ga.pending
              IN  /\ ga' = [g EXCEPT !.pending = kept \/ new # {}]
                  /\ asic' = [asic EXCEPT !.raster = @ \/ legacy, !.dma = @ \cup new]
       ELSE ga' = ga_hsync(ga) /\ UNCHANGED asic
    /\ UNCHANGED <<plus, gfx, cpu, asserted>>

asic_raster_tick ==
    /\ Event("raster")
    /\ plus /\ asic.line # 0
    /\ asic' = [asic EXCEPT !.raster = TRUE]
    /\ ga' = [ga EXCEPT !.pending = TRUE]
    /\ UNCHANGED <<plus, gfx, cpu, asserted, since>>

ga_vsync_start ==
    /\ Event("vsync")
    /\ ga' = [ga EXCEPT !.delay = 2]
    /\ UNCHANGED <<plus, asic, gfx, cpu, asserted, since>>

v9990_advance ==
    /\ Event("v9990")
    /\ gfx.enabled
    /\ gfx' = [gfx EXCEPT !.irq = TRUE]
    /\ UNCHANGED <<plus, ga, asic, cpu, asserted, since>>

Bus == HSyncEnds \/ asic_raster_tick \/ ga_vsync_start \/ v9990_advance

-----------------------------------------------------------------------------
(* The CPU step *)

Accepts == cpu.pending /\ cpu.iff /\ ~cpu.eiDelay

(* The acknowledge comes before the step; the CPU accepts on the same      *)
(* condition.                                                              *)
Accept ==
    /\ step.at = "fetch"
    /\ Accepts
    /\ step' = [at |-> "tail", left |-> Events]
    /\ cpu' = [cpu EXCEPT !.pending = FALSE, !.iff = FALSE]
    /\ asserted' = FALSE
    /\ IF asserted /\ plus
       THEN /\ asic' = asic_irq_ack(asic)
            /\ ga' = [(IF asic.raster THEN ga_irq_ack(ga) ELSE ga)
                        EXCEPT !.pending = asic_irq_pending(asic')]
       ELSE /\ UNCHANGED asic
            /\ ga' = IF asserted THEN ga_irq_ack(ga) ELSE ga
    /\ UNCHANGED <<plus, gfx, since>>

Fetch ==
    /\ step.at = "fetch"
    /\ ~Accepts
    /\ step' = [at |-> "run", left |-> Events]
    /\ cpu' = [cpu EXCEPT !.eiDelay = FALSE]
    /\ UNCHANGED <<plus, ga, asic, gfx, asserted, since>>

Execute == step.at = "run" /\ step' = [step EXCEPT !.at = "tail"]

Ei == Execute /\ cpu' = [cpu EXCEPT !.iff = TRUE, !.eiDelay = TRUE]
      /\ UNCHANGED <<plus, ga, asic, gfx, asserted, since>>
Di == Execute /\ cpu' = [cpu EXCEPT !.iff = FALSE]
      /\ UNCHANGED <<plus, ga, asic, gfx, asserted, since>>

(* What a released request leaves of the CPU's line. *)
ReleasedFaulty(c) == c
Released(c) == [c EXCEPT !.pending = gfx.irq]

(* gate_array_bus_write with bit 4 of RMR set *)
ResetInterrupt ==
    /\ Execute
    /\ ga' = [ga EXCEPT !.counter = 0, !.pending = FALSE]
    /\ asic' = IF plus THEN [asic EXCEPT !.raster = FALSE] ELSE asic
    /\ asserted' = FALSE
    /\ cpu' = Released(cpu)
    /\ since' = 0
    /\ UNCHANGED <<plus, gfx>>

WriteFaulty(a, pending) ==
    asic' = a /\ ga' = [ga EXCEPT !.pending = pending] /\ UNCHANGED <<asserted, cpu>>

(* bus_mem_write into the register page: a is the ASIC afterwards and      *)
(* pending what the write makes of the Gate Array's flag.                  *)
Write(a, pending) ==
    /\ asic' = a
    /\ IF asic_irq_pending(a)
       THEN ga' = [ga EXCEPT !.pending = pending] /\ UNCHANGED <<asserted, cpu>>
       ELSE /\ ga' = [ga EXCEPT !.pending = FALSE]
            /\ asserted' = FALSE
            /\ cpu' = Released(cpu)

RegisterPage == Execute /\ plus /\ UNCHANGED <<plus, gfx, since>>

(* Another line withdraws a raster request, or raises one if the beam is   *)
(* in the HSYNC of that very line.                                         *)
asic_program_raster ==
    /\ RegisterPage
    /\ \E line \in Lines \cup {0}, now \in BOOLEAN :
         LET other == line # 0 /\ line # asic.line
             a == [asic EXCEPT !.line = line,
                               !.raster = IF other THEN now ELSE @]
         IN  Write(a, IF other THEN asic_irq_pending(a) ELSE ga.pending)

(* DCSR: the channels whose bit is set are acknowledged. *)
WriteDcsr ==
    /\ RegisterPage
    /\ \E acked \in SUBSET Channels : Write([asic EXCEPT !.dma = @ \ acked], ga.pending)

WriteIvr ==
    /\ RegisterPage
    /\ \E auto \in BOOLEAN : Write([asic EXCEPT !.auto = auto], ga.pending)

(* A V9990 register: its request may come or go. *)
v9990_io_write ==
    /\ Execute
    /\ gfx.enabled
    /\ \E irq \in BOOLEAN :
         /\ gfx' = [gfx EXCEPT !.irq = irq]
         /\ cpu' = IF ~irq /\ ~asserted /\ ~ga.pending THEN [cpu EXCEPT !.pending = FALSE] ELSE cpu
    /\ UNCHANGED <<plus, ga, asic, asserted, since>>

(* The end of the step: the Gate Array's flag becomes the CPU's request,   *)
(* the V9990's level keeps it up.                                          *)
Deliver ==
    /\ step.at \in {"run", "tail"}
    /\ step' = [at |-> "fetch", left |-> {}]
    /\ ga' = [ga EXCEPT !.pending = FALSE]
    /\ asserted' = (asserted \/ ga.pending)
    /\ cpu' = [cpu EXCEPT !.pending = @ \/ ga.pending \/ gfx.irq]
    /\ UNCHANGED <<plus, asic, gfx, since>>

(* The user plugs the graphics card in or out, between two steps. *)
cpc_set_powergraph_v9990 ==
    /\ step.at = "fetch"
    /\ gfx' = [enabled |-> ~gfx.enabled, irq |-> FALSE]
    /\ cpu' = IF gfx.enabled /\ ~asserted /\ ~ga.pending THEN [cpu EXCEPT !.pending = FALSE] ELSE cpu
    /\ UNCHANGED <<plus, ga, asic, asserted, step, since>>

Next == Bus \/ Accept \/ Fetch \/ Ei \/ Di \/ ResetInterrupt \/ asic_program_raster
        \/ WriteDcsr \/ WriteIvr \/ v9990_io_write \/ Deliver \/ cpc_set_powergraph_v9990

Spec == Init /\ [][Next]_vars

-----------------------------------------------------------------------------
(* Properties *)

Between == step.at = "fetch"

(* Between two steps the CPU's line is up exactly when the Gate Array's    *)
(* request is unacknowledged or the V9990 asks: no request is lost and     *)
(* none is left behind (cpc.c:259-261, 378-380, 665-668, 2009-2053).       *)
LineIsRequest == Between => cpu.pending = (asserted \/ gfx.irq)

(* On a Plus an unacknowledged request always has a source in the ASIC     *)
(* that can name its vector, and a raster request is never left without    *)
(* the line (asic.c:103-113, 243-255, 300-320; cpc.c:257-262).             *)
RequestHasSource ==
    plus /\ Between => /\ asserted => asic_irq_pending(asic)
                       /\ asic.raster => asserted

(* The interrupt taken on a Plus is the one the vector names: that source, *)
(* and no other, is dropped by the acknowledge, and DCSR bit 7 tells       *)
(* whether it was the raster (asic.c:291-320).                             *)
VectorNamesAcknowledged ==
    [][Accept /\ plus /\ asserted =>
          LET vector == asic_irq_vector(asic)
              taken == {c \in asic.dma : vector = 4 - 2 * c}
          IN  /\ asic'.acked = (vector = Raster)
              /\ ~asic'.raster
              /\ asic'.dma = IF asic.auto THEN asic.dma \ taken ELSE asic.dma]_vars

(* Two requests of the Gate Array are at least Half lines apart, wherever  *)
(* the acknowledge and the VSYNC fall between them (gate_array.c:144-171). *)
RequestsApart == [][HSyncEnds /\ Requests(ga) => since + 1 >= Half]_vars
=============================================================================
