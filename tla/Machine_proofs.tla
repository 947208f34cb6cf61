--------------------------- MODULE Machine_proofs ---------------------------
(* What is proved of the machine behind the CPU: CpcIrq's promises, for    *)
(* every counter, channel and raster line, then Memory's, for every amount *)
(* of RAM, byte, port and cartridge, then Crtc's, for every width of its   *)
(* counters, every set of registers and every type, then where the beam of *)
(* the monitor may be, for every source of lines.                          *)
EXTENDS MCMachine, NatFacts, TLAPS

-----------------------------------------------------------------------------
(* Interrupts *)

(* The counter against the history: it has never counted more lines than   *)
(* went by since the last request.                                         *)
CountInv == ga.counter <= since

(* The request on its way: raised by the bus, delivered at the end of the  *)
(* step, dropped by the guest or the acknowledge.                          *)
LineInv == /\ asserted => cpu.pending
           /\ cpu.pending => asserted \/ gfx.irq \/ ga.pending
           /\ gfx.irq => gfx.enabled
           /\ Between => ~ga.pending
           /\ Between /\ gfx.irq => cpu.pending

SourceInv == plus => /\ asserted \/ ga.pending => asic_irq_pending(asic)
                     /\ asic.raster => asserted \/ ga.pending

-----------------------------------------------------------------------------
(* One line of the counter. *)

GaType == [counter : 0 .. Period - 1, pending : BOOLEAN, delay : 0 .. 2]

(* Counting a line: the type, and how the counter and the request move.    *)
LEMMA CountedLine ==
    ASSUME NEW g \in GaType
    PROVE  /\ Counted(g) \in GaType
           /\ Counted(g).delay = g.delay
           /\ Counted(g).counter = IF g.counter + 1 >= Period THEN 0 ELSE g.counter + 1
           /\ Counted(g).pending = (g.pending \/ g.counter + 1 >= Period)
<1>0. /\ Period \in Nat /\ Period > 0 /\ g.counter \in 0 .. Period - 1
      /\ g.pending \in BOOLEAN /\ g.delay \in 0 .. 2
  BY CounterAssumption DEF GaType
<1>1. CASE g.counter + 1 >= Period
  <2>1. Counted(g) = [g EXCEPT !.counter = 0, !.pending = TRUE]  BY <1>1 DEF Counted
  <2>2. 0 \in 0 .. Period - 1  BY <1>0
  <2>. QED  BY <1>1, <2>1, <2>2 DEF GaType
<1>2. CASE ~(g.counter + 1 >= Period)
  <2>1. Counted(g) = [g EXCEPT !.counter = @ + 1]  BY <1>2 DEF Counted
  <2>2. g.counter + 1 \in 0 .. Period - 1  BY <1>0, <1>2
  <2>. QED  BY <1>2, <2>1, <2>2 DEF GaType
<1>. QED  BY <1>1, <1>2

(* The resynchronisation: the same. *)
LEMMA ResyncedLine ==
    ASSUME NEW g \in GaType
    PROVE  /\ Resynced(g) \in GaType
           /\ Resynced(g).counter = IF g.delay = 1 THEN 0 ELSE g.counter
           /\ Resynced(g).pending = (g.pending \/ (g.delay = 1 /\ g.counter >= Half))
<1>0. /\ 0 \in 0 .. Period - 1 /\ g.counter \in 0 .. Period - 1
      /\ g.pending \in BOOLEAN /\ g.delay \in 0 .. 2
  BY CounterAssumption DEF GaType
<1>1. CASE g.delay = 0  BY <1>0, <1>1 DEF Resynced
<1>2. CASE g.delay = 1
  <2>1. Resynced(g) = [counter |-> 0, delay |-> 0, pending |-> g.pending \/ g.counter >= Half]
    BY <1>2 DEF Resynced
  <2>. QED  BY <1>0, <1>2, <2>1 DEF GaType
<1>3. CASE g.delay = 2
  <2>1. Resynced(g) = [g EXCEPT !.delay = 1]  BY <1>3 DEF Resynced
  <2>. QED  BY <1>0, <1>3, <2>1 DEF GaType
<1>. QED  BY <1>0, <1>1, <1>2, <1>3

(* A line keeps the type and takes no request back; it requests only with  *)

(* at least Half lines counted, and the counter then starts again.         *)
LEMMA OneLine ==
    ASSUME NEW g \in GaType
    PROVE  /\ ga_hsync(g) \in GaType
           /\ ga_hsync(g).pending = (g.pending \/ Requests(g))
           /\ Requests(g) \in BOOLEAN
           /\ Requests(g) => ga_hsync(g).counter = 0 /\ g.counter + 1 >= Half
           /\ ga_hsync(g).counter <= g.counter + 1
<1>0. /\ Period \in Nat /\ Half \in Nat /\ Half < Period /\ g.counter \in 0 .. Period - 1
      /\ g.pending \in BOOLEAN /\ g.delay \in 0 .. 2
  BY CounterAssumption DEF GaType
<1>. DEFINE h == [g EXCEPT !.pending = FALSE]
<1>1. h \in GaType /\ h.counter = g.counter /\ h.delay = g.delay /\ h.pending = FALSE
  BY <1>0 DEF GaType
<1>. HIDE DEF h
<1>2. Counted(g) \in GaType /\ Counted(h) \in GaType  BY <1>1, CountedLine
<1>3. /\ ga_hsync(g) \in GaType
      /\ ga_hsync(g).pending =
           (Counted(g).pending \/ (Counted(g).delay = 1 /\ Counted(g).counter >= Half))
      /\ ga_hsync(g).counter = IF Counted(g).delay = 1 THEN 0 ELSE Counted(g).counter
  BY <1>2, ResyncedLine DEF ga_hsync
<1>4. Requests(g) =
           (Counted(h).pending \/ (Counted(h).delay = 1 /\ Counted(h).counter >= Half))
  BY <1>2, ResyncedLine DEF ga_hsync, Requests, h
<1>5. /\ Counted(h).counter = Counted(g).counter /\ Counted(h).delay = g.delay
      /\ Counted(g).delay = g.delay
      /\ Counted(g).counter = IF g.counter + 1 >= Period THEN 0 ELSE g.counter + 1
      /\ Counted(g).pending = (g.pending \/ g.counter + 1 >= Period)
      /\ Counted(h).pending = (g.counter + 1 >= Period)
  BY <1>1, CountedLine
<1>6. ga_hsync(g).pending = (g.pending \/ Requests(g)) /\ Requests(g) \in BOOLEAN
  <2>. DEFINE full == g.counter + 1 >= Period
              past == g.delay = 1 /\ Counted(g).counter >= Half
  <2>1. ga_hsync(g).pending = ((g.pending \/ full) \/ past)  BY <1>3, <1>5, Zenon
  <2>2. Requests(g) = (full \/ past)  BY <1>4, <1>5, Zenon
  <2>. HIDE DEF full, past
  <2>. QED  BY <2>1, <2>2, Zenon
<1>7. Requests(g) => ga_hsync(g).counter = 0 /\ g.counter + 1 >= Half
  <2>1. Requests(g) => g.counter + 1 >= Period \/ (g.delay = 1 /\ Counted(g).counter >= Half)
    BY <1>4, <1>5, Zenon
  <2>2. CASE g.counter + 1 >= Period  BY <1>0, <1>3, <1>5, <2>2
  <2>3. CASE g.delay = 1 /\ Counted(g).counter >= Half  BY <1>0, <1>3, <1>5, <2>3
  <2>. QED  BY <2>1, <2>2, <2>3
<1>8. ga_hsync(g).counter <= g.counter + 1
  BY <1>0, <1>3, <1>5
<1>. QED  BY <1>3, <1>6, <1>7, <1>8

(* The acknowledge only ever lowers the counter. *)
LEMMA Acknowledged ==
    ASSUME NEW g \in GaType
    PROVE  /\ ga_irq_ack(g) \in GaType
           /\ ga_irq_ack(g).counter <= g.counter
           /\ ga_irq_ack(g).pending = g.pending
<1>1. g.counter \in 0 .. Period - 1 /\ Period \in Nat /\ Half \in Nat \ {0}
  BY CounterAssumption DEF GaType
<1>2. g.counter % Half \in 0 .. Period - 1 /\ g.counter % Half <= g.counter
  BY <1>1
<1>. QED  BY <1>2 DEF ga_irq_ack, GaType

-----------------------------------------------------------------------------
(* Types. *)

(* Every step keeps the types: a bus event, the CPU, the guest or the      *)

(* user.                                                                   *)
LEMMA TypeStep == TypeOK /\ [Next]_vars => TypeOK'
<1>. SUFFICES ASSUME TypeOK, [Next]_vars PROVE TypeOK'  OBVIOUS
<1>0. /\ ga \in GaType
      /\ ga.pending \in BOOLEAN /\ ga.counter \in 0 .. Period - 1 /\ ga.delay \in 0 .. 2
      /\ 0 \in 0 .. Period - 1 /\ since \in Nat /\ asserted \in BOOLEAN
  BY CounterAssumption DEF TypeOK, GaType
<1>1. CASE HSyncEnds
  <2>0. since' = 0 \/ since' = since + 1  BY <1>1, Zenon DEF HSyncEnds
  <2>1. since' \in Nat  BY <1>0, <2>0
  <2>2. step' \in [at : {"fetch", "run", "tail"}, left : SUBSET Events]
    BY <1>1 DEF HSyncEnds, Event, TypeOK
  <2>3. CASE ~plus
    BY <1>0, <1>1, <2>1, <2>2, <2>3, OneLine DEF HSyncEnds, TypeOK, GaType
  <2>4. CASE plus
    <3>1. PICK new \in SUBSET Channels :
            LET g == ga_hsync(ga)
                legacy == asic.line = 0 /\ ~ga.pending /\ g.pending
                kept == IF asic.line = 0 THEN g.pending ELSE ga.pending
            IN  /\ ga' = [g EXCEPT !.pending = kept \/ new # {}]
                /\ asic' = [asic EXCEPT !.raster = @ \/ legacy, !.dma = @ \cup new]
      BY <1>1, <2>4 DEF HSyncEnds
    <3>2. ga_hsync(ga) \in GaType  BY <1>0, OneLine
    <3>3. ga' \in GaType  BY <1>0, <3>1, <3>2 DEF GaType
    <3>4. asic.dma \cup new \in SUBSET Channels  BY <3>1 DEF TypeOK
    <3>5. asic' \in [raster : BOOLEAN, acked : BOOLEAN, dma : SUBSET Channels,
                     line : Lines \cup {0}, auto : BOOLEAN]
      BY <3>1, <3>4 DEF TypeOK
    <3>. QED  BY <1>1, <2>1, <2>2, <3>3, <3>5 DEF HSyncEnds, TypeOK, GaType
  <2>. QED  BY <2>3, <2>4
<1>2. CASE asic_raster_tick
  BY <1>0, <1>2 DEF asic_raster_tick, Event, TypeOK
<1>3. CASE ga_vsync_start
  BY <1>0, <1>3 DEF ga_vsync_start, Event, TypeOK
<1>4. CASE v9990_advance
  BY <1>0, <1>4 DEF v9990_advance, Event, TypeOK
<1>5. CASE Accept
  <2>1. /\ asic_irq_ack(asic) \in [raster : BOOLEAN, acked : BOOLEAN, dma : SUBSET Channels,
                                   line : Lines \cup {0}, auto : BOOLEAN]
        /\ ga_irq_ack(ga) \in GaType
    <3>1. asic.dma \ {Top(asic.dma)} \in SUBSET Channels  BY DEF TypeOK
    <3>. QED  BY <1>0, <3>1, Acknowledged DEF asic_irq_ack, TypeOK
  <2>2. asic_irq_pending(asic') \in BOOLEAN
    BY <1>5, <2>1 DEF Accept, asic_irq_pending, TypeOK
  <2>3. ga' \in GaType
    BY <1>0, <1>5, <2>1, <2>2 DEF Accept, GaType
  <2>4. asic' \in [raster : BOOLEAN, acked : BOOLEAN, dma : SUBSET Channels,
                   line : Lines \cup {0}, auto : BOOLEAN]
    BY <1>5, <2>1 DEF Accept, TypeOK
  <2>5. step' \in [at : {"fetch", "run", "tail"}, left : SUBSET Events]
    BY <1>5 DEF Accept
  <2>. QED  BY <1>5, <2>3, <2>4, <2>5 DEF Accept, TypeOK, GaType
<1>6. CASE Fetch
  BY <1>0, <1>6 DEF Fetch, TypeOK
<1>7. CASE Ei \/ Di
  <2>1. CASE Ei  BY <1>0, <2>1 DEF Ei, Execute, TypeOK
  <2>2. CASE Di  BY <1>0, <2>2 DEF Di, Execute, TypeOK
  <2>. QED  BY <1>7, <2>1, <2>2
<1>8. CASE ResetInterrupt
  BY <1>0, <1>8 DEF ResetInterrupt, Execute, Released, TypeOK
<1>9. CASE RegisterPage /\ \E a \in [raster : BOOLEAN, acked : BOOLEAN, dma : SUBSET Channels,
                                     line : Lines \cup {0}, auto : BOOLEAN], p \in BOOLEAN : Write(a, p)
  <2>1. PICK a \in [raster : BOOLEAN, acked : BOOLEAN, dma : SUBSET Channels,
                    line : Lines \cup {0}, auto : BOOLEAN], p \in BOOLEAN : Write(a, p)
    BY <1>9
  <2>2. step' = [step EXCEPT !.at = "tail"] /\ UNCHANGED <<plus, gfx, since>>
    BY <1>9 DEF RegisterPage, Execute
  <2>3. ga' \in GaType  BY <1>0, <2>1 DEF Write, GaType
  <2>4. asserted' \in BOOLEAN /\ asic' = a  BY <1>0, <2>1 DEF Write
  <2>5. cpu' \in [pending : BOOLEAN, iff : BOOLEAN, eiDelay : BOOLEAN]
    BY <2>1 DEF Write, Released, TypeOK
  <2>. QED  BY <2>1, <2>2, <2>3, <2>4, <2>5 DEF TypeOK, GaType
<1>10. CASE asic_program_raster
  <2>1. PICK line \in Lines \cup {0}, now \in BOOLEAN :
          LET other == line # 0 /\ line # asic.line
              a == [asic EXCEPT !.line = line, !.raster = IF other THEN now ELSE @]
          IN  Write(a, IF other THEN asic_irq_pending(a) ELSE ga.pending)
    BY <1>10 DEF asic_program_raster
  <2>. DEFINE other == line # 0 /\ line # asic.line
              a == [asic EXCEPT !.line = line, !.raster = IF other THEN now ELSE @]
              p == IF other THEN asic_irq_pending(a) ELSE ga.pending
  <2>2. a \in [raster : BOOLEAN, acked : BOOLEAN, dma : SUBSET Channels,
               line : Lines \cup {0}, auto : BOOLEAN]
    BY DEF TypeOK
  <2>3. p \in BOOLEAN  BY <1>0, <2>2 DEF asic_irq_pending
  <2>4. Write(a, p)  BY <2>1
  <2>. HIDE DEF a, p
  <2>. QED  BY <1>9, <1>10, <2>2, <2>3, <2>4 DEF asic_program_raster
<1>11. CASE WriteDcsr
  <2>1. PICK acked \in SUBSET Channels : Write([asic EXCEPT !.dma = @ \ acked], ga.pending)
    BY <1>11 DEF WriteDcsr
  <2>2. [asic EXCEPT !.dma = @ \ acked] \in
          [raster : BOOLEAN, acked : BOOLEAN, dma : SUBSET Channels,
           line : Lines \cup {0}, auto : BOOLEAN]
    <3>1. asic.dma \ acked \in SUBSET Channels  BY DEF TypeOK
    <3>. QED  BY <3>1 DEF TypeOK
  <2>. QED  BY <1>0, <1>9, <1>11, <2>1, <2>2 DEF WriteDcsr
<1>12. CASE WriteIvr
  <2>1. PICK auto \in BOOLEAN : Write([asic EXCEPT !.auto = auto], ga.pending)
    BY <1>12 DEF WriteIvr
  <2>2. [asic EXCEPT !.auto = auto] \in
          [raster : BOOLEAN, acked : BOOLEAN, dma : SUBSET Channels,
           line : Lines \cup {0}, auto : BOOLEAN]
    BY DEF TypeOK
  <2>. QED  BY <1>0, <1>9, <1>12, <2>1, <2>2 DEF WriteIvr
<1>13. CASE v9990_io_write
  BY <1>0, <1>13 DEF v9990_io_write, Execute, TypeOK
<1>14. CASE Deliver
  BY <1>0, <1>14 DEF Deliver, TypeOK
<1>15. CASE cpc_set_powergraph_v9990
  BY <1>0, <1>15 DEF cpc_set_powergraph_v9990, TypeOK
<1>16. CASE UNCHANGED vars
  BY <1>16 DEF vars, TypeOK
<1>. QED  BY <1>1, <1>2, <1>3, <1>4, <1>5, <1>6, <1>7, <1>8, <1>10, <1>11, <1>12, <1>13,
            <1>14, <1>15, <1>16 DEF Next, Bus

(* Every variable keeps its range: in particular the line counter of the   *)
(* Gate Array stays below Period through acknowledges and VSYNCs.          *)
THEOREM Types == Spec => []TypeOK
<1>1. Init => TypeOK
  <2>1. 0 \in 0 .. Period - 1  BY CounterAssumption
  <2>. SUFFICES ASSUME Init PROVE TypeOK  OBVIOUS
  <2>2. ga \in [counter : 0 .. Period - 1, pending : BOOLEAN, delay : 0 .. 2]
    BY <2>1 DEF Init
  <2>3. asic \in [raster : BOOLEAN, acked : BOOLEAN, dma : SUBSET Channels,
                 line : Lines \cup {0}, auto : BOOLEAN]
    BY DEF Init
  <2>4. step \in [at : {"fetch", "run", "tail"}, left : SUBSET Events]
    BY DEF Init
  <2>. QED  BY <2>2, <2>3, <2>4 DEF Init, TypeOK
<1>. QED  BY <1>1, TypeStep, PTL DEF Spec

-----------------------------------------------------------------------------
(* The spacing of the Gate Array's requests. *)

(* Every step keeps the counter below the history: only HSyncEnds moves    *)

(* both.                                                                   *)
LEMMA CountStep == TypeOK /\ CountInv /\ [Next]_vars => CountInv'
<1>. SUFFICES ASSUME TypeOK, CountInv, [Next]_vars PROVE CountInv'  OBVIOUS
<1>0. ga \in GaType /\ ga.counter \in 0 .. Period - 1 /\ since \in Nat /\ ga.counter <= since
  BY DEF TypeOK, GaType, CountInv
<1>1. CASE HSyncEnds
  <2>1. ga'.counter = ga_hsync(ga).counter
    <3>1. ga_hsync(ga) \in GaType  BY <1>0, OneLine
    <3>2. CASE plus
      <4>1. PICK new \in SUBSET Channels : ga' = [ga_hsync(ga) EXCEPT !.pending =
                 (IF asic.line = 0 THEN ga_hsync(ga).pending ELSE ga.pending) \/ new # {}]
        BY <1>1, <3>2 DEF HSyncEnds
      <4>. QED  BY <3>1, <4>1 DEF GaType
    <3>. QED  BY <1>1, <3>2 DEF HSyncEnds
  <2>2. /\ Requests(ga) => ga'.counter = 0
        /\ ga'.counter <= ga.counter + 1
        /\ ga_hsync(ga) \in GaType
    BY <1>0, <2>1, OneLine
  <2>3. (Requests(ga) /\ since' = 0) \/ since' = since + 1  BY <1>1, Zenon DEF HSyncEnds
  <2>4. ga'.counter \in Int  BY <2>1, <2>2, CounterAssumption DEF GaType
  <2>. QED  BY <1>0, <2>2, <2>3, <2>4, CounterAssumption DEF CountInv
<1>2. CASE Accept
  <2>1. ga'.counter = ga.counter \/ ga'.counter = ga_irq_ack(ga).counter
    <3>1. ga_irq_ack(ga) \in GaType  BY <1>0, Acknowledged
    <3>. QED  BY <1>0, <1>2, <3>1 DEF Accept, GaType
  <2>2. ga_irq_ack(ga).counter <= ga.counter /\ ga_irq_ack(ga).counter \in Int
    BY <1>0, Acknowledged, CounterAssumption DEF GaType
  <2>3. since' = since  BY <1>2 DEF Accept
  <2>. QED  BY <1>0, <2>1, <2>2, <2>3, CounterAssumption DEF CountInv
<1>3. CASE ResetInterrupt
  BY <1>0, <1>3 DEF ResetInterrupt, CountInv, GaType
<1>4. ASSUME ga'.counter = ga.counter, since' = since PROVE CountInv'
  BY <1>0, <1>4 DEF CountInv
<1>5. CASE asic_raster_tick \/ ga_vsync_start \/ v9990_advance \/ Fetch \/ Ei \/ Di
           \/ v9990_io_write \/ Deliver \/ cpc_set_powergraph_v9990 \/ UNCHANGED vars
  BY <1>0, <1>4, <1>5 DEF asic_raster_tick, ga_vsync_start, v9990_advance, Fetch, Ei, Di,
     v9990_io_write, Deliver, cpc_set_powergraph_v9990, vars, GaType
<1>6. CASE asic_program_raster \/ WriteDcsr \/ WriteIvr
  <2>1. since' = since  BY <1>6 DEF asic_program_raster, WriteDcsr, WriteIvr, RegisterPage
  <2>2. \A a, p : Write(a, p) => ga'.counter = ga.counter
    BY <1>0 DEF Write, GaType
  <2>. QED  BY <1>4, <1>6, <2>1, <2>2 DEF asic_program_raster, WriteDcsr, WriteIvr
<1>. QED  BY <1>1, <1>2, <1>3, <1>5, <1>6 DEF Next, Bus

(* Between two requests of the Gate Array at least Half HSYNCs pass,       *)
(* wherever acknowledges, RMR resets and VSYNCs fall: the counter never    *)
(* holds more than the lines since the last one, and asks for Half.        *)
THEOREM Spacing == Spec => RequestsApart
<1>1. Init => CountInv
  BY CounterAssumption DEF Init, CountInv
<1>2. TypeOK /\ CountInv /\ HSyncEnds /\ Requests(ga) => since + 1 >= Half
  <2>. SUFFICES ASSUME TypeOK, CountInv, Requests(ga) PROVE since + 1 >= Half  OBVIOUS
  <2>1. ga \in GaType  BY DEF TypeOK, GaType
  <2>2. ga.counter + 1 >= Half  BY <2>1, OneLine
  <2>. QED  BY <2>1, <2>2, CounterAssumption DEF CountInv, TypeOK, GaType
<1>3. TypeOK /\ CountInv /\ [Next]_vars =>
        [HSyncEnds /\ Requests(ga) => since + 1 >= Half]_vars
  BY <1>2
<1>. QED  BY <1>1, <1>3, CountStep, Types, PTL DEF Spec, RequestsApart

-----------------------------------------------------------------------------
(* The request from the bus to the CPU. *)

(* No line of the counter takes a request back. *)
LEMMA LineKeeps == TypeOK /\ HSyncEnds /\ ga.pending => ga'.pending
<1>. SUFFICES ASSUME TypeOK, HSyncEnds, ga.pending PROVE ga'.pending  OBVIOUS
<1>1. ga_hsync(ga) \in GaType /\ ga_hsync(ga).pending
  <2>1. ga \in GaType  BY DEF TypeOK, GaType
  <2>2. ga_hsync(ga) \in GaType /\ ga_hsync(ga).pending = (ga.pending \/ Requests(ga))
    BY <2>1, OneLine
  <2>. QED  BY <2>2, Zenon
<1>2. CASE plus
  <2>1. PICK new \in SUBSET Channels : ga' = [ga_hsync(ga) EXCEPT !.pending =
             (IF asic.line = 0 THEN ga_hsync(ga).pending ELSE ga.pending) \/ new # {}]
    BY <1>2 DEF HSyncEnds
  <2>. QED  BY <1>1, <2>1 DEF GaType
<1>. QED  BY <1>1, <1>2 DEF HSyncEnds

(* Every step keeps the line what its sources say, in the middle of an     *)

(* instruction too.                                                        *)
LEMMA LineStep == TypeOK /\ LineInv /\ [Next]_vars => LineInv'
<1>. SUFFICES ASSUME TypeOK, LineInv, [Next]_vars PROVE LineInv'  OBVIOUS
<1>1. CASE HSyncEnds
  BY <1>1, LineKeeps DEF HSyncEnds, Event, LineInv, Between, TypeOK
<1>2. CASE asic_raster_tick
  BY <1>2 DEF asic_raster_tick, Event, LineInv, Between, TypeOK
<1>3. CASE ga_vsync_start
  BY <1>3 DEF ga_vsync_start, Event, LineInv, Between, TypeOK
<1>4. CASE v9990_advance
  BY <1>4 DEF v9990_advance, Event, LineInv, Between, TypeOK
<1>5. CASE Accept
  BY <1>5 DEF Accept, LineInv, Between, TypeOK
<1>6. CASE Fetch
  BY <1>6 DEF Fetch, LineInv, Between, TypeOK
<1>7. CASE Ei \/ Di
  <2>1. /\ cpu'.pending = cpu.pending /\ step'.at = "tail"
        /\ UNCHANGED <<ga, gfx, asserted>>
    BY <1>7, ZenonT(30) DEF Ei, Di, Execute, TypeOK
  <2>. QED  BY <2>1 DEF LineInv, Between
<1>8. CASE ResetInterrupt
  BY <1>8 DEF ResetInterrupt, Execute, Released, LineInv, Between, TypeOK
<1>9. ASSUME NEW a, NEW p, Write(a, p), RegisterPage, ga.pending /\ asic_irq_pending(a) => p
      PROVE  LineInv'
  <2>1. step'.at = "tail"  BY <1>9 DEF RegisterPage, Execute, TypeOK
  <2>2. gfx' = gfx  BY <1>9 DEF RegisterPage
  <2>3. CASE asic_irq_pending(a)
    BY <1>9, <2>1, <2>2, <2>3 DEF Write, LineInv, Between, TypeOK
  <2>4. CASE ~asic_irq_pending(a)
    BY <1>9, <2>1, <2>2, <2>4 DEF Write, Released, LineInv, Between, TypeOK
  <2>. QED  BY <2>3, <2>4
<1>10. CASE asic_program_raster
  <2>1. PICK line \in Lines \cup {0}, now \in BOOLEAN :
          LET other == line # 0 /\ line # asic.line
              a == [asic EXCEPT !.line = line, !.raster = IF other THEN now ELSE @]
          IN  Write(a, IF other THEN asic_irq_pending(a) ELSE ga.pending)
    BY <1>10 DEF asic_program_raster
  <2>. DEFINE other == line # 0 /\ line # asic.line
              a == [asic EXCEPT !.line = line, !.raster = IF other THEN now ELSE @]
              p == IF other THEN asic_irq_pending(a) ELSE ga.pending
  <2>2. Write(a, p)  BY <2>1
  <2>3. ga.pending /\ asic_irq_pending(a) => p  OBVIOUS
  <2>. HIDE DEF a, p
  <2>. QED  BY <1>9, <1>10, <2>2, <2>3 DEF asic_program_raster
<1>11. CASE WriteDcsr
  BY <1>9, <1>11 DEF WriteDcsr
<1>12. CASE WriteIvr
  BY <1>9, <1>12 DEF WriteIvr
<1>13. CASE v9990_io_write
  BY <1>13 DEF v9990_io_write, Execute, LineInv, Between, TypeOK
<1>14. CASE Deliver
  BY <1>14 DEF Deliver, LineInv, Between, TypeOK
<1>15. CASE cpc_set_powergraph_v9990
  BY <1>15 DEF cpc_set_powergraph_v9990, LineInv, Between, TypeOK
<1>16. CASE UNCHANGED vars
  BY <1>16 DEF vars, LineInv, Between
<1>. QED  BY <1>1, <1>2, <1>3, <1>4, <1>5, <1>6, <1>7, <1>8, <1>10, <1>11, <1>12, <1>13,
            <1>14, <1>15, <1>16 DEF Next, Bus

(* Between two CPU steps the line is up exactly when the Gate Array's      *)
(* request is unacknowledged or the V9990 asks, on both kinds of machine.  *)
THEOREM LineHeld == Spec => []LineIsRequest
<1>1. Init => LineInv
  BY DEF Init, LineInv, Between
<1>2. TypeOK /\ LineInv => LineIsRequest
  BY DEF LineInv, LineIsRequest, Between, TypeOK
<1>. QED  BY <1>1, <1>2, LineStep, Types, PTL DEF Spec

-----------------------------------------------------------------------------
(* The request and its source on a Plus. *)

(* Every step keeps a source behind the request of a Plus, and a request   *)

(* behind a raster.                                                        *)
LEMMA SourceStep == TypeOK /\ SourceInv /\ [Next]_vars => SourceInv'
<1>. SUFFICES ASSUME TypeOK, SourceInv, [Next]_vars PROVE SourceInv'  OBVIOUS
<1>0. plus' = plus
  <2>1. CASE Bus
    BY <2>1 DEF Bus, HSyncEnds, asic_raster_tick, ga_vsync_start, v9990_advance
  <2>2. CASE asic_program_raster \/ WriteDcsr \/ WriteIvr
    BY <2>2, Zenon DEF RegisterPage, asic_program_raster, WriteDcsr, WriteIvr
  <2>3. CASE Accept \/ Fetch \/ Deliver \/ cpc_set_powergraph_v9990 \/ UNCHANGED vars
    BY <2>3 DEF Accept, Fetch, Deliver, cpc_set_powergraph_v9990, vars
  <2>4. CASE Ei \/ Di \/ ResetInterrupt \/ v9990_io_write
    BY <2>4 DEF Ei, Di, ResetInterrupt, v9990_io_write
  <2>. QED  BY <2>1, <2>2, <2>3, <2>4 DEF Next
<1>. SUFFICES ASSUME plus PROVE SourceInv'  BY <1>0 DEF SourceInv
<1>1. CASE HSyncEnds
  <2>. DEFINE g == ga_hsync(ga)
  <2>1. PICK new \in SUBSET Channels :
          /\ ga' = [g EXCEPT !.pending = (IF asic.line = 0 THEN g.pending ELSE ga.pending) \/ new # {}]
          /\ asic' = [asic EXCEPT !.raster = @ \/ (asic.line = 0 /\ ~ga.pending /\ g.pending),
                                  !.dma = @ \cup new]
    BY <1>1 DEF HSyncEnds
  <2>2. g \in GaType /\ (ga.pending => g.pending)
    <3>1. ga \in GaType  BY DEF TypeOK, GaType
    <3>2. g \in GaType /\ g.pending = (ga.pending \/ Requests(ga))  BY <3>1, OneLine
    <3>. QED  BY <3>2, Zenon
  <2>. HIDE DEF g
  <2>3. /\ ga'.pending = ((IF asic.line = 0 THEN g.pending ELSE ga.pending) \/ new # {})
        /\ asic'.raster = (asic.raster \/ (asic.line = 0 /\ ~ga.pending /\ g.pending))
        /\ asic'.dma = asic.dma \cup new
    BY <2>1, <2>2 DEF GaType, TypeOK
  <2>4. asserted' = asserted /\ plus' = plus  BY <1>1 DEF HSyncEnds
  <2>. QED  BY <2>2, <2>3, <2>4 DEF SourceInv, asic_irq_pending, TypeOK, GaType
<1>2. CASE asic_raster_tick
  BY <1>2 DEF asic_raster_tick, SourceInv, asic_irq_pending, TypeOK
<1>3. CASE ga_vsync_start
  BY <1>3 DEF ga_vsync_start, SourceInv, asic_irq_pending, TypeOK
<1>4. CASE v9990_advance \/ Fetch \/ Ei \/ Di \/ v9990_io_write \/ cpc_set_powergraph_v9990
           \/ UNCHANGED vars
  BY <1>4 DEF v9990_advance, Fetch, Ei, Di, v9990_io_write, cpc_set_powergraph_v9990, vars,
     SourceInv, asic_irq_pending
<1>5. CASE Accept
  <2>1. CASE asserted
    <3>1. asic' = asic_irq_ack(asic) /\ ~asserted'  BY <1>5, <2>1 DEF Accept
    <3>2. ga'.pending = asic_irq_pending(asic')
      <4>1. ga_irq_ack(ga) \in GaType  BY Acknowledged DEF TypeOK, GaType
      <4>. QED  BY <1>5, <2>1, <4>1 DEF Accept, TypeOK, GaType
    <3>. QED  BY <3>1, <3>2 DEF SourceInv, asic_irq_pending
  <2>2. CASE ~asserted
    BY <1>5, <2>2 DEF Accept, SourceInv, asic_irq_pending, TypeOK
  <2>. QED  BY <2>1, <2>2
<1>6. CASE ResetInterrupt
  BY <1>6 DEF ResetInterrupt, SourceInv, asic_irq_pending, TypeOK
<1>7. ASSUME NEW a, NEW p, Write(a, p), a.raster => asserted \/ p
      PROVE  SourceInv'
  <2>1. CASE asic_irq_pending(a)
    BY <1>7, <2>1 DEF Write, SourceInv, asic_irq_pending, TypeOK
  <2>2. CASE ~asic_irq_pending(a)
    BY <1>7, <2>2 DEF Write, SourceInv, asic_irq_pending, TypeOK
  <2>. QED  BY <2>1, <2>2
<1>8. CASE asic_program_raster
  <2>1. PICK line \in Lines \cup {0}, now \in BOOLEAN :
          LET other == line # 0 /\ line # asic.line
              a == [asic EXCEPT !.line = line, !.raster = IF other THEN now ELSE @]
          IN  Write(a, IF other THEN asic_irq_pending(a) ELSE ga.pending)
    BY <1>8 DEF asic_program_raster
  <2>. DEFINE other == line # 0 /\ line # asic.line
              a == [asic EXCEPT !.line = line, !.raster = IF other THEN now ELSE @]
              p == IF other THEN asic_irq_pending(a) ELSE ga.pending
  <2>2. Write(a, p)  BY <2>1
  <2>3. a.raster => asserted \/ p  BY DEF asic_irq_pending, SourceInv, TypeOK
  <2>. HIDE DEF a, p
  <2>. QED  BY <1>7, <2>2, <2>3
<1>9. CASE WriteDcsr
  <2>1. PICK acked \in SUBSET Channels : Write([asic EXCEPT !.dma = @ \ acked], ga.pending)
    BY <1>9 DEF WriteDcsr
  <2>2. [asic EXCEPT !.dma = @ \ acked].raster => asserted \/ ga.pending
    BY DEF SourceInv, TypeOK
  <2>. QED  BY <1>7, <2>1, <2>2
<1>10. CASE WriteIvr
  <2>1. PICK auto \in BOOLEAN : Write([asic EXCEPT !.auto = auto], ga.pending)
    BY <1>10 DEF WriteIvr
  <2>2. [asic EXCEPT !.auto = auto].raster => asserted \/ ga.pending
    BY DEF SourceInv, TypeOK
  <2>. QED  BY <1>7, <2>1, <2>2
<1>11. CASE Deliver
  BY <1>11 DEF Deliver, SourceInv, asic_irq_pending, TypeOK
<1>. QED  BY <1>1, <1>2, <1>3, <1>4, <1>5, <1>6, <1>8, <1>9, <1>10, <1>11 DEF Next, Bus

(* On a Plus an unacknowledged request always has a source in the ASIC,    *)
(* and a raster request always has the line.                               *)
THEOREM SourceNamed == Spec => []RequestHasSource
<1>1. Init => SourceInv
  BY DEF Init, SourceInv
<1>2. SourceInv /\ LineInv => RequestHasSource
  BY DEF SourceInv, LineInv, RequestHasSource
<1>3. Init => LineInv
  BY DEF Init, LineInv, Between
<1>. QED  BY <1>1, <1>2, <1>3, LineStep, SourceStep, Types, PTL DEF Spec
(* The channel the vector names is the one the acknowledge drops: the      *)

(* highest that asks, since the two walk the channels in the same order.   *)
LEMMA VectorNamesTop ==
    ASSUME NEW a, a.dma \in SUBSET {0, 1, 2}, a.dma # {}, ~a.raster
    PROVE  /\ asic_irq_vector(a) # Raster
           /\ {c \in a.dma : asic_irq_vector(a) = 4 - 2 * c} = {Top(a.dma)}
<1>1. CASE 2 \in a.dma
  <2>1. Top(a.dma) = 2
    <3>1. \A d \in a.dma : d <= 2  OBVIOUS
    <3>2. \A c \in a.dma : (\A d \in a.dma : d <= c) => c = 2  BY <1>1
    <3>. QED  BY <1>1, <3>1, <3>2 DEF Top
  <2>2. asic_irq_vector(a) = 0  BY <1>1 DEF asic_irq_vector
  <2>. QED  BY <1>1, <2>1, <2>2 DEF Raster
<1>2. CASE 2 \notin a.dma /\ 1 \in a.dma
  <2>1. Top(a.dma) = 1
    <3>1. \A d \in a.dma : d <= 1  BY <1>2
    <3>2. \A c \in a.dma : (\A d \in a.dma : d <= c) => c = 1  BY <1>2
    <3>. QED  BY <1>2, <3>1, <3>2 DEF Top
  <2>2. asic_irq_vector(a) = 2  BY <1>2 DEF asic_irq_vector
  <2>. QED  BY <1>2, <2>1, <2>2 DEF Raster
<1>3. CASE 2 \notin a.dma /\ 1 \notin a.dma
  <2>1. a.dma = {0}  BY <1>3
  <2>2. Top(a.dma) = 0
    <3>1. \A d \in a.dma : d <= 0  BY <2>1
    <3>2. \A c \in a.dma : c = 0  BY <2>1
    <3>. QED  BY <2>1, <3>1, <3>2 DEF Top
  <2>3. asic_irq_vector(a) = 4  BY <2>1 DEF asic_irq_vector
  <2>. QED  BY <2>1, <2>2, <2>3 DEF Raster
<1>. QED  BY <1>1, <1>2, <1>3

(* The interrupt taken on a Plus is the one the vector names: that source, *)
(* and no other, is dropped by the acknowledge, and DCSR bit 7 tells       *)
(* whether it was the raster.                                              *)
THEOREM VectorSound == Spec => VectorNamesAcknowledged
<1>. DEFINE vector == asic_irq_vector(asic)
            taken == {c \in asic.dma : vector = 4 - 2 * c}
            Dropped == /\ asic'.acked = (vector = Raster)
                       /\ ~asic'.raster
                       /\ asic'.dma = IF asic.auto THEN asic.dma \ taken ELSE asic.dma
            A == Accept /\ plus /\ asserted => Dropped
<1>1. TypeOK /\ SourceInv => A
  <2>. SUFFICES ASSUME TypeOK, SourceInv, Accept, plus, asserted PROVE Dropped  OBVIOUS
  <2>1. /\ asic' = asic_irq_ack(asic)
        /\ asic_irq_pending(asic)
        /\ asic \in [raster : BOOLEAN, acked : BOOLEAN, dma : SUBSET Channels,
                     line : Lines \cup {0}, auto : BOOLEAN]
    BY DEF Accept, SourceInv, TypeOK
  <2>2. CASE asic.raster
    <3>1. asic' = [asic EXCEPT !.raster = FALSE, !.acked = TRUE]
      BY <2>1, <2>2 DEF asic_irq_ack
    <3>2. vector = Raster  BY <2>2 DEF asic_irq_vector
    <3>3. taken = {}
      <4>1. \A c \in asic.dma : 4 - 2 * c # 6  BY <2>1, SourceAssumption
      <4>. QED  BY <3>2, <4>1 DEF Raster
    <3>. QED  BY <2>1, <3>1, <3>2, <3>3
  <2>3. CASE ~asic.raster
    <3>1. asic.dma # {} /\ asic.dma \in SUBSET {0, 1, 2}
      <4>1. asic.dma # {}  BY <2>1, <2>3 DEF asic_irq_pending
      <4>2. asic.dma \in SUBSET Channels  BY <2>1
      <4>3. \A c \in Channels : c \in {0, 1, 2}  BY SourceAssumption
      <4>. QED  BY <4>1, <4>2, <4>3
    <3>2. vector # Raster /\ taken = {Top(asic.dma)}  BY <2>3, <3>1, VectorNamesTop
    <3>3. asic' = [asic EXCEPT !.acked = FALSE,
                     !.dma = IF asic.auto THEN asic.dma \ {Top(asic.dma)} ELSE asic.dma]
      BY <2>1, <2>3, <3>1 DEF asic_irq_ack
    <3>. HIDE DEF vector, taken
    <3>. QED  BY <2>1, <2>3, <3>2, <3>3
  <2>. QED  BY <2>2, <2>3
<1>2. TypeOK /\ SourceInv => [A]_vars  BY <1>1
<1>3. Init => SourceInv  BY DEF Init, SourceInv
<1>4. Init => LineInv  BY DEF Init, LineInv, Between
<1>. QED  BY <1>2, <1>3, <1>4, LineStep, SourceStep, Types, PTL DEF Spec, VectorNamesAcknowledged

(* The composition runs CpcIrq as it is, or leaves it alone: what is       *)
(* proved of it holds there.                                               *)
THEOREM InterruptsHold ==
    MachineSpec => /\ []TypeOK /\ []LineIsRequest /\ []RequestHasSource
                   /\ RequestsApart /\ VectorNamesAcknowledged
<1>1. MachineInit => Init  BY DEF MachineInit, IrqAtRest
<1>2. [MachineNext]_allVars => [Next]_vars  BY DEF MachineNext, allVars
<1>3. MachineSpec => Spec  BY <1>1, <1>2, PTL DEF MachineSpec, Spec
<1>. QED  BY <1>3, Types, LineHeld, SourceNamed, Spacing, VectorSound, PTL

-----------------------------------------------------------------------------
(* The memory map *)

(* Memory's variables *)
map == v1
gate == v2
past == v3

USE DEF map, gate, past

Plus == "6128plus"
BankRec == [high : 0 .. 3, group : 0 .. 7, mode : 0 .. 7]
(* the fields a reset sets, and those it keeps *)
Mapping == [lower : BOOLEAN, upper : BOOLEAN, select : Nat, bank : BankRec,
            lowerBank : 0 .. 2, lowerPage : Nat, registerPage : BOOLEAN]
Keeps == {"ramPages", "plus", "override", "snapshotLower", "snapshotUpper", "os", "amsdos",
          "ext", "cart"}
MapFields == Keeps \cup {"lower", "upper", "select", "bank", "lowerBank", "lowerPage",
                         "registerPage"}

Sized(x) == x.ramPages \in Nat /\ x.ramPages >= 4 /\ x.ramPages % 4 = 0

(* a map *)
Map(x) == /\ x = [f \in MapFields |-> x[f]]
          /\ Sized(x)
          /\ x.plus \in BOOLEAN /\ x.override \in BOOLEAN /\ x.snapshotLower \in BOOLEAN
          /\ x.lower \in BOOLEAN /\ x.upper \in BOOLEAN /\ x.registerPage \in BOOLEAN
          /\ x.select \in Nat /\ x.bank \in BankRec
          /\ x.lowerBank \in 0 .. 2 /\ x.lowerPage \in Nat
          /\ x.registerPage => x.lowerBank = 0
          /\ x.plus => 0 \in DOMAIN x.cart

(* The memory's copy of the ROM bits is the Gate Array's. *)
Agree(x, g) == x.lower = g.lower /\ x.upper = g.upper

(* Every quarter is behind a page that is fitted. *)
Fits(x) == \A q \in Banks!Quarters : Banks!mem_ram_offset_for_config(x.bank, q) < x.ramPages

(* What a reset leaves, until something runs. *)
Fresh(x) == /\ x.lower = TRUE /\ x.bank = Banks!Bank0 /\ x.registerPage = FALSE
            /\ x.lowerBank = 0 /\ x.lowerPage = 0

(* The map is that of the model. *)
OfModel(x, model) == x.plus = (model = Plus) /\ (~x.plus => x.os = model)

Gates == [lower : BOOLEAN, upper : BOOLEAN, locked : BOOLEAN]
Pasts == [model : Models \cup {Plus}, cards : CardSets, steps : Nat, failed : BOOLEAN,
          beyond : BOOLEAN, fresh : BOOLEAN]

MapInv == /\ Map(map) /\ gate \in Gates /\ past \in Pasts
          /\ Agree(map, gate)
          /\ ~past.beyond => Fits(map)
          /\ ~past.failed => OfModel(map, past.model)
          /\ past.fresh => Fresh(map) /\ gate.locked

-----------------------------------------------------------------------------

(* What the constants of the map are taken to be *)
LEMMA MapConstants ==
    /\ RamPages \subseteq {n \in Nat : n >= 4 /\ n % 4 = 0}
    /\ RomSelects \subseteq 0 .. 255 /\ GaBytes \subseteq 0 .. 255
    /\ Groups \subseteq Nat /\ Highs \subseteq Nat
    /\ Ports \subseteq (0 .. 255) \X (0 .. 255)
    /\ UNION RomSlots \subseteq 0 .. 255 /\ PageSize \in Nat
    /\ Cartridges \subseteq [riff : Nat, bytes : Nat,
                             chunks : Seq([page : Nat \cup {-1}, size : Nat])]
BY MapAssumption, SMTT(30) DEF Banks!MemoryAssumption, Banks!Byte

(* A byte's fields *)
LEMMA ByteParts ==
    ASSUME NEW v \in 0 .. 255
    PROVE  /\ v % 8 \in 0 .. 7 /\ (v \div 8) % 8 \in 0 .. 7 /\ (v \div 8) % 4 \in 0 .. 3
           /\ v % 32 \in 0 .. 31
OBVIOUS

(* A byte names a configuration, fitted or not. *)
LEMMA BankAskedType ==
    ASSUME NEW hi \in Int, NEW v \in 0 .. 255
    PROVE  Banks!BankAsked(hi, v) \in BankRec
<1>1. (IF hi \in 124 .. 127 THEN 127 - hi ELSE 0) \in 0 .. 3  OBVIOUS
<1>. QED  BY <1>1, ByteParts DEF Banks!BankAsked, BankRec

(* A block that is fitted is all behind it; so is the first, which is what *)

(* a byte that names no fitted block gets.                                 *)
LEMMA FittedFits ==
    ASSUME NEW b \in BankRec, NEW n \in Nat, n >= 4, Banks!Fitted(b, n),
           NEW q \in Banks!Quarters
    PROVE  Banks!mem_ram_offset_for_config(b, q) < n
<1>1. /\ b.high \in 0 .. 3 /\ b.group \in 0 .. 7 /\ b.mode \in 0 .. 7 /\ q \in 0 .. 3
      /\ (b.high * 8 + b.group + 2) * 4 <= n
  BY DEF BankRec, Banks!Fitted, Banks!Quarters
<1>2. PICK extra \in Nat : extra = (b.high * 8 + b.group + 1) * 4 /\ extra + 4 <= n /\ 4 <= extra
  BY <1>1
<1>3. /\ q = 0 \/ q = 1 \/ q = 2 \/ q = 3  BY <1>1
<1>4. b.mode - 4 \in -4 .. 3  BY <1>1
<1>. QED  BY <1>1, <1>2, <1>3, <1>4 DEF Banks!mem_ram_offset_for_config

(* The first block, when there is one; without one, mode 0. *)
LEMMA ModeFits ==
    ASSUME NEW b \in BankRec, b.high = 0, b.group = 0, NEW n \in Nat, n >= 4,
           n >= 8 \/ b.mode = 0, NEW q \in Banks!Quarters
    PROVE  Banks!mem_ram_offset_for_config(b, q) < n
<1>1. b.mode \in 0 .. 7 /\ q \in 0 .. 3  BY DEF BankRec, Banks!Quarters
<1>2. q = 0 \/ q = 1 \/ q = 2 \/ q = 3  BY <1>1
<1>3. (b.high * 8 + b.group + 1) * 4 = 4  OBVIOUS
<1>. QED  BY <1>1, <1>2, <1>3 DEF Banks!mem_ram_offset_for_config

(* The Gate Array's choice *)
LEMMA BankChosen ==
    ASSUME NEW x, Map(x), NEW hi \in Int, NEW v \in 0 .. 255, NEW b,
           b = Banks!gate_array_bank(x, hi, v)
    PROVE  /\ b \in BankRec
           /\ b # x.bank => \A q \in Banks!Quarters : Banks!mem_ram_offset_for_config(b, q) < x.ramPages
<1>1. x.ramPages \in Nat /\ x.ramPages >= 4 /\ x.ramPages % 4 = 0 /\ x.bank \in BankRec
  BY DEF Map, Sized
<1>2. CASE x.ramPages <= 4  BY <1>1, <1>2 DEF Banks!gate_array_bank
<1>3. CASE x.ramPages > 4
  <2>1. x.ramPages >= 8  BY <1>1, <1>3
  <2>2. PICK a \in BankRec : a = Banks!BankAsked(hi, v)  BY BankAskedType
  <2>3. CASE Banks!Fitted(a, x.ramPages)
    <3>1. b = a  BY <1>1, <1>3, <2>2, <2>3 DEF Banks!gate_array_bank
    <3>. QED  BY <1>1, <2>2, <2>3, <3>1, FittedFits
  <2>4. CASE ~Banks!Fitted(a, x.ramPages)
    <3>1. b = [Banks!Bank0 EXCEPT !.mode = a.mode]
      BY <1>1, <1>3, <2>2, <2>4 DEF Banks!gate_array_bank
    <3>2. b = [high |-> 0, group |-> 0, mode |-> a.mode]  BY <3>1 DEF Banks!Bank0
    <3>3. b \in BankRec /\ b.high = 0 /\ b.group = 0  BY <3>2, <2>2 DEF BankRec
    <3>. QED  BY <1>1, <2>1, <3>3, ModeFits
  <2>. QED  BY <2>3, <2>4
<1>. QED  BY <1>1, <1>2, <1>3
-----------------------------------------------------------------------------
(* What each operation makes of a map *)

(* a change of one field is a map again *)
LEMMA MapUpdates ==
    ASSUME NEW x, Map(x)
    PROVE  /\ \A on \in BOOLEAN :
                 /\ Map([x EXCEPT !.lower = on]) /\ Map([x EXCEPT !.upper = on])
                 /\ Map([x EXCEPT !.override = on])
           /\ \A b \in BankRec : Map([x EXCEPT !.bank = b])
           /\ \A n \in RamPages : Map([x EXCEPT !.ramPages = n])
           /\ \A s \in Nat : Map([x EXCEPT !.select = s])
<1>1. \A on \in BOOLEAN : Map([x EXCEPT !.lower = on])  BY DEF Map, Sized, MapFields, Keeps
<1>2. \A on \in BOOLEAN : Map([x EXCEPT !.upper = on])  BY DEF Map, Sized, MapFields, Keeps
<1>3. \A on \in BOOLEAN : Map([x EXCEPT !.override = on])  BY DEF Map, Sized, MapFields, Keeps
<1>4. \A b \in BankRec : Map([x EXCEPT !.bank = b])  BY DEF Map, Sized, MapFields, Keeps
<1>5. \A n \in RamPages : Map([x EXCEPT !.ramPages = n])
  <2>. SUFFICES ASSUME NEW n \in RamPages PROVE Map([x EXCEPT !.ramPages = n])  OBVIOUS
  <2>1. n \in Nat /\ n >= 4 /\ n % 4 = 0  BY MapConstants
  <2>. QED  BY <2>1 DEF Map, Sized, MapFields, Keeps
<1>6. \A s \in Nat : Map([x EXCEPT !.select = s])  BY DEF Map, Sized, MapFields, Keeps
<1>. QED  BY <1>1, <1>2, <1>3, <1>4, <1>5, <1>6

(* A change of what is in the ROM slots is a map again. *)
LEMMA RomUpdates ==
    ASSUME NEW x, Map(x), NEW e, NEW y,
           y = [x EXCEPT !.ext = e] \/ y = [x EXCEPT !.amsdos = e] \/ y = [x EXCEPT !.os = e]
    PROVE  Map(y)
BY DEF Map, Sized, MapFields, Keeps

(* The same ROMs and RAM behind another mapping. *)
Same(x, y) == \A f \in Keeps : x[f] = y[f]

(* mem_plus_reset_mapping: no cartridge page or register page is mapped. *)
LEMMA PlusReset ==
    ASSUME NEW x, Map(x), NEW y, y = Banks!mem_plus_reset_mapping(x)
    PROVE  /\ Map(y) /\ Same(y, x) /\ y.lower = x.lower /\ y.upper = x.upper /\ y.bank = x.bank
           /\ y.registerPage = FALSE /\ y.lowerBank = 0 /\ y.lowerPage = 0
<1>1. y = [x EXCEPT !.lowerBank = 0, !.lowerPage = 0, !.registerPage = FALSE,
                    !.select = IF x.plus THEN 1 ELSE 0]
  BY DEF Banks!mem_plus_reset_mapping
<1>2. PICK s \in Nat : s = IF x.plus THEN 1 ELSE 0  OBVIOUS
<1>3. PICK z : z = [x EXCEPT !.registerPage = FALSE, !.select = s]  OBVIOUS
<1>4. /\ Map(z) /\ Same(z, x) /\ z.lower = x.lower /\ z.upper = x.upper /\ z.bank = x.bank
      /\ z.registerPage = FALSE
  BY <1>3 DEF Map, Sized, Same, MapFields, Keeps
<1>5. y = [z EXCEPT !.lowerBank = 0, !.lowerPage = 0]
  BY <1>1, <1>2, <1>3 DEF Map, MapFields, Keeps
<1>6. /\ Same(y, z) /\ y.lower = z.lower /\ y.upper = z.upper /\ y.bank = z.bank
      /\ y.registerPage = FALSE /\ y.lowerBank = 0 /\ y.lowerPage = 0 /\ y.select = z.select
      /\ y = [f \in MapFields |-> y[f]]
  BY <1>4, <1>5 DEF Map, Same, MapFields, Keeps
<1>7. /\ y.ramPages = z.ramPages /\ y.plus = z.plus /\ y.override = z.override
      /\ y.snapshotLower = z.snapshotLower /\ y.cart = z.cart
  BY <1>6 DEF Same, Keeps
<1>8. Map(y)
  <2>1. Sized(y)  BY <1>4, <1>7 DEF Map, Sized
  <2>2. /\ y.plus \in BOOLEAN /\ y.override \in BOOLEAN /\ y.snapshotLower \in BOOLEAN
        /\ y.plus => 0 \in DOMAIN y.cart
    BY <1>4, <1>7 DEF Map
  <2>3. /\ y.lower \in BOOLEAN /\ y.upper \in BOOLEAN /\ y.registerPage \in BOOLEAN
        /\ y.select \in Nat /\ y.bank \in BankRec
    BY <1>4, <1>6 DEF Map
  <2>. QED  BY <1>6, <2>1, <2>2, <2>3 DEF Map
<1>. QED  BY <1>4, <1>6, <1>8 DEF Same

(* cpc_reset: a fresh map, with the RAM and the ROMs there were. *)
LEMMA ResetMap ==
    ASSUME NEW x, Map(x), NEW y, y = Banks!cpc_reset(x)
    PROVE  Map(y) /\ Same(y, x) /\ Fresh(y) /\ Fits(y) /\ y.upper = TRUE
<1> DEFINE z == [x EXCEPT !.lower = TRUE, !.upper = TRUE, !.bank = Banks!Bank0]
<1>1. Banks!Bank0 \in BankRec  BY DEF Banks!Bank0, BankRec
<1>2. /\ Map(z) /\ Same(z, x) /\ z.lower = TRUE /\ z.upper = TRUE /\ z.bank = Banks!Bank0
  BY <1>1 DEF Map, Sized, Same, MapFields, Keeps
<1>3. y = Banks!mem_plus_reset_mapping(z)  BY DEF Banks!cpc_reset
<1>. HIDE DEF z
<1>4. /\ Map(y) /\ Same(y, z) /\ y.lower = z.lower /\ y.upper = z.upper /\ y.bank = z.bank
      /\ y.registerPage = FALSE /\ y.lowerBank = 0 /\ y.lowerPage = 0
  BY <1>2, <1>3, PlusReset
<1>5. Same(y, x)  BY <1>2, <1>4 DEF Same
<1>6. y.ramPages \in Nat /\ y.ramPages >= 4  BY <1>4 DEF Map, Sized
<1>7. Fits(y)
  BY <1>1, <1>2, <1>4, <1>6, ModeFits DEF Fits, Banks!Bank0
<1>. QED  BY <1>2, <1>4, <1>5, <1>7 DEF Fresh

(* RMR2 and the latch of the upper ROM *)
LEMMA Rmr2Map ==
    ASSUME NEW x, Map(x), NEW v \in 0 .. 255, NEW y, y = Banks!mem_plus_set_rmr2(x, v)
    PROVE  /\ Map(y) /\ Same(y, x) /\ y.lower = x.lower /\ y.upper = x.upper /\ y.bank = x.bank
<1>1. CASE ~x.plus  BY <1>1 DEF Banks!mem_plus_set_rmr2, Same
<1>2. CASE x.plus
  <2>1. PICK bank \in 0 .. 3 : bank = (v \div 8) % 4  BY ByteParts
  <2>2. PICK page \in 0 .. 7 : page = v % 8  BY ByteParts
  <2>3. PICK low \in 0 .. 2 : low = (IF bank = 3 THEN 0 ELSE bank) /\ (bank = 3 => low = 0)
    OBVIOUS
  <2>4. PICK on \in BOOLEAN : on = (bank = 3)  OBVIOUS
  <2>5. y = [x EXCEPT !.registerPage = on, !.lowerBank = low, !.lowerPage = page]
    BY <1>2, <2>1, <2>2, <2>3, <2>4 DEF Banks!mem_plus_set_rmr2
  <2>6. on => low = 0  BY <2>3, <2>4
  <2>7. PICK z : z = [x EXCEPT !.registerPage = on, !.lowerBank = low]  OBVIOUS
  <2>8. /\ Map(z) /\ Same(z, x) /\ z.lower = x.lower /\ z.upper = x.upper /\ z.bank = x.bank
    BY <2>6, <2>7 DEF Map, Sized, Same, MapFields, Keeps
  <2>9. y = [z EXCEPT !.lowerPage = page]  BY <2>5, <2>7 DEF Map, MapFields, Keeps
  <2>10. /\ Map(y) /\ Same(y, z) /\ y.lower = z.lower /\ y.upper = z.upper /\ y.bank = z.bank
    BY <2>8, <2>9, SMTT(30) DEF Map, Sized, Same, MapFields, Keeps
  <2>. QED  BY <2>8, <2>10 DEF Same
<1>3. x.plus \in BOOLEAN  BY DEF Map
<1>. QED  BY <1>1, <1>2, <1>3

(* The latch of the upper ROM *)
LEMMA SelectMap ==
    ASSUME NEW x, Map(x), NEW v \in 0 .. 255, NEW y, y = Banks!mem_plus_select_upper_rom(x, v)
    PROVE  /\ Map(y) /\ Same(y, x) /\ y.lower = x.lower /\ y.upper = x.upper /\ y.bank = x.bank
<1>1. PICK s \in Nat : y = [x EXCEPT !.select = s]
  <2>1. v % 32 \in Nat  BY ByteParts
  <2>. QED  BY <2>1 DEF Banks!mem_plus_select_upper_rom
<1>2. Map(y)  BY <1>1, MapUpdates
<1>3. x = [f \in MapFields |-> x[f]]  BY DEF Map
<1>. QED  BY <1>1, <1>2, <1>3 DEF Same, MapFields, Keeps

(* A byte at the Gate Array leaves it a Gate Array. *)
LEMMA GaWrite ==
    ASSUME NEW g \in Gates, NEW v \in 0 .. 255
    PROVE  Banks!ga_write(g, v) \in Gates
<1>1. Banks!Bit(v, 4) \in BOOLEAN /\ Banks!Bit(v, 8) \in BOOLEAN  BY DEF Banks!Bit
<1>. QED  BY <1>1 DEF Banks!ga_write, Gates

(* A byte at the Gate Array: the map follows its ROM bits, and a bank it   *)

(* chooses is fitted.                                                      *)
LEMMA GateMap ==
    ASSUME NEW x, Map(x), gate \in Gates, Agree(x, gate),
           NEW hi \in Int, NEW v \in 0 .. 255, NEW y, y = Banks!gate_array_bus_write(x, hi, v),
           NEW g, g = IF Banks!Rmr2(v) THEN gate ELSE Banks!ga_write(gate, v)
    PROVE  /\ Map(y) /\ Same(y, x) /\ g \in Gates /\ Agree(y, g)
           /\ y.bank # x.bank => Fits(y)
<1>1. CASE Banks!Rmr2(v)
  <2>1. y = Banks!mem_plus_set_rmr2(x, v)  BY <1>1 DEF Banks!gate_array_bus_write
  <2>. QED  BY <1>1, <2>1, Rmr2Map, ZenonT(30) DEF Agree
<1>2. CASE ~Banks!Rmr2(v)
  <2>1. PICK b : b = (IF v \div 64 = 3 THEN Banks!gate_array_bank(x, hi, v) ELSE x.bank)
    OBVIOUS
  <2>2. /\ b \in BankRec
        /\ b # x.bank => \A q \in Banks!Quarters : Banks!mem_ram_offset_for_config(b, q) < x.ramPages
    BY <2>1, BankChosen DEF Map
  <2>3. g \in Gates  BY <1>2, GaWrite
  <2>4. y = [x EXCEPT !.lower = g.lower, !.upper = g.upper, !.bank = b]
    BY <1>2, <2>1 DEF Banks!gate_array_bus_write
  <2>5. g.lower \in BOOLEAN /\ g.upper \in BOOLEAN  BY <2>3 DEF Gates
  <2>6. /\ Map(y) /\ Same(y, x) /\ y.lower = g.lower /\ y.upper = g.upper /\ y.bank = b
        /\ y.ramPages = x.ramPages
    BY <2>2, <2>4, <2>5 DEF Map, Sized, Same, MapFields, Keeps
  <2>. QED  BY <2>2, <2>3, <2>6 DEF Fits, Agree
<1>. QED  BY <1>1, <1>2

(* ROMs *)
LEMMA LoadedRom ==
    ASSUME NEW x, Map(x), NEW model, NEW files, NEW y, y = Banks!mem_load_rom(x, model, files)
    PROVE  Map(y) /\ (files = {"os", "basic"} => ~y.plus /\ y.os = model)
<1>0. x = [f \in MapFields |-> x[f]]  BY DEF Map
<1>1. CASE files = {}
  <2>1. files # {"os", "basic"}  BY <1>1
  <2>. QED  BY <1>1, <2>1 DEF Banks!mem_load_rom
<1>2. CASE files = {"os"}
  <2>1. files # {"os", "basic"} /\ files # {}  BY <1>2
  <2>2. y = [x EXCEPT !.os = model]  BY <1>2, <2>1 DEF Banks!mem_load_rom
  <2>. QED  BY <2>1, <2>2, RomUpdates
<1>3. CASE files # {} /\ files # {"os"}
  <2>1. PICK z : z = [x EXCEPT !.os = model, !.plus = FALSE]  OBVIOUS
  <2>2. Map(z) /\ z.plus = FALSE /\ z.os = model
    BY <2>1 DEF Map, Sized, MapFields, Keeps
  <2>3. y = Banks!mem_plus_reset_mapping(z)  BY <1>3, <2>1 DEF Banks!mem_load_rom
  <2>4. Map(y) /\ Same(y, z)  BY <2>2, <2>3, PlusReset
  <2>. QED  BY <2>2, <2>4 DEF Same, Keeps
<1>. QED  BY <1>1, <1>2, <1>3

(* mem_load_cartridge: a rejected file leaves the map; an accepted one has page 0. *)
LEMMA LoadedCartridge ==
    ASSUME NEW x, Map(x), NEW file, NEW y, y = Banks!mem_load_cartridge(x, file)
    PROVE  Map(y)
<1>0. x = [f \in MapFields |-> x[f]]  BY DEF Map
<1>1. PICK c : c = Banks!cartridge_load_file(file)  OBVIOUS
<1>2. CASE ~c.ok \/ 0 \notin DOMAIN c.pages
  BY <1>1, <1>2 DEF Banks!mem_load_cartridge
<1>3. CASE ~(~c.ok \/ 0 \notin DOMAIN c.pages)
  <2>1. PICK pages : pages = c.pages /\ 0 \in DOMAIN pages  BY <1>3
  <2>2. PICK z : z = [x EXCEPT !.cart = pages, !.plus = TRUE]  OBVIOUS
  <2>3. Map(z)  BY <2>1, <2>2 DEF Map, Sized, MapFields, Keeps
  <2>4. PICK a : a = (3 \in DOMAIN c.pages)  OBVIOUS
  <2>5. Map([[z EXCEPT !.os = "cart"] EXCEPT !.amsdos = a])
    <3>1. Map([z EXCEPT !.os = "cart"])  BY <2>3, RomUpdates
    <3>. QED  BY <3>1, RomUpdates
  <2>6. [[z EXCEPT !.os = "cart"] EXCEPT !.amsdos = a]
          = [x EXCEPT !.cart = pages, !.plus = TRUE, !.os = "cart", !.amsdos = a]
    BY <1>0, <2>2 DEF MapFields, Keeps
  <2>7. y = Banks!mem_plus_reset_mapping([[z EXCEPT !.os = "cart"] EXCEPT !.amsdos = a])
    BY <1>1, <1>3, <2>1, <2>4, <2>6 DEF Banks!mem_load_cartridge
  <2>. QED  BY <2>5, <2>7, PlusReset
<1>. QED  BY <1>2, <1>3

(* The slots of the upper ROMs leave the rest of the map. *)
LEMMA SlotsMap ==
    ASSUME NEW x, Map(x), NEW model, NEW slots, NEW a, NEW y, y = Banks!LoadSlots(model, x, slots, a)
    PROVE  Map(y) /\ y.plus = x.plus /\ y.os = x.os
<1>1. PICK b, e : y = [x EXCEPT !.amsdos = b, !.ext = e]  BY DEF Banks!LoadSlots
<1>2. x = [f \in MapFields |-> x[f]]  BY DEF Map
<1>3. y = [[x EXCEPT !.amsdos = b] EXCEPT !.ext = e] /\ y.plus = x.plus /\ y.os = x.os
  BY <1>1, <1>2 DEF MapFields, Keeps
<1>4. Map([x EXCEPT !.amsdos = b])  BY RomUpdates
<1>. QED  BY <1>3, <1>4, RomUpdates

(* mem_init: a fresh map of the model *)
LEMMA InitialMap ==
    ASSUME NEW model, NEW n \in RamPages, NEW y, y = Banks!mem_init(model, n)
    PROVE  Map(y) /\ Fresh(y) /\ Fits(y) /\ y.upper = TRUE /\ ~y.plus /\ y.os = model
<1>1. PICK x : x = [ramPages |-> n, lower |-> TRUE, upper |-> TRUE, select |-> 0,
                    bank |-> Banks!Bank0, plus |-> FALSE, lowerBank |-> 0, lowerPage |-> 0,
                    registerPage |-> FALSE, override |-> FALSE, snapshotLower |-> FALSE,
                    snapshotUpper |-> {}, os |-> model, amsdos |-> FALSE, ext |-> {},
                    cart |-> [p \in {} |-> 0]]
  OBVIOUS
<1>2. x = [f \in MapFields |-> x[f]]  BY <1>1 DEF MapFields, Keeps
<1>3. n \in Nat /\ n >= 4 /\ n % 4 = 0  BY MapConstants
<1>4. Banks!Bank0 \in BankRec  BY DEF Banks!Bank0, BankRec
<1>5. /\ x.ramPages = n /\ x.lower = TRUE /\ x.upper = TRUE /\ x.select = 0 /\ x.plus = FALSE
      /\ x.bank = Banks!Bank0 /\ x.lowerBank = 0 /\ x.lowerPage = 0 /\ x.registerPage = FALSE
      /\ x.override = FALSE /\ x.snapshotLower = FALSE /\ x.os = model
  BY <1>1
<1>50. Map(x)
  <2>1. Sized(x)  BY <1>3, <1>5 DEF Sized
  <2>2. x.plus => 0 \in DOMAIN x.cart  BY <1>5
  <2>3. /\ x.select \in Nat /\ x.bank \in BankRec /\ x.lowerBank \in 0 .. 2 /\ x.lowerPage \in Nat
        /\ x.registerPage => x.lowerBank = 0
    BY <1>4, <1>5
  <2>4. /\ x.plus \in BOOLEAN /\ x.override \in BOOLEAN /\ x.snapshotLower \in BOOLEAN
        /\ x.lower \in BOOLEAN /\ x.upper \in BOOLEAN /\ x.registerPage \in BOOLEAN
    BY <1>5
  <2>. QED  BY <1>2, <2>1, <2>2, <2>3, <2>4 DEF Map
<1>6. y = Banks!cpc_reset(x)  BY <1>1 DEF Banks!mem_init
<1>7. Map(y) /\ Same(y, x) /\ Fresh(y) /\ Fits(y) /\ y.upper = TRUE  BY <1>50, <1>6, ResetMap
<1>. QED  BY <1>5, <1>7 DEF Same, Keeps

-----------------------------------------------------------------------------
(* The steps *)

(* A step is recorded. *)
LEMMA PastRan ==
    ASSUME past \in Pasts, NEW b \in BOOLEAN, Banks!Ran(b)
    PROVE  /\ past' \in Pasts /\ past'.model = past.model /\ past'.failed = past.failed
           /\ past'.beyond = b /\ past'.fresh = FALSE
<1>1. PICK p : p = [past EXCEPT !.fresh = FALSE, !.beyond = b]  OBVIOUS
<1>2. p \in Pasts /\ p.model = past.model /\ p.failed = past.failed /\ p.beyond = b /\ p.fresh = FALSE
  BY <1>1 DEF Pasts
<1>3. past' = [p EXCEPT !.steps = @ + 1]  BY <1>1 DEF Banks!Ran, Banks!Step
<1>4. p.steps + 1 \in Nat  BY <1>2 DEF Pasts
<1>. QED  BY <1>2, <1>3, <1>4 DEF Pasts

(* A step that keeps ROMs and RAM, the gates with the map, and a bank that *)

(* fits if a new one is chosen, keeps the invariant.                       *)
LEMMA RanStep ==
    ASSUME MapInv, NEW b \in BOOLEAN, Banks!Ran(b), Map(map'), gate' \in Gates,
           Agree(map', gate'), map'.plus = map.plus, map'.os = map.os, ~b => Fits(map')
    PROVE  MapInv'
<1>1. /\ past' \in Pasts /\ past'.model = past.model /\ past'.failed = past.failed
      /\ past'.beyond = b /\ past'.fresh = FALSE
  BY PastRan DEF MapInv
<1>2. ~past'.failed => OfModel(map', past'.model)  BY <1>1 DEF MapInv, OfModel
<1>. QED  BY <1>1, <1>2 DEF MapInv

(* A port is two bytes. *)
LEMMA Ports8 ==
    ASSUME NEW p \in Ports
    PROVE  p[1] \in 0 .. 255 /\ p[2] \in 0 .. 255
BY MapConstants

(* A port write *)
LEMMA OutStep ==
    ASSUME MapInv, NEW p \in Ports, NEW v \in 0 .. 255, Banks!Out(p, v)
    PROVE  MapInv'
<1> DEFINE on == Banks!Boards(p)
           x == IF "ga" \in on THEN Banks!gate_array_bus_write(map, p[1], v) ELSE map
           g == IF "ga" \in on /\ ~Banks!Rmr2(v) THEN Banks!ga_write(gate, v) ELSE gate
<1>1. /\ Map(map) /\ gate \in Gates /\ past \in Pasts /\ Agree(map, gate) /\ p[1] \in Int
  BY Ports8 DEF MapInv
<1>2. /\ map' = IF "rom" \in on THEN Banks!mem_plus_select_upper_rom(x, v) ELSE x
      /\ gate' = g /\ Banks!Ran(past.beyond /\ map'.bank = map.bank)
  BY DEF Banks!Out
<1>3. /\ Map(x) /\ Same(x, map) /\ g \in Gates /\ Agree(x, g)
      /\ x.bank # map.bank => Fits(x)
  <2>1. CASE "ga" \in on
    <3>1. x = Banks!gate_array_bus_write(map, p[1], v)  BY <2>1
    <3>2. g = IF Banks!Rmr2(v) THEN gate ELSE Banks!ga_write(gate, v)  BY <2>1
    <3>. HIDE DEF x, g
    <3>. QED  BY <1>1, <3>1, <3>2, GateMap
  <2>2. CASE "ga" \notin on  BY <1>1, <2>2 DEF Same
  <2>. QED  BY <2>1, <2>2
<1>. HIDE DEF x, g
<1>4. /\ Map(map') /\ Same(map', x) /\ map'.lower = x.lower /\ map'.upper = x.upper
      /\ map'.bank = x.bank
  <2>1. CASE "rom" \in on  BY <1>2, <1>3, <2>1, SelectMap, ZenonT(30)
  <2>2. CASE "rom" \notin on  BY <1>2, <1>3, <2>2 DEF Same
  <2>. QED  BY <2>1, <2>2
<1>5. map'.ramPages = map.ramPages /\ map'.ramPages = x.ramPages /\ map'.plus = map.plus /\ map'.os = map.os
  BY <1>3, <1>4 DEF Same, Keeps
<1>6. ASSUME ~(past.beyond /\ map'.bank = map.bank) PROVE Fits(map')
  <2>1. CASE map'.bank = map.bank
    <3>1. Fits(map)  BY <1>6, <2>1, <1>1 DEF MapInv, Pasts
    <3>. QED  BY <2>1, <3>1, <1>5 DEF Fits
  <2>2. CASE map'.bank # map.bank
    <3>1. Fits(x)  BY <2>2, <1>3, <1>4
    <3>. QED  BY <3>1, <1>4, <1>5 DEF Fits
  <2>. QED  BY <2>1, <2>2
<1>7. (past.beyond /\ map'.bank = map.bank) \in BOOLEAN  OBVIOUS
<1>8. Agree(map', gate')  BY <1>2, <1>3, <1>4 DEF Agree
<1>. QED  BY <1>2, <1>3, <1>4, <1>5, <1>6, <1>7, <1>8, RanStep

(* An input that leaves a byte on the Gate Array's bus *)
LEMMA InStep ==
    ASSUME MapInv, NEW p \in Ports, NEW v \in 0 .. 255, Banks!In(p, v)
    PROVE  MapInv'
<1>1. /\ Map(map) /\ gate \in Gates /\ past \in Pasts /\ Agree(map, gate) /\ p[1] \in Int
  BY Ports8 DEF MapInv
<1>2. /\ map' = Banks!gate_array_bus_write(map, p[1], v)
      /\ gate' = IF Banks!Rmr2(v) THEN gate ELSE Banks!ga_write(gate, v)
      /\ Banks!Ran(past.beyond /\ map'.bank = map.bank)
  BY DEF Banks!In
<1>3. /\ Map(map') /\ Same(map', map) /\ gate' \in Gates /\ Agree(map', gate')
      /\ map'.bank # map.bank => Fits(map')
  BY <1>1, <1>2, GateMap
<1>4. map'.ramPages = map.ramPages /\ map'.plus = map.plus /\ map'.os = map.os
  BY <1>3 DEF Same, Keeps
<1>5. ASSUME ~(past.beyond /\ map'.bank = map.bank), map'.bank = map.bank PROVE Fits(map')
  <2>1. Fits(map)  BY <1>5, <1>1 DEF MapInv, Pasts
  <2>. QED  BY <1>5, <2>1, <1>4 DEF Fits
<1>6. (past.beyond /\ map'.bank = map.bank) \in BOOLEAN  OBVIOUS
<1>. QED  BY <1>2, <1>3, <1>4, <1>5, <1>6, RanStep

(* The ASIC's lock touches no map. *)
LEMMA LockStep ==
    ASSUME MapInv, Banks!plus_asic_lock_write
    PROVE  MapInv'
<1>1. /\ UNCHANGED map /\ gate' = [gate EXCEPT !.locked = ~@] /\ Banks!Ran(past.beyond)
      /\ Map(map) /\ gate \in Gates /\ past.beyond \in BOOLEAN
  BY DEF Banks!plus_asic_lock_write, MapInv, Pasts
<1>2. gate' \in Gates /\ gate'.lower = gate.lower /\ gate'.upper = gate.upper  BY <1>1 DEF Gates
<1>3. Agree(map', gate')  BY <1>1, <1>2 DEF Agree, MapInv
<1>4. Map(map') /\ (~past.beyond => Fits(map'))  BY <1>1 DEF MapInv
<1>. QED  BY <1>1, <1>2, <1>3, <1>4, RanStep

(* The M4's helper: a bank that is not fitted is recorded as such. *)
LEMMA HelperStep ==
    ASSUME MapInv, NEW v \in 0 .. 255, Banks!Helper(v)
    PROVE  MapInv'
<1> DEFINE b == IF v \div 64 = 3 THEN Banks!BankAsked(0, v) ELSE map.bank
           beyond == IF v \div 64 = 3 THEN ~Banks!Fitted(map'.bank, map.ramPages) ELSE past.beyond
<1>1. /\ Map(map) /\ gate \in Gates /\ UNCHANGED gate /\ past \in Pasts
      /\ map' = [map EXCEPT !.bank = b] /\ Banks!Ran(beyond)
  BY DEF Banks!Helper, MapInv
<1>2. beyond \in BOOLEAN  BY <1>1 DEF Pasts
<1>3. b \in BankRec  BY <1>1, BankAskedType DEF Map
<1>4. /\ Map(map') /\ map'.bank = b /\ map'.ramPages = map.ramPages /\ map'.plus = map.plus
      /\ map'.os = map.os /\ map'.lower = map.lower /\ map'.upper = map.upper
  <2>1. map = [f \in MapFields |-> map[f]]  BY <1>1 DEF Map
  <2>. HIDE DEF b
  <2>2. Map(map')  BY <1>1, <1>3, MapUpdates
  <2>. QED  BY <1>1, <2>1, <2>2 DEF MapFields, Keeps
<1>5. ~beyond => Fits(map')
  <2>1. CASE v \div 64 = 3
    <3>1. map'.ramPages \in Nat /\ map'.ramPages >= 4  BY <1>4 DEF Map, Sized
    <3>. QED  BY <2>1, <3>1, <1>3, <1>4, FittedFits DEF Fits
  <2>2. CASE v \div 64 # 3  BY <2>2, <1>4 DEF MapInv, Fits
  <2>. QED  BY <2>1, <2>2
<1>6. Agree(map', gate')  BY <1>1, <1>4 DEF Agree, MapInv
<1>. HIDE DEF beyond, b
<1>. QED  BY <1>1, <1>2, <1>4, <1>5, <1>6, RanStep

(* The M4's stub touches no bank. *)
LEMMA RomLowStep ==
    ASSUME MapInv, NEW on \in BOOLEAN, Banks!RomLow(on)
    PROVE  MapInv'
<1>1. /\ Map(map) /\ gate \in Gates /\ UNCHANGED gate /\ past \in Pasts
      /\ map' = [map EXCEPT !.override = on] /\ Banks!Ran(past.beyond)
  BY DEF Banks!RomLow, MapInv
<1>2. /\ Map(map') /\ map'.bank = map.bank /\ map'.ramPages = map.ramPages /\ map'.plus = map.plus
      /\ map'.os = map.os /\ map'.lower = map.lower /\ map'.upper = map.upper
  <2>1. map = [f \in MapFields |-> map[f]]  BY <1>1 DEF Map
  <2>2. Map(map')  BY <1>1, MapUpdates
  <2>. QED  BY <1>1, <2>1, <2>2 DEF MapFields, Keeps
<1>3. past.beyond \in BOOLEAN  BY <1>1 DEF Pasts
<1>4. ~past.beyond => Fits(map')  BY <1>2 DEF MapInv, Fits
<1>5. Agree(map', gate')  BY <1>1, <1>2 DEF Agree, MapInv
<1>. QED  BY <1>1, <1>2, <1>3, <1>4, <1>5, RanStep

(* A snapshot brings its RAM, its ROM bits and its bank. *)
LEMMA SnapshotStep ==
    ASSUME MapInv, NEW n \in RamPages, NEW l \in BOOLEAN, NEW u \in BOOLEAN, NEW r \in BOOLEAN,
           NEW v \in 0 .. 255, Banks!snapshot_load(n, l, u, v, r)
    PROVE  MapInv'
<1> DEFINE b == Banks!BankAsked(0, v)
           beyond == v # 192 /\ ~Banks!Fitted(map'.bank, n)
<1>1. /\ Map(map) /\ gate \in Gates /\ past \in Pasts
      /\ map' = [map EXCEPT !.ramPages = n, !.lower = l, !.upper = u, !.bank = b, !.select = 0,
                            !.snapshotLower = r, !.snapshotUpper = IF r THEN {0} ELSE {}]
      /\ gate' = [gate EXCEPT !.lower = l, !.upper = u] /\ Banks!Ran(beyond)
  BY DEF Banks!snapshot_load, MapInv
<1>2. b \in BankRec  BY BankAskedType
<1>3. v = 192 => b = Banks!Bank0  BY DEF Banks!BankAsked, Banks!Bank0
<1>4. n \in Nat /\ n >= 4 /\ n % 4 = 0  BY MapConstants
<1>. HIDE DEF b
<1>5. /\ Map(map') /\ map'.bank = b /\ map'.ramPages = n /\ map'.plus = map.plus
      /\ map'.os = map.os /\ map'.lower = l /\ map'.upper = u
  <2>1. PICK e : e = (IF r THEN {0} ELSE {})  OBVIOUS
  <2>2. PICK x : x = [map EXCEPT !.ramPages = n, !.lower = l, !.upper = u]  OBVIOUS
  <2>3. /\ Map(x) /\ x.ramPages = n /\ x.plus = map.plus /\ x.os = map.os /\ x.lower = l /\ x.upper = u
    BY <1>1, <1>4, <2>2 DEF Map, Sized, MapFields, Keeps
  <2>4. PICK y : y = [x EXCEPT !.bank = b, !.select = 0]  OBVIOUS
  <2>5. /\ Map(y) /\ y.ramPages = n /\ y.plus = map.plus /\ y.os = map.os /\ y.lower = l /\ y.upper = u
        /\ y.bank = b
    BY <1>2, <2>3, <2>4 DEF Map, Sized, MapFields, Keeps
  <2>6. map' = [y EXCEPT !.snapshotLower = r, !.snapshotUpper = e]
    BY <1>1, <2>1, <2>2, <2>4 DEF Map, MapFields, Keeps
  <2>. QED  BY <2>5, <2>6 DEF Map, Sized, MapFields, Keeps
<1>6. gate' \in Gates /\ gate'.lower = l /\ gate'.upper = u  BY <1>1 DEF Gates
<1>7. ~beyond => Fits(map')
  <2>1. CASE v = 192
    <3>1. b.high = 0 /\ b.group = 0 /\ b.mode = 0  BY <2>1, <1>3 DEF Banks!Bank0
    <3>. QED  BY <3>1, <1>2, <1>4, <1>5, ModeFits DEF Fits
  <2>2. CASE v # 192  BY <2>2, <1>2, <1>4, <1>5, FittedFits DEF Fits
  <2>. QED  BY <2>1, <2>2
<1>8. Agree(map', gate')  BY <1>5, <1>6 DEF Agree
<1>9. beyond \in BOOLEAN  OBVIOUS
<1>. HIDE DEF beyond
<1>. QED  BY <1>1, <1>5, <1>6, <1>7, <1>8, <1>9, RanStep

(* The Gate Array at power on *)
LEMMA GaPowerOn ==
    /\ Banks!GaPower \in Gates /\ Banks!GaPower.locked
    /\ \A x : x.lower = TRUE /\ x.upper = TRUE => Agree(x, Banks!GaPower)
BY DEF Banks!GaPower, Gates, Agree

(* A reset *)
LEMMA ResetStep ==
    ASSUME MapInv, Banks!Reset
    PROVE  MapInv'
<1>1. /\ map' = Banks!cpc_reset(map) /\ gate' = Banks!GaPower /\ Map(map) /\ past \in Pasts
      /\ past' = [[past EXCEPT !.fresh = TRUE, !.beyond = FALSE] EXCEPT !.steps = @ + 1]
  BY DEF Banks!Reset, Banks!Step, MapInv
<1>2. Map(map') /\ Same(map', map) /\ Fresh(map') /\ Fits(map') /\ map'.upper = TRUE
  BY <1>1, ResetMap
<1>3. gate' \in Gates /\ gate'.locked /\ Agree(map', gate')  BY <1>1, <1>2, GaPowerOn DEF Fresh
<1>4. /\ past' \in Pasts /\ past'.model = past.model /\ past'.failed = past.failed
  <2>1. PICK p : p = [past EXCEPT !.fresh = TRUE, !.beyond = FALSE]  OBVIOUS
  <2>2. p \in Pasts /\ p.model = past.model /\ p.failed = past.failed  BY <1>1, <2>1 DEF Pasts
  <2>3. past' = [p EXCEPT !.steps = @ + 1] /\ p.steps + 1 \in Nat  BY <1>1, <2>1, <2>2 DEF Pasts
  <2>. QED  BY <2>2, <2>3 DEF Pasts
<1>5. map'.plus = map.plus /\ map'.os = map.os  BY <1>2 DEF Same, Keeps
<1>6. ~past'.failed => OfModel(map', past'.model)  BY <1>4, <1>5 DEF MapInv, OfModel
<1>. QED  BY <1>2, <1>3, <1>4, <1>6 DEF MapInv

(* A cold boot, from ROMs that were loaded or not *)
LEMMA BootStep ==
    ASSUME MapInv, NEW model \in Models \cup {Plus}, NEW loaded, Map(loaded), NEW slots, NEW a,
           NEW failed \in BOOLEAN, ~failed => OfModel(loaded, model),
           Banks!Boot(model, loaded, slots, a, failed)
    PROVE  MapInv'
<1>1. PICK x : x = Banks!LoadSlots(model, loaded, slots, a)  OBVIOUS
<1>2. /\ map' = Banks!cpc_reset(x) /\ gate' = Banks!GaPower /\ past \in Pasts
      /\ past' = [[past EXCEPT !.model = model, !.fresh = TRUE, !.beyond = FALSE, !.failed = failed]
                     EXCEPT !.steps = @ + 1]
  BY <1>1 DEF Banks!Boot, Banks!Step, MapInv
<1>3. Map(x) /\ x.plus = loaded.plus /\ x.os = loaded.os  BY <1>1, SlotsMap
<1>4. Map(map') /\ Same(map', x) /\ Fresh(map') /\ Fits(map') /\ map'.upper = TRUE
  BY <1>2, <1>3, ResetMap
<1>5. gate' \in Gates /\ gate'.locked /\ Agree(map', gate')  BY <1>2, <1>4, GaPowerOn DEF Fresh
<1>6. /\ past' \in Pasts /\ past'.model = model /\ past'.failed = failed
  <2>1. PICK p : p = [past EXCEPT !.model = model, !.fresh = TRUE]  OBVIOUS
  <2>2. p \in Pasts /\ p.model = model  BY <1>2, <2>1 DEF Pasts
  <2>3. PICK q : q = [p EXCEPT !.beyond = FALSE, !.failed = failed]  OBVIOUS
  <2>4. q \in Pasts /\ q.model = model /\ q.failed = failed  BY <2>2, <2>3 DEF Pasts
  <2>5. past' = [q EXCEPT !.steps = @ + 1] /\ q.steps + 1 \in Nat
    BY <1>2, <2>1, <2>3, <2>4 DEF Pasts
  <2>. QED  BY <2>4, <2>5 DEF Pasts
<1>7. map'.plus = loaded.plus /\ map'.os = loaded.os  BY <1>3, <1>4 DEF Same, Keeps
<1>8. ~past'.failed => OfModel(map', past'.model)  BY <1>6, <1>7 DEF OfModel
<1>. QED  BY <1>4, <1>5, <1>6, <1>8 DEF MapInv

(* A cold boot as a 464, 664 or 6128 *)
LEMMA ColdBootStep ==
    ASSUME MapInv, NEW model \in Models \ {Plus}, NEW n \in RamPages, NEW slots, NEW files, NEW a,
           Banks!ColdBoot(model, n, slots, files, a)
    PROVE  MapInv'
<1>1. PICK x : x = [map EXCEPT !.ramPages = n]  OBVIOUS
<1>2. Map(x)  BY <1>1, MapUpdates DEF MapInv
<1>3. PICK y : y = Banks!mem_load_rom(x, model, files)  OBVIOUS
<1>4. Map(y) /\ (files = {"os", "basic"} => ~y.plus /\ y.os = model)  BY <1>2, <1>3, LoadedRom
<1>5. PICK failed \in BOOLEAN : failed = (files # {"os", "basic"})  OBVIOUS
<1>6. Banks!Boot(model, y, slots, a, failed)  BY <1>1, <1>3, <1>5 DEF Banks!ColdBoot
<1>7. ~failed => OfModel(y, model)  BY <1>4, <1>5 DEF OfModel, Map
<1>. QED  BY <1>4, <1>6, <1>7, BootStep

(* A cold boot as a Plus: with a cartridge, or marked as failed *)
LEMMA ColdBootPlusStep ==
    ASSUME MapInv, NEW n \in RamPages, NEW slots, NEW file, Banks!ColdBootPlus(n, slots, file)
    PROVE  MapInv'
<1>1. PICK x : x = [map EXCEPT !.ramPages = n]  OBVIOUS
<1>2. Map(x)  BY <1>1, MapUpdates DEF MapInv
<1>3. PICK y : y = Banks!mem_load_cartridge(x, file)  OBVIOUS
<1>4. Map(y)  BY <1>2, <1>3, LoadedCartridge
<1>5. PICK failed \in BOOLEAN : failed = (~y.plus \/ y.cart = map.cart)  OBVIOUS
<1>6. Banks!Boot(Plus, y, slots, FALSE, failed)  BY <1>1, <1>3, <1>5 DEF Banks!ColdBootPlus, Plus
<1>7. ~failed => OfModel(y, Plus)  BY <1>4, <1>5 DEF OfModel, Map
<1>. QED  BY <1>4, <1>6, <1>7, BootStep

(* The invariant holds at first, *)
LEMMA MapInit == Banks!Init => MapInv
<1>. SUFFICES ASSUME Banks!Init PROVE MapInv  OBVIOUS
<1>1. PICK model \in {x \in Models : ~Banks!IsPlus(x)}, n \in RamPages, cards \in CardSets :
        /\ map = Banks!mem_init(model, n) /\ gate = Banks!GaPower
        /\ past = [model |-> model, cards |-> cards, steps |-> 0, failed |-> FALSE,
                   beyond |-> FALSE, fresh |-> TRUE]
  BY DEF Banks!Init
<1>2. Map(map) /\ Fresh(map) /\ Fits(map) /\ map.upper = TRUE /\ ~map.plus /\ map.os = model
  BY <1>1, InitialMap
<1>3. gate \in Gates /\ gate.locked /\ Agree(map, gate)  BY <1>1, <1>2, GaPowerOn DEF Fresh
<1>4. past \in Pasts /\ past.model = model  BY <1>1 DEF Pasts
<1>5. OfModel(map, past.model)  BY <1>1, <1>2, <1>4 DEF OfModel, Map, Banks!IsPlus, Plus
<1>. QED  BY <1>2, <1>3, <1>4, <1>5 DEF MapInv

(* and every step keeps it. *)
LEMMA MapStep == MapInv /\ Banks!Next => MapInv'
<1>. SUFFICES ASSUME MapInv, Banks!Next PROVE MapInv'  OBVIOUS
<1>1. GaBytes \subseteq 0 .. 255 /\ RomSelects \subseteq 0 .. 255  BY MapConstants
<1>2. CASE \E p \in Ports, v \in GaBytes \cup RomSelects : Banks!Out(p, v)  BY <1>1, <1>2, OutStep
<1>3. CASE \E p \in Ports, v \in GaBytes : Banks!In(p, v)  BY <1>1, <1>3, InStep
<1>4. CASE Banks!plus_asic_lock_write \/ Banks!Reset  BY <1>4, LockStep, ResetStep
<1>5. CASE \E v \in GaBytes : Banks!Helper(v)  BY <1>1, <1>5, HelperStep
<1>6. CASE \E on \in BOOLEAN : Banks!RomLow(on)  BY <1>6, RomLowStep
<1>7. CASE \E n \in RamPages, l, u, r \in BOOLEAN, v \in {x \in GaBytes : x \div 64 = 3} :
             Banks!snapshot_load(n, l, u, v, r)
  BY <1>1, <1>7, SnapshotStep
<1>8. CASE \E model \in Models \ {"6128plus"}, n \in RamPages, s \in RomSlots, a \in BOOLEAN,
              files \in {{}, {"os"}, {"os", "basic"}} : Banks!ColdBoot(model, n, s, files, a)
  BY <1>8, ColdBootStep DEF Plus
<1>9. CASE \E n \in RamPages, s \in RomSlots, f \in Cartridges : Banks!ColdBootPlus(n, s, f)
  BY <1>9, ColdBootPlusStep
<1>. QED  BY <1>2, <1>3, <1>4, <1>5, <1>6, <1>7, <1>8, <1>9 DEF Banks!Next
-----------------------------------------------------------------------------
(* What a read finds *)

RomKinds == {"os", "stub", "snapshot", "basic", "amsdos", "ext", "cart", "open"}

(* A ROM, and no RAM, is read where one is mapped. *)
LEMMA RomKind ==
    /\ Banks!UpperRom.kind \in RomKinds /\ Banks!LowerRom.kind \in RomKinds
    /\ \A p : Banks!cartridge_page(p).kind \in RomKinds
<1>1. \A p : Banks!cartridge_page(p).kind \in RomKinds
  BY DEF Banks!cartridge_page, Banks!Rom, RomKinds
<1>2. Banks!LowerRom.kind \in RomKinds  BY DEF Banks!LowerRom, Banks!Rom, RomKinds
<1>3. Banks!UpperRom.kind \in RomKinds
  BY <1>1 DEF Banks!UpperRom, Banks!Rom, RomKinds
<1>. QED  BY <1>1, <1>2, <1>3

(* A ROM is over quarter q. *)
RomOver(q) == \/ map.plus /\ map.lower /\ q = map.lowerBank
              \/ ~map.plus /\ map.lower /\ q = 0
              \/ map.upper /\ q = 3
RegistersOver(q) == map.plus /\ map.registerPage /\ q = 1

(* mem_read case by case: the registers, a ROM over the quarter, or what is behind it *)
LEMMA Read ==
    ASSUME Map(map), NEW q \in 0 .. 3
    PROVE  /\ RegistersOver(q) => Banks!mem_read(q) = Banks!Rom("registers", 0) /\ ~RomOver(q)
           /\ ~RegistersOver(q) /\ RomOver(q) => Banks!mem_read(q).kind \in RomKinds
           /\ ~RegistersOver(q) /\ ~RomOver(q) =>
                Banks!mem_read(q) = IF Banks!Page(q) < map.ramPages
                                    THEN Banks!Rom("ram", Banks!Page(q)) ELSE Banks!Rom("open", 0)
<1>0. /\ map.plus \in BOOLEAN /\ map.registerPage \in BOOLEAN /\ map.lower \in BOOLEAN
      /\ map.upper \in BOOLEAN /\ map.lowerBank \in 0 .. 2
      /\ map.registerPage => map.lowerBank = 0
  BY DEF Map
<1>1. CASE RegistersOver(q)
  <2>1. Banks!mem_read(q) = Banks!Rom("registers", 0)
    BY <1>0, <1>1 DEF RegistersOver, Banks!mem_read
  <2>2. ~RomOver(q)  BY <1>0, <1>1 DEF RegistersOver, RomOver
  <2>. QED  BY <1>1, <2>1, <2>2
<1>2. CASE ~RegistersOver(q) /\ map.plus /\ map.lower /\ q = map.lowerBank
  <2>1. Banks!mem_read(q) = Banks!cartridge_page(map.lowerPage)
    BY <1>0, <1>2 DEF RegistersOver, Banks!mem_read
  <2>. QED  BY <1>2, <2>1, RomKind DEF RomOver
<1>3. CASE ~RegistersOver(q) /\ ~map.plus /\ map.lower /\ q = 0
  <2>1. Banks!mem_read(q) = Banks!LowerRom  BY <1>0, <1>3 DEF RegistersOver, Banks!mem_read
  <2>. QED  BY <1>3, <2>1, RomKind DEF RomOver
<1>4. CASE ~RegistersOver(q) /\ map.upper /\ q = 3
  <2>1. Banks!mem_read(q) = Banks!UpperRom  BY <1>0, <1>4 DEF RegistersOver, Banks!mem_read
  <2>. QED  BY <1>4, <2>1, RomKind DEF RomOver
<1>5. CASE ~RegistersOver(q) /\ ~RomOver(q)
  <2>1. Banks!mem_read(q) = IF Banks!Page(q) < map.ramPages
                            THEN Banks!Rom("ram", Banks!Page(q)) ELSE Banks!Rom("open", 0)
    BY <1>0, <1>5 DEF RegistersOver, RomOver, Banks!mem_read
  <2>. QED  BY <1>5, <2>1
<1>. QED  BY <1>1, <1>2, <1>3, <1>4, <1>5 DEF RomOver

(* A page is a number. *)
LEMMA PageType ==
    ASSUME Map(map), NEW q \in 0 .. 3
    PROVE  Banks!Page(q) \in Nat
<1>1. map.bank \in BankRec  BY DEF Map
<1>2. /\ map.bank.high \in 0 .. 3 /\ map.bank.group \in 0 .. 7 /\ map.bank.mode \in 0 .. 7
  BY <1>1 DEF BankRec
<1>3. PICK extra \in Nat : extra = (map.bank.high * 8 + map.bank.group + 1) * 4  BY <1>2
<1>4. q = 0 \/ q = 1 \/ q = 2 \/ q = 3  OBVIOUS
<1>5. map.bank.mode \in 4 .. 7 => map.bank.mode - 4 \in Nat  BY <1>2
<1>. QED  BY <1>2, <1>3, <1>4, <1>5 DEF Banks!Page, Banks!mem_ram_offset_for_config

(* No write is lost and no read floats. *)
LEMMA MappedSound == MapInv => Banks!Mapped
<1>. SUFFICES ASSUME MapInv, ~past.beyond, NEW q \in 0 .. 3
              PROVE  /\ Banks!mem_write(q).kind # "open"
                     /\ Banks!mem_read(q).kind = "ram" => Banks!mem_read(q) = Banks!mem_write(q)
  BY DEF Banks!Mapped, Banks!Quarters
<1>1. Map(map)  BY DEF MapInv
<1>2. Banks!Page(q) < map.ramPages  BY DEF MapInv, Fits, Banks!Page, Banks!Quarters
<1>3. Banks!mem_write(q) = IF RegistersOver(q) THEN Banks!Rom("registers", 0)
                           ELSE Banks!Rom("ram", Banks!Page(q))
  BY <1>2 DEF Banks!mem_write, RegistersOver
<1>4. Banks!mem_write(q).kind # "open"  BY <1>3 DEF Banks!Rom
<1>5. CASE RegistersOver(q)  BY <1>1, <1>3, <1>4, <1>5, Read
<1>6. CASE ~RegistersOver(q) /\ RomOver(q)
  <2>1. Banks!mem_read(q).kind \in RomKinds  BY <1>1, <1>6, Read
  <2>. QED  BY <1>4, <2>1 DEF RomKinds
<1>7. CASE ~RegistersOver(q) /\ ~RomOver(q)  BY <1>1, <1>2, <1>3, <1>4, <1>7, Read
<1>. QED  BY <1>5, <1>6, <1>7

(* What the monitor is told is what the CPU reads. *)
LEMMA VisibleSound == MapInv => Banks!VisibleAgrees
<1>. SUFFICES ASSUME MapInv, NEW q \in 0 .. 3
              PROVE  LET r == Banks!mem_read(q)
                     IN  /\ Banks!mem_visible_ram_bank(q) = IF r.kind = "ram" THEN r.page ELSE -1
                         /\ Banks!mem_visible_rom_bank(q) >= 0 => r.kind \in RomKinds \cup {"registers"}
  BY DEF Banks!VisibleAgrees, Banks!Quarters, RomKinds
<1>1. Map(map)  BY DEF MapInv
<1>2. /\ map.plus \in BOOLEAN /\ map.registerPage \in BOOLEAN /\ map.lower \in BOOLEAN
      /\ map.upper \in BOOLEAN /\ map.lowerBank \in 0 .. 2 /\ map.lowerPage \in Nat
      /\ map.select \in Nat
  BY <1>1 DEF Map
<1>3. /\ Banks!mem_visible_rom_bank(q) \in Int
      /\ Banks!mem_visible_rom_bank(q) >= 0 <=> RomOver(q)
  BY <1>2 DEF Banks!mem_visible_rom_bank, RomOver
<1>4. Banks!mem_visible_ram_bank(q) =
        IF RegistersOver(q) \/ RomOver(q) \/ Banks!Page(q) >= map.ramPages THEN -1 ELSE Banks!Page(q)
  BY <1>3 DEF Banks!mem_visible_ram_bank, RegistersOver
<1>5. Banks!Page(q) \in Nat /\ map.ramPages \in Nat  BY <1>1, PageType DEF Map, Sized
<1>6. CASE RegistersOver(q)
  <2>1. Banks!mem_read(q).kind = "registers"  BY <1>1, <1>6, Read DEF Banks!Rom
  <2>. QED  BY <1>4, <1>6, <2>1
<1>7. CASE ~RegistersOver(q) /\ RomOver(q)
  <2>1. Banks!mem_read(q).kind \in RomKinds  BY <1>1, <1>7, Read
  <2>2. Banks!mem_read(q).kind # "ram"  BY <2>1 DEF RomKinds
  <2>. QED  BY <1>4, <1>7, <2>1, <2>2
<1>8. CASE ~RegistersOver(q) /\ ~RomOver(q)
  <2>1. CASE Banks!Page(q) < map.ramPages
    <3>1. Banks!mem_read(q) = Banks!Rom("ram", Banks!Page(q))  BY <1>1, <1>8, <2>1, Read
    <3>. QED  BY <1>3, <1>4, <1>5, <1>8, <2>1, <3>1 DEF Banks!Rom
  <2>2. CASE ~(Banks!Page(q) < map.ramPages)
    <3>1. Banks!mem_read(q) = Banks!Rom("open", 0)  BY <1>1, <1>8, <2>2, Read
    <3>. QED  BY <1>3, <1>4, <1>5, <1>8, <2>2, <3>1 DEF Banks!Rom
  <2>. QED  BY <2>1, <2>2
<1>. QED  BY <1>6, <1>7, <1>8

(* After a reset the CPU starts in the firmware of the model. *)
LEMMA FirmwareSound == MapInv => Banks!FirmwareAfterReset
<1>. SUFFICES ASSUME MapInv, past.fresh, ~past.failed, ~map.override, ~map.snapshotLower
              PROVE  /\ Banks!mem_read(0) = IF Banks!IsPlus(past.model) THEN Banks!Rom("cart", 0)
                                            ELSE Banks!Rom("os", past.model)
                     /\ map.plus = Banks!IsPlus(past.model) /\ gate.locked
                     /\ \A q \in {1, 2} : Banks!bus_mem_read(q, FALSE) = Banks!Rom("ram", q)
  BY DEF Banks!FirmwareAfterReset
<1>1. /\ Map(map) /\ Fresh(map) /\ gate.locked /\ OfModel(map, past.model)  BY DEF MapInv
<1>2. /\ map.lower = TRUE /\ map.registerPage = FALSE /\ map.lowerBank = 0 /\ map.lowerPage = 0
      /\ map.bank = Banks!Bank0
  BY <1>1 DEF Fresh
<1>3. map.plus \in BOOLEAN /\ map.upper \in BOOLEAN /\ (map.plus => 0 \in DOMAIN map.cart)
  BY <1>1 DEF Map
<1>4. map.plus = Banks!IsPlus(past.model)  BY <1>1 DEF OfModel, Banks!IsPlus, Plus
<1>5. ASSUME NEW q \in {1, 2} PROVE Banks!bus_mem_read(q, FALSE) = Banks!Rom("ram", q)
  <2>1. Banks!bus_mem_read(q, FALSE) = Banks!mem_read(q)  BY DEF Banks!bus_mem_read
  <2>2. Banks!Page(q) = q
    BY <1>2 DEF Banks!Page, Banks!mem_ram_offset_for_config, Banks!Bank0
  <2>3. ~RegistersOver(q) /\ ~RomOver(q)  BY <1>2, <1>3 DEF RegistersOver, RomOver
  <2>4. q \in 0 .. 3 /\ q < map.ramPages  BY <1>1 DEF Map, Sized
  <2>. QED  BY <1>1, <2>1, <2>2, <2>3, <2>4, Read
<1>6. CASE map.plus
  <2>1. Banks!mem_read(0) = Banks!cartridge_page(0)  BY <1>2, <1>3, <1>6 DEF Banks!mem_read
  <2>2. Banks!cartridge_page(0) = Banks!Rom("cart", 0)  BY <1>3, <1>6 DEF Banks!cartridge_page
  <2>. QED  BY <1>1, <1>4, <1>5, <1>6, <2>1, <2>2
<1>7. CASE ~map.plus
  <2>1. Banks!mem_read(0) = Banks!LowerRom  BY <1>2, <1>3, <1>7 DEF Banks!mem_read
  <2>2. map.os = past.model  BY <1>1, <1>7 DEF OfModel
  <2>3. Banks!LowerRom = Banks!Rom("os", past.model)  BY <2>2 DEF Banks!LowerRom
  <2>. QED  BY <1>1, <1>4, <1>5, <1>7, <2>1, <2>3
<1>. QED  BY <1>3, <1>6, <1>7

(* The table of the layouts *)
LEMMA LayoutSound == Banks!LayoutIsTable
<1>. SUFFICES ASSUME NEW mode \in 0 .. 7, NEW g \in Groups, NEW hi \in Highs, NEW q \in 0 .. 3,
                     NEW b, b = [high |-> hi, group |-> g, mode |-> mode]
              PROVE  Banks!mem_ram_offset_for_config(b, q) = Banks!TablePage(b, q)
  BY DEF Banks!LayoutIsTable, Banks!Quarters
<1>1. g \in Nat /\ hi \in Nat /\ b.high = hi /\ b.group = g /\ b.mode = mode  BY MapConstants
<1>2. PICK extra \in Nat : extra = (hi * 8 + g + 1) * 4  BY <1>1
<1>3. Banks!TablePage(b, q)
        = LET rb == Banks!Layout[mode + 1][q + 1] IN IF rb < 4 THEN rb ELSE extra + rb - 4
  BY <1>1, <1>2 DEF Banks!TablePage
<1>4. Banks!mem_ram_offset_for_config(b, q)
        = CASE q = 0 -> IF mode = 2 THEN extra ELSE 0
            [] q = 1 -> IF mode = 2 THEN extra + 1
                        ELSE IF mode = 3 THEN 3
                        ELSE IF mode \in 4 .. 7 THEN extra + (mode - 4) ELSE 1
            [] q = 2 -> IF mode = 2 THEN extra + 2 ELSE 2
            [] q = 3 -> IF mode \in 1 .. 3 THEN extra + 3 ELSE 3
  BY <1>1, <1>2 DEF Banks!mem_ram_offset_for_config
<1>5. q = 0 \/ q = 1 \/ q = 2 \/ q = 3  OBVIOUS
<1>6. CASE mode = 0  BY <1>2, <1>3, <1>4, <1>5, <1>6 DEF Banks!Layout
<1>7. CASE mode = 1  BY <1>2, <1>3, <1>4, <1>5, <1>7 DEF Banks!Layout
<1>8. CASE mode = 2  BY <1>2, <1>3, <1>4, <1>5, <1>8 DEF Banks!Layout
<1>9. CASE mode = 3  BY <1>2, <1>3, <1>4, <1>5, <1>9 DEF Banks!Layout
<1>10. CASE mode = 4  BY <1>2, <1>3, <1>4, <1>5, <1>10 DEF Banks!Layout
<1>11. CASE mode = 5  BY <1>2, <1>3, <1>4, <1>5, <1>11 DEF Banks!Layout
<1>12. CASE mode = 6  BY <1>2, <1>3, <1>4, <1>5, <1>12 DEF Banks!Layout
<1>13. CASE mode = 7  BY <1>2, <1>3, <1>4, <1>5, <1>13 DEF Banks!Layout
<1>. QED  BY <1>6, <1>7, <1>8, <1>9, <1>10, <1>11, <1>12, <1>13

(* The devices' ports: an expansion's high byte has every line of the      *)

(* board's devices set.                                                    *)
LEMMA ExpansionHigh ==
    ASSUME NEW hi \in 250 .. 255
    PROVE  Banks!cpc_io_decode(hi) = {}
<1>1. Banks!Bit(hi, 64) /\ Banks!Bit(hi, 8) /\ Banks!Bit(hi, 128) /\ Banks!Bit(hi, 32) /\ Banks!Bit(hi, 16)
  BY DEF Banks!Bit
<1>. QED  BY <1>1 DEF Banks!cpc_io_decode

(* No port is answered by two devices. *)
LEMMA OneDeviceSound == Banks!OneDevice
<1>. SUFFICES ASSUME NEW p \in Ports, NEW hi, NEW lo, hi = p[1], lo = p[2]
              PROVE  /\ \/ Banks!ReadDevice(hi, lo) = "none"
                        \/ Banks!WriteDevice(hi, lo) \in {Banks!ReadDevice(hi, lo), "none"}
                     /\ {Banks!ReadDevice(hi, lo), Banks!WriteDevice(hi, lo)} # {"none"}
                            => Banks!cpc_io_decode(hi) = {}
  BY DEF Banks!OneDevice
<1>1. hi \in 0 .. 255 /\ lo \in 0 .. 255  BY MapConstants
<1>2. CASE hi < 250
  <2>1. Banks!ReadDevice(hi, lo) = "none"
    BY <1>1, <1>2 DEF Banks!ReadDevice, Banks!Usifac, Banks!Albireo, Banks!V9990
  <2>2. Banks!WriteDevice(hi, lo) = "none"
    BY <1>1, <1>2 DEF Banks!WriteDevice, Banks!Usifac, Banks!Albireo, Banks!V9990
  <2>. QED  BY <2>1, <2>2
<1>3. CASE hi >= 250
  <2>1. Banks!cpc_io_decode(hi) = {}  BY <1>1, <1>3, ExpansionHigh
  <2>2. hi \in {250, 251, 252, 253, 254, 255}  BY <1>1, <1>3
  <2>3. CASE hi = 250
    <3>1. Banks!ReadDevice(hi, lo) = "none"  BY <2>3 DEF Banks!ReadDevice, Banks!Usifac, Banks!Albireo, Banks!V9990
    <3>. QED  BY <2>1, <3>1
  <2>4. CASE hi = 251
    BY <2>1, <2>4 DEF Banks!ReadDevice, Banks!WriteDevice, Banks!Albireo, Banks!V9990
  <2>5. CASE hi = 252
    BY <2>1, <2>5 DEF Banks!ReadDevice, Banks!Usifac, Banks!Albireo, Banks!V9990
  <2>6. CASE hi = 253
    BY <1>1, <2>1, <2>6 DEF Banks!ReadDevice, Banks!WriteDevice, Banks!Usifac, Banks!Albireo,
       Banks!V9990, Banks!IdePort, Banks!NetPort, Banks!SymbnetPort
  <2>7. CASE hi = 254
    BY <2>1, <2>7 DEF Banks!ReadDevice, Banks!WriteDevice, Banks!Usifac, Banks!V9990
  <2>8. CASE hi = 255
    BY <2>1, <2>8 DEF Banks!ReadDevice, Banks!WriteDevice, Banks!Usifac, Banks!Albireo
  <2>. QED  BY <2>2, <2>3, <2>4, <2>5, <2>6, <2>7, <2>8
<1>. QED  BY <1>1, <1>2, <1>3

(* The chunks of a cartridge, one after the other *)
LEMMA ChunksRun ==
    ASSUME NEW file, NEW n \in Nat, n = Len(file.chunks), NEW run, run = Banks!cartridge_chunks(file)
    PROVE  /\ run[0] = Banks!cartridge_start(file)
           /\ \A i \in 1 .. n : run[i] = Banks!cartridge_chunk(file, file.chunks[i], run[i - 1])
<1> DEFINE Turn(i, r) == IF i = 0 THEN Banks!cartridge_start(file)
                         ELSE Banks!cartridge_chunk(file, file.chunks[i], r[i - 1])
           Run(k, r) == r = [i \in 0 .. k |-> Turn(i, r)]
           Missing == {k \in 0 .. n : \A r : ~Run(k, r)}
<1>1. run = CHOOSE r : Run(n, r)  BY DEF Banks!cartridge_chunks
<1>2. Missing = {}
  <2>. SUFFICES ASSUME Missing # {} PROVE FALSE  OBVIOUS
  <2>0. Missing \in SUBSET Nat  OBVIOUS
  <2> HIDE DEF Missing
  <2>1. PICK k \in Missing : \A j \in Missing : k <= j  BY <2>0, LeastNat
  <2>2. k \in 0 .. n /\ \A r : ~Run(k, r)  BY DEF Missing
  <2>3. k # 0
    <3>1. PICK r : r = [i \in 0 .. 0 |-> Banks!cartridge_start(file)]  OBVIOUS
    <3>2. Run(0, r)  BY <3>1
    <3>. QED  BY <2>2, <3>2
  <2>4. k - 1 \in 0 .. n /\ k - 1 \notin Missing  BY <2>1, <2>2, <2>3
  <2>5. PICK r : Run(k - 1, r)  BY <2>4 DEF Missing
  <2>6. PICK w : w = [i \in 0 .. k |-> IF i = k THEN Turn(k, r) ELSE r[i]]  OBVIOUS
  <2>7. \A i \in 0 .. k - 1 : w[i] = r[i]  BY <2>2, <2>6
  <2>8. ASSUME NEW i \in 0 .. k PROVE w[i] = Turn(i, w)
    <3>1. CASE i = k
      <4>1. w[i] = Turn(k, r)  BY <2>6, <3>1
      <4>2. w[k - 1] = r[k - 1]  BY <2>2, <2>3, <2>7
      <4>. QED  BY <2>3, <3>1, <4>1, <4>2
    <3>2. CASE i # k
      <4>1. i \in 0 .. k - 1  BY <2>2, <3>2
      <4>2. w[i] = Turn(i, r)  BY <2>5, <2>7, <4>1
      <4>3. i # 0 => w[i - 1] = r[i - 1]  BY <2>2, <2>7, <4>1
      <4>. QED  BY <4>2, <4>3
    <3>. QED  BY <3>1, <3>2
  <2>9. Run(k, w)  BY <2>6, <2>8
  <2>. QED  BY <2>2, <2>9
<1>3. PICK r : Run(n, r)
  <2> HIDE DEF Run
  <2>1. n \in 0 .. n /\ n \notin Missing  BY <1>2
  <2>. QED  BY <2>1 DEF Missing
<1>4. Run(n, run)  BY <1>1, <1>3
<1>. QED  BY <1>4

(* While it is in order: what is left is what the header claims and was    *)
(* not read yet, it was all in the file, and every page is some chunk's.   *)
InOrder(file, i, s) ==
    s.ok => /\ s.remaining \in Nat /\ s.read \in Nat
            /\ s.read + s.remaining = file.riff + 8 /\ s.read <= file.bytes
            /\ \A p \in DOMAIN s.pages : \E j \in 1 .. i : file.chunks[j].page = p

(* A chunk keeps it so. *)
LEMMA ChunkInOrder ==
    ASSUME NEW file, file.riff \in Nat, file.bytes \in Nat, NEW i \in Nat, NEW c,
           c = file.chunks[i + 1], c.page \in Int, c.size \in Nat,
           NEW s, InOrder(file, i, s), NEW t, t = Banks!cartridge_chunk(file, c, s)
    PROVE  InOrder(file, i + 1, t)
<1>. SUFFICES ASSUME t.ok PROVE InOrder(file, i + 1, t)  BY DEF InOrder
<1>1. PICK pad \in Nat : pad = Banks!Padded(c)  BY DEF Banks!Padded
<1>2. CASE ~s.ok \/ s.remaining = 0
  <2>1. t = s  BY <1>2 DEF Banks!cartridge_chunk
  <2>. QED  BY <2>1 DEF InOrder
<1>3. CASE s.ok /\ s.remaining # 0
  <2>1. /\ s.remaining \in Nat /\ s.read \in Nat
        /\ s.read + s.remaining = file.riff + 8 /\ s.read <= file.bytes
        /\ \A p \in DOMAIN s.pages : \E j \in 1 .. i : file.chunks[j].page = p
    BY <1>3 DEF InOrder
  <2>2. CASE ~(s.remaining >= 8 /\ pad <= s.remaining - 8) \/ ~(s.read + 8 + pad <= file.bytes)
    <3>1. t = [s EXCEPT !.ok = FALSE]  BY <1>1, <1>3, <2>2 DEF Banks!cartridge_chunk
    <3>2. t.ok = FALSE  BY <3>1
    <3>. QED  BY <3>2
  <2>3. CASE /\ s.remaining >= 8 /\ pad <= s.remaining - 8 /\ s.read + 8 + pad <= file.bytes
    <3>1. /\ t.remaining = s.remaining - 8 - pad /\ t.read = s.read + 8 + pad
          /\ t.pages = IF c.page = -1 THEN s.pages
                       ELSE [p \in DOMAIN s.pages \cup {c.page} |->
                               IF p = c.page THEN Banks!Min2(c.size, PageSize) ELSE s.pages[p]]
      BY <1>1, <1>3, <2>3 DEF Banks!cartridge_chunk
    <3>2. DOMAIN t.pages \subseteq DOMAIN s.pages \cup {c.page}  BY <3>1
    <3>3. \A p \in DOMAIN t.pages : \E j \in 1 .. i + 1 : file.chunks[j].page = p  BY <2>1, <3>2
    <3>. QED  BY <2>1, <2>3, <3>1, <3>3 DEF InOrder
  <2>. QED  BY <2>2, <2>3
<1>. QED  BY <1>2, <1>3

(* An accepted cartridge is all in its file and has a page. *)
LEMMA CartridgeSound == Banks!CartridgeWhole
<1>. SUFFICES ASSUME NEW file \in Cartridges, Banks!cartridge_load_file(file).ok
              PROVE  /\ file.bytes >= file.riff + 8
                     /\ \E i \in DOMAIN file.chunks :
                          file.chunks[i].page \in DOMAIN Banks!cartridge_load_file(file).pages
  BY DEF Banks!CartridgeWhole
<1>1. /\ file.riff \in Nat /\ file.bytes \in Nat
      /\ file.chunks \in Seq([page : Nat \cup {-1}, size : Nat])
  BY MapConstants
<1>2. PICK n \in Nat : n = Len(file.chunks) /\ DOMAIN file.chunks = 1 .. n  BY <1>1
<1>3. ASSUME NEW i \in 1 .. n
      PROVE  file.chunks[i].page \in Int /\ file.chunks[i].size \in Nat
  <2>1. PICK S : S = [page : Nat \cup {-1}, size : Nat]  OBVIOUS
  <2>2. file.chunks \in Seq(S) /\ i \in 1 .. Len(file.chunks)  BY <1>1, <1>2, <1>3, <2>1
  <2>3. file.chunks[i] \in S  BY <2>2
  <2>. QED  BY <2>1, <2>3
<1>4. PICK run : run = Banks!cartridge_chunks(file)  OBVIOUS
<1>5. /\ run[0] = Banks!cartridge_start(file)
      /\ \A i \in 1 .. n : run[i] = Banks!cartridge_chunk(file, file.chunks[i], run[i - 1])
  BY <1>2, <1>4, ChunksRun
<1> DEFINE Broken == {i \in 0 .. n : ~InOrder(file, i, run[i])}
<1>6. Broken = {}
  <2>. SUFFICES ASSUME Broken # {} PROVE FALSE  OBVIOUS
  <2>0. Broken \in SUBSET Nat  OBVIOUS
  <2> HIDE DEF Broken
  <2>1. PICK k \in Broken : \A j \in Broken : k <= j  BY <2>0, LeastNat
  <2>2. k \in 0 .. n /\ ~InOrder(file, k, run[k])  BY DEF Broken
  <2>3. InOrder(file, 0, run[0])
    <3>. SUFFICES ASSUME run[0].ok PROVE InOrder(file, 0, run[0])  BY DEF InOrder
    <3>1. PICK on : on = (file.riff >= 4 /\ file.bytes >= 12)  OBVIOUS
    <3>2. Banks!cartridge_start(file) = [ok |-> on, remaining |-> file.riff - 4, read |-> 12,
                                          pages |-> [p \in {} |-> 0]]
      BY <3>1, Zenon DEF Banks!cartridge_start
    <3>3. run[0].ok = on  BY <1>5, <3>2
    <3>4. file.riff >= 4 /\ file.bytes >= 12  BY <3>1, <3>3
    <3>5. run[0].remaining = file.riff - 4 /\ run[0].read = 12 /\ DOMAIN run[0].pages = {}
      BY <1>5 DEF Banks!cartridge_start
    <3>. QED  BY <1>1, <3>4, <3>5 DEF InOrder
  <2>4. k # 0  BY <2>2, <2>3
  <2>5. PICK i \in Nat : i = k - 1 /\ i + 1 = k /\ k \in 1 .. n  BY <2>2, <2>4
  <2>6. InOrder(file, i, run[i])  BY <2>1, <2>2, <2>5 DEF Broken
  <2>7. run[k] = Banks!cartridge_chunk(file, file.chunks[i + 1], run[i])  BY <1>5, <2>5
  <2>8. InOrder(file, i + 1, run[k])  BY <1>1, <1>3, <2>5, <2>6, <2>7, ChunkInOrder
  <2>. QED  BY <2>2, <2>5, <2>8
<1>7. InOrder(file, n, run[n])  BY <1>6
<1>8. /\ run[n].ok /\ run[n].remaining = 0 /\ DOMAIN run[n].pages # {}
      /\ Banks!cartridge_load_file(file).pages = run[n].pages
  BY <1>2, <1>4 DEF Banks!cartridge_load_file
<1>9. /\ run[n].read + 0 = file.riff + 8 /\ run[n].read <= file.bytes /\ run[n].read \in Nat
      /\ \A p \in DOMAIN run[n].pages : \E j \in 1 .. n : file.chunks[j].page = p
  BY <1>7, <1>8 DEF InOrder
<1>10. PICK p \in DOMAIN run[n].pages : TRUE  BY <1>8
<1>11. PICK j \in 1 .. n : file.chunks[j].page = p  BY <1>9
<1>12. file.bytes >= file.riff + 8  BY <1>1, <1>9
<1>. QED  BY <1>2, <1>8, <1>10, <1>11, <1>12
-----------------------------------------------------------------------------

(* The invariant gives every part of MemorySound. *)
LEMMA MapSound == MapInv => Banks!MemorySound
<1>1. MapInv => Banks!MirrorAgrees  BY DEF MapInv, Agree, Banks!MirrorAgrees
<1>. QED
  BY <1>1, MappedSound, VisibleSound, FirmwareSound, LayoutSound, OneDeviceSound, CartridgeSound
  DEF Banks!MemorySound

(* Every step of the map keeps it sound *)
LEMMA MapKeeps == MapInv /\ [Banks!Next]_shared => MapInv'
<1>1. MapInv /\ Banks!Next => MapInv'  BY MapStep
<1>2. MapInv /\ UNCHANGED shared => MapInv'
  BY DEF shared, MapInv, Agree, Fits, OfModel, Fresh, Map, Sized, Banks!mem_ram_offset_for_config
<1>. QED  BY <1>1, <1>2

MapPart == part = "memory" => MapInv

(* The map is sound whatever was written to the Gate Array, the ROM latch  *)
(* and the ASIC, and whatever was loaded: every quarter has fitted RAM     *)
(* behind it, the monitor sees what the CPU sees, a reset starts in the    *)
(* firmware of the model, no two devices answer a port, and a cartridge is *)
(* loaded whole.                                                           *)
THEOREM MemoryHolds == MachineSpec => []MemorySound
<1>1. MachineInit => MapPart  BY MapInit DEF MachineInit, MapPart
<1>2. MapPart /\ [MachineNext]_allVars => MapPart'
  <2>. SUFFICES ASSUME MapPart, [MachineNext]_allVars, part' = "memory" PROVE MapInv'
    BY DEF MapPart
  <2>1. part' = part  BY DEF MachineNext, allVars
  <2>2. part = "memory" /\ MapInv  BY <2>1 DEF MapPart
  <2>3. [Banks!Next]_shared  BY <2>2 DEF MachineNext, allVars, Bounded
  <2>. QED  BY <2>2, <2>3, MapKeeps
<1>3. MapPart => MemorySound  BY MapSound DEF MapPart, MemorySound
<1>. QED  BY <1>1, <1>2, <1>3, PTL DEF MachineSpec

-----------------------------------------------------------------------------
(* The video controller: one record is followed through a tick. *)

SameBut(x, y, fields) == DOMAIN y = DOMAIN x /\ \A f \in DOMAIN x \ fields : y[f] = x[f]

Flags == {"vadjust", "hsync", "vsync", "hDisplay", "vDisplay", "lastRaster", "lastFrame", "r7", "latched",
          "newLine", "newFrame", "latch"}
Fields == Flags \cup {"reg", "type", "hcc", "vcc", "vlc", "vsc", "hsc", "vac", "ma", "row", "nextRow"}

RegsOk(reg) == DOMAIN reg = Video!Regs /\ \A r \in Video!Regs : Video!Masked(r, reg[r])
CrtcOk(x) ==
    /\ DOMAIN x = Fields /\ \A f \in Flags : x[f] \in BOOLEAN
    /\ RegsOk(x.reg)
    /\ x.hcc \in 0 .. HMod - 1 /\ x.vcc \in 0 .. VMod - 1 /\ x.vlc \in 0 .. RMod - 1
    /\ x.vac \in Nat /\ x.vsc \in Nat /\ x.hsc \in 0 .. HswMod
    /\ x.ma \in Nat /\ x.row \in Nat /\ x.nextRow \in Nat
    /\ (x.lastRaster <=> x.vlc = x.reg[9]) /\ (x.lastFrame => x.lastRaster)

LEMMA SameSame ==
    ASSUME NEW x, NEW y, NEW z, NEW F, NEW G, SameBut(x, y, F), SameBut(y, z, G)
    PROVE  SameBut(x, z, F \cup G)
BY DEF SameBut

LEMMA Widths ==
    /\ HMod \in Nat /\ 1 <= HMod /\ VMod \in Nat /\ 1 <= VMod /\ RMod \in Nat /\ 1 <= RMod
    /\ MaMod \in Nat /\ 1 <= MaMod /\ HswMod \in Nat /\ 1 <= HswMod /\ VswMod \in Nat /\ 1 <= VswMod
    /\ MinVsyncHend \in Nat
BY VideoAssumption DEF Video!CrtcAssumption

LEMMA RegTypes ==
    ASSUME NEW reg, RegsOk(reg)
    PROVE  /\ \A r \in Video!Regs : reg[r] \in Nat
           /\ reg[0] < HMod /\ reg[1] < HMod /\ reg[2] < HMod /\ reg[4] < VMod /\ reg[6] < VMod
           /\ reg[7] < VMod /\ reg[5] < RMod /\ reg[9] < RMod
           /\ \A r \in {0, 1, 2, 3, 4, 5, 6, 7, 9, 12} : reg[r] \in Nat
BY DEF RegsOk, Video!Masked, Video!Regs

(* The pulse of x, one clock on, as y has it *)
Pulse(x, y) ==
    LET w == Video!Hsw(x)
        starts == w # 0 /\ ~x.hsync /\ (x.hcc + 1) % HMod = x.reg[2]
        hsc == IF starts THEN 0 ELSE x.hsc
        latched == ~starts /\ x.latched
        clock == IF w < HswMod THEN (hsc + 1) % HswMod ELSE hsc + 1
        ends == hsc = w
        takes == ~latched /\ (ends \/ clock = Cutoff)
    IN  IF ~x.hsync /\ ~starts
        THEN y.hsync = FALSE /\ y.hsc = x.hsc /\ y.latch = FALSE /\ y.latched = x.latched
        ELSE /\ y.hsync = ~ends /\ y.hsc = IF ends THEN hsc ELSE clock
             /\ y.latch = takes /\ y.latched = (latched \/ takes)

CountFields == {"hcc", "ma", "newLine", "newFrame", "latch"}
LEMMA Counts ==
    ASSUME NEW x, CrtcOk(x), NEW y, y = Video!Counted(x)
    PROVE  /\ SameBut(x, y, CountFields)
           /\ y.hcc = (x.hcc + 1) % HMod /\ y.ma = (x.ma + 1) % MaMod
           /\ y.newLine = FALSE /\ y.newFrame = FALSE /\ y.latch = FALSE
<1>1. PICK a : a = (x.hcc + 1) % HMod  OBVIOUS
<1>2. PICK b : b = (x.ma + 1) % MaMod  OBVIOUS
<1>3. y = [x EXCEPT !.hcc = a, !.ma = b, !.newLine = FALSE, !.newFrame = FALSE, !.latch = FALSE]
  <2>1. y = [x EXCEPT !.hcc = (x.hcc + 1) % HMod, !.ma = (x.ma + 1) % MaMod,
                      !.newLine = FALSE, !.newFrame = FALSE, !.latch = FALSE]
    BY Zenon DEF Video!Counted
  <2>. QED  BY <2>1, <1>1, <1>2, Zenon
<1>4. DOMAIN x = Fields  BY DEF CrtcOk
<1>5. DOMAIN y = Fields /\ y.hcc = a /\ y.ma = b /\ y.newLine = FALSE /\ y.newFrame = FALSE /\ y.latch = FALSE
  BY <1>3, <1>4 DEF Fields, Flags
<1>6. \A f \in Fields \ CountFields : y[f] = x[f]  BY <1>3, <1>4 DEF Fields, Flags, CountFields
<1>. QED  BY <1>1, <1>2, <1>4, <1>5, <1>6 DEF SameBut

PulseFields == {"hsync", "hsc", "latched", "latch"}

LEMMA Pulses ==
    ASSUME NEW x, CrtcOk(x), NEW c0, c0 = Video!Counted(x), NEW y, y = Video!HsyncStep(c0)
    PROVE  SameBut(c0, y, PulseFields) /\ Pulse(x, y)
<1>1. /\ DOMAIN c0 = Fields /\ c0.hcc = (x.hcc + 1) % HMod /\ c0.latch = FALSE /\ c0.hsync = x.hsync
      /\ c0.reg = x.reg /\ c0.type = x.type /\ c0.hsc = x.hsc /\ c0.latched = x.latched
  <2>1. SameBut(x, c0, CountFields) /\ c0.hcc = (x.hcc + 1) % HMod /\ c0.latch = FALSE  BY Counts, Zenon
  <2>2. DOMAIN x = Fields  BY DEF CrtcOk
  <2>3. \A f \in {"hsync", "reg", "type", "hsc", "latched"} : f \in Fields \ CountFields
    BY DEF CountFields, Fields, Flags
  <2>4. \A f \in {"hsync", "reg", "type", "hsc", "latched"} : c0[f] = x[f]  BY <2>1, <2>2, <2>3 DEF SameBut
  <2>. QED  BY <2>1, <2>2, <2>4 DEF SameBut
<1>2. PICK w : w = Video!Hsw(x)  OBVIOUS
<1>3. Video!Hsw(c0) = w  BY <1>1, <1>2 DEF Video!Hsw
<1>4. PICK starts \in BOOLEAN : starts <=> w # 0 /\ ~x.hsync /\ (x.hcc + 1) % HMod = x.reg[2]  OBVIOUS
<1>5. PICK z : z = IF starts THEN [c0 EXCEPT !.hsync = TRUE, !.hsc = 0, !.latched = FALSE] ELSE c0  OBVIOUS
<1>6. /\ DOMAIN z = Fields /\ SameBut(c0, z, PulseFields) /\ z.latch = FALSE
      /\ z.hsc = (IF starts THEN 0 ELSE x.hsc) /\ (z.latched <=> ~starts /\ x.latched)
      /\ (z.hsync <=> x.hsync \/ starts) /\ z.latched \in BOOLEAN /\ z.hsync \in BOOLEAN
  <2>1. CASE starts
    <3>1. z = [c0 EXCEPT !.hsync = TRUE, !.hsc = 0, !.latched = FALSE]  BY <1>5, <2>1
    <3>2. DOMAIN z = Fields /\ z.hsync = TRUE /\ z.hsc = 0 /\ z.latched = FALSE /\ z.latch = c0.latch
      BY <3>1, <1>1 DEF Fields, Flags
    <3>3. \A f \in Fields \ PulseFields : z[f] = c0[f]  BY <3>1, <1>1 DEF Fields, Flags, PulseFields
    <3>. QED  BY <2>1, <3>2, <3>3, <1>1 DEF SameBut
  <2>2. CASE ~starts
    <3>1. z = c0  BY <1>5, <2>2
    <3>2. x.latched \in BOOLEAN /\ x.hsync \in BOOLEAN  BY DEF CrtcOk, Flags
    <3>. QED  BY <2>2, <3>1, <3>2, <1>1 DEF SameBut
  <2>. QED  BY <2>1, <2>2
<1>7. PICK clock : clock = IF w < HswMod THEN (z.hsc + 1) % HswMod ELSE z.hsc + 1  OBVIOUS
<1>8. PICK ends \in BOOLEAN : ends <=> z.hsc = w  OBVIOUS
<1>9. PICK takes \in BOOLEAN : takes <=> ~z.latched /\ (ends \/ clock = Cutoff)  OBVIOUS
<1>10. PICK hsc : hsc = IF ends THEN z.hsc ELSE clock  OBVIOUS
<1>11. y = IF ~z.hsync THEN z
           ELSE [z EXCEPT !.hsync = ~ends, !.hsc = IF ends THEN @ ELSE clock,
                          !.latch = takes, !.latched = @ \/ takes]
  <2>1. /\ starts <=> w # 0 /\ ~c0.hsync /\ c0.hcc = c0.reg[2]
        /\ ends <=> z.hsc = w
    BY <1>1, <1>4, <1>8
  <2>2. z = IF w # 0 /\ ~c0.hsync /\ c0.hcc = c0.reg[2]
            THEN [c0 EXCEPT !.hsync = TRUE, !.hsc = 0, !.latched = FALSE] ELSE c0
    BY <2>1, <1>5
  <2>. QED  BY <1>3, <1>7, <2>1, <2>2, <1>9 DEF Video!HsyncStep
<1>12. CASE ~z.hsync
  <2>1. y = z  BY <1>11, <1>12
  <2>2. ~x.hsync /\ ~starts  BY <1>6, <1>12
  <2>3. y.hsync = FALSE /\ y.hsc = x.hsc /\ y.latch = FALSE /\ y.latched = x.latched
    <3>1. x.latched \in BOOLEAN  BY DEF CrtcOk, Flags
    <3>. QED  BY <2>1, <2>2, <1>6, <1>12, <3>1
  <2>4. Pulse(x, y)  BY <2>2, <2>3, <1>2, <1>4 DEF Pulse
  <2>. QED  BY <2>1, <2>4, <1>6
<1>13. CASE z.hsync
  <2>1. y = [z EXCEPT !.hsync = ~ends, !.hsc = hsc, !.latch = takes, !.latched = z.latched \/ takes]
    BY <1>11, <1>13, <1>10
  <2>2. PICK lat \in BOOLEAN : lat <=> z.latched \/ takes  OBVIOUS
  <2>3. y = [z EXCEPT !.hsync = ~ends, !.hsc = hsc, !.latch = takes, !.latched = lat]
    BY <2>1, <2>2, <1>6
  <2>4. DOMAIN y = Fields /\ y.hsync = ~ends /\ y.hsc = hsc /\ y.latch = takes /\ y.latched = lat
    BY <2>3, <1>6 DEF Fields, Flags
  <2>5. \A f \in Fields \ PulseFields : y[f] = z[f]  BY <2>3, <1>6 DEF Fields, Flags, PulseFields
  <2>6. SameBut(c0, y, PulseFields)  BY <2>4, <2>5, <1>6, <1>1 DEF SameBut
  <2>7. Pulse(x, y)
    BY <2>4, <2>2, <1>2, <1>4, <1>6, <1>7, <1>8, <1>9, <1>10, <1>13 DEF Pulse
  <2>. QED  BY <2>6, <2>7
<1>. QED  BY <1>12, <1>13
(* What each operator of a line changes *)
LEMMA Captures ==
    ASSUME NEW x, DOMAIN x = Fields, NEW eol \in BOOLEAN, NEW y, y = Video!Captured(x, eol)
    PROVE  /\ DOMAIN y = Fields /\ SameBut(x, y, {"nextRow"})
           /\ y.nextRow = IF x.lastRaster /\ (x.hcc = x.reg[1] \/ (eol /\ x.reg[1] = 0))
                          THEN IF eol /\ x.reg[1] = 0 THEN x.row ELSE x.ma
                          ELSE x.nextRow
<1>1. PICK now \in BOOLEAN : now <=> x.lastRaster /\ (x.hcc = x.reg[1] \/ (eol /\ x.reg[1] = 0))  OBVIOUS
<1>2. PICK a : a = IF eol /\ x.reg[1] = 0 THEN x.row ELSE x.ma  OBVIOUS
<1>3. y = IF now THEN [x EXCEPT !.nextRow = a] ELSE x  BY <1>1, <1>2 DEF Video!Captured
<1>4. CASE now
  <2>1. y = [x EXCEPT !.nextRow = a]  BY <1>3, <1>4
  <2>2. DOMAIN y = Fields /\ y.nextRow = a  BY <2>1 DEF Fields
  <2>3. \A f \in Fields \ {"nextRow"} : y[f] = x[f]  BY <2>1 DEF Fields
  <2>. QED  BY <1>1, <1>2, <1>4, <2>2, <2>3 DEF SameBut
<1>5. CASE ~now  BY <1>1, <1>3, <1>5 DEF SameBut
<1>. QED  BY <1>4, <1>5

BeginFields == {"newFrame", "row", "nextRow", "vDisplay"}
LEMMA Restarts ==
    ASSUME NEW x, DOMAIN x = Fields, NEW y, y = Video!Restart(x)
    PROVE  /\ DOMAIN y = Fields /\ SameBut(x, y, BeginFields)
           /\ y.newFrame = TRUE /\ y.row = Video!crtc_start_addr(x) /\ y.nextRow = Video!crtc_start_addr(x)
           /\ y.vDisplay \in BOOLEAN /\ (y.vDisplay <=> x.reg[6] # 0)
<1>1. PICK a : a = Video!crtc_start_addr(x)  OBVIOUS
<1>2. PICK b \in BOOLEAN : b <=> x.reg[6] # 0  OBVIOUS
<1>3. y = [x EXCEPT !.newFrame = TRUE, !.row = a, !.nextRow = a, !.vDisplay = b]  BY <1>1, <1>2 DEF Video!Restart
<1>4. DOMAIN y = Fields /\ y.newFrame = TRUE /\ y.row = a /\ y.nextRow = a /\ y.vDisplay = b
  BY <1>3 DEF Fields, Flags
<1>5. \A f \in Fields \ BeginFields : y[f] = x[f]  BY <1>3 DEF Fields, Flags, BeginFields
<1>. QED  BY <1>1, <1>2, <1>4, <1>5 DEF SameBut

LatchFields == {"lastRaster", "lastFrame"}
LEMMA Latches ==
    ASSUME NEW x, DOMAIN x = Fields, NEW y, y = Video!crtc_latch_line_state(x)
    PROVE  /\ DOMAIN y = Fields /\ SameBut(x, y, LatchFields)
           /\ y.lastRaster \in BOOLEAN /\ y.lastFrame \in BOOLEAN
           /\ y.lastRaster <=> x.vlc = x.reg[9]
           /\ y.lastFrame <=> x.vlc = x.reg[9] /\ x.vcc = x.reg[4]
<1>1. PICK a \in BOOLEAN : a <=> x.vlc = x.reg[9]  OBVIOUS
<1>2. PICK b \in BOOLEAN : b <=> x.vlc = x.reg[9] /\ x.vcc = x.reg[4]  OBVIOUS
<1>3. y = [x EXCEPT !.lastRaster = a, !.lastFrame = b]  BY <1>1, <1>2 DEF Video!crtc_latch_line_state
<1>4. DOMAIN y = Fields /\ y.lastRaster = a /\ y.lastFrame = b  BY <1>3 DEF Fields, Flags
<1>5. \A f \in Fields \ LatchFields : y[f] = x[f]  BY <1>3 DEF Fields, Flags, LatchFields
<1>. QED  BY <1>1, <1>2, <1>4, <1>5 DEF SameBut

R7Fields == {"r7", "vsync", "vsc"}
LEMMA Matches ==
    ASSUME NEW x, DOMAIN x = Fields, NEW ok \in BOOLEAN, NEW y, y = Video!crtc_update_r7_match(x, ok), x.vsync \in BOOLEAN
    PROVE  /\ DOMAIN y = Fields /\ SameBut(x, y, R7Fields)
           /\ y.r7 \in BOOLEAN /\ y.vsync \in BOOLEAN
           /\ y.r7 <=> x.vcc = x.reg[7]
           /\ y.vsync <=> (x.vsync \/ (x.vcc = x.reg[7] /\ ~x.r7 /\ ok))
           /\ y.vsc = IF x.vcc = x.reg[7] /\ ~x.r7 /\ ok /\ ~x.vsync THEN 0 ELSE x.vsc
<1>1. PICK starts \in BOOLEAN : starts <=> x.vcc = x.reg[7] /\ ~x.r7 /\ ok /\ ~x.vsync  OBVIOUS
<1>2. PICK r7 \in BOOLEAN : r7 <=> x.vcc = x.reg[7]  OBVIOUS
<1>3. PICK on \in BOOLEAN : on <=> x.vsync \/ starts  OBVIOUS
<1>4. PICK k : k = IF starts THEN 0 ELSE x.vsc  OBVIOUS
<1>5. y = [x EXCEPT !.r7 = r7, !.vsync = on, !.vsc = k]
  BY <1>1, <1>2, <1>3, <1>4 DEF Video!crtc_update_r7_match
<1>6. DOMAIN y = Fields /\ y.r7 = r7 /\ y.vsync = on /\ y.vsc = k  BY <1>5 DEF Fields, Flags
<1>7. \A f \in Fields \ R7Fields : y[f] = x[f]  BY <1>5 DEF Fields, Flags, R7Fields
<1>. QED  BY <1>1, <1>2, <1>3, <1>4, <1>6, <1>7 DEF SameBut
(* The frame that begins, and how the rows go on in one that does not end *)
Begun(x, z) ==
    /\ z.newFrame = TRUE /\ z.vadjust = FALSE /\ z.vcc = 0 /\ z.vlc = 0 /\ z.vac \in {0, x.vac}
    /\ z.row = Video!crtc_start_addr(x) /\ z.nextRow = Video!crtc_start_addr(x)
    /\ z.vDisplay \in BOOLEAN /\ (z.vDisplay <=> x.reg[6] # 0)
Onward(x, z) == z.newFrame = x.newFrame /\ z.row = x.row /\ z.nextRow = x.nextRow
Finished(x) ==
    IF x.vadjust THEN x.vac + 1 >= x.reg[5]
    ELSE x.lastRaster /\ IF x.lastFrame THEN x.reg[5] = 0 ELSE (x.vcc + 1) % VMod = 0
RowFields == BeginFields \cup {"vadjust", "vac", "vcc", "vlc"}

LEMMA AdjustLines ==
    ASSUME NEW x, DOMAIN x = Fields, x.vadjust, x.vadjust \in BOOLEAN, NEW y, y = Video!AdjustLine(x)
    PROVE  /\ DOMAIN y = Fields /\ SameBut(x, y, RowFields)
           /\ Finished(x) => Begun(x, y)
           /\ ~Finished(x) => /\ Onward(x, y) /\ y.vadjust = TRUE /\ y.vcc = x.vcc /\ y.vDisplay = x.vDisplay
                              /\ y.vac = x.vac + 1 /\ y.vlc = (x.vac + 1) % RMod
<1>1. CASE Finished(x)
  <2>1. PICK z : z = [x EXCEPT !.vadjust = FALSE, !.vac = 0, !.vcc = 0, !.vlc = 0]  OBVIOUS
  <2>2. y = Video!Restart(z)  BY <1>1, <2>1 DEF Finished, Video!AdjustLine
  <2>3. DOMAIN z = Fields /\ z.vadjust = FALSE /\ z.vac = 0 /\ z.vcc = 0 /\ z.vlc = 0
    BY <2>1 DEF Fields, Flags
  <2>4. \A f \in Fields \ RowFields : z[f] = x[f]  BY <2>1 DEF Fields, Flags, RowFields, BeginFields
  <2>5. z.reg = x.reg  BY <2>4 DEF Fields, RowFields, BeginFields
  <2>6. /\ DOMAIN y = Fields /\ SameBut(z, y, BeginFields)
        /\ y.newFrame = TRUE /\ y.row = Video!crtc_start_addr(z) /\ y.nextRow = Video!crtc_start_addr(z)
        /\ y.vDisplay \in BOOLEAN /\ (y.vDisplay <=> z.reg[6] # 0)
    BY <2>2, <2>3, Restarts, Zenon
  <2>7. y.vadjust = FALSE /\ y.vac = 0 /\ y.vcc = 0 /\ y.vlc = 0
    BY <2>3, <2>6 DEF SameBut, Fields, Flags, BeginFields
  <2>8. \A f \in Fields \ RowFields : y[f] = x[f]  BY <2>3, <2>4, <2>6 DEF SameBut, RowFields
  <2>9. Video!crtc_start_addr(z) = Video!crtc_start_addr(x)  BY <2>5 DEF Video!crtc_start_addr
  <2>. QED  BY <1>1, <2>5, <2>6, <2>7, <2>8, <2>9 DEF SameBut, Begun
<1>2. CASE ~Finished(x)
  <2>1. PICK a : a = x.vac + 1  OBVIOUS
  <2>2. PICK b : b = a % RMod  OBVIOUS
  <2>3. y = [x EXCEPT !.vac = a, !.vlc = b]
    <3>1. y = [x EXCEPT !.vac = @ + 1, !.vlc = (x.vac + 1) % RMod]  BY <1>2 DEF Finished, Video!AdjustLine
    <3>. QED  BY <3>1, <2>1, <2>2, Zenon
  <2>4. DOMAIN y = Fields /\ y.vac = a /\ y.vlc = b  BY <2>3 DEF Fields, Flags
  <2>5. \A f \in Fields \ {"vac", "vlc"} : y[f] = x[f]  BY <2>3 DEF Fields, Flags
  <2>6. \A f \in {"newFrame", "row", "nextRow", "vadjust", "vcc", "vDisplay"} : y[f] = x[f]
    BY <2>5 DEF Fields, Flags
  <2>7. SameBut(x, y, RowFields)  BY <2>4, <2>5 DEF SameBut, RowFields
  <2>. QED  BY <1>2, <2>1, <2>2, <2>4, <2>6, <2>7 DEF Onward
<1>. QED  BY <1>1, <1>2

LEMMA RowsEnd ==
    ASSUME NEW x, DOMAIN x = Fields, ~x.vadjust, x.vadjust \in BOOLEAN, x.lastRaster, x.vDisplay \in BOOLEAN,
           NEW y, y = Video!RowEnds(x)
    PROVE  /\ DOMAIN y = Fields /\ SameBut(x, y, RowFields)
           /\ Finished(x) => Begun(x, y)
           /\ ~Finished(x) => /\ Onward(x, y) /\ y.vlc = 0
                              /\ x.lastFrame => /\ y.vadjust = TRUE /\ y.vac = 0 /\ y.vcc = x.vcc
                                                /\ y.vDisplay = x.vDisplay
                              /\ ~x.lastFrame => /\ y.vadjust = FALSE /\ y.vac = x.vac
                                                 /\ y.vcc = (x.vcc + 1) % VMod /\ y.vDisplay \in BOOLEAN
                                                 /\ y.vDisplay <=> x.vDisplay /\ (x.vcc + 1) % VMod # x.reg[6]
<1>0. PICK next : next = (x.vcc + 1) % VMod  OBVIOUS
<1>d. PICK z : z = [x EXCEPT !.vlc = 0]  OBVIOUS
<1>e. /\ y = IF x.lastFrame
             THEN IF x.reg[5] # 0 THEN [z EXCEPT !.vadjust = TRUE, !.vac = 0] ELSE Video!Restart([z EXCEPT !.vcc = 0])
             ELSE IF next = 0 THEN Video!Restart([z EXCEPT !.vcc = 0])
             ELSE [z EXCEPT !.vcc = next, !.vDisplay = @ /\ next # x.reg[6]]
  BY <1>0, <1>d DEF Video!RowEnds
<1>f. DOMAIN z = Fields /\ z.vlc = 0 /\ \A f \in Fields \ {"vlc"} : z[f] = x[f]  BY <1>d DEF Fields, Flags
<1>1. CASE Finished(x)
  <2>1. PICK w : w = [z EXCEPT !.vcc = 0]  OBVIOUS
  <2>2. y = Video!Restart(w)  BY <1>1, <2>1, <1>0, <1>e DEF Finished
  <2>3. DOMAIN w = Fields /\ w.vcc = 0 /\ \A f \in Fields \ {"vcc"} : w[f] = z[f]
    BY <2>1, <1>f DEF Fields, Flags
  <2>4. w.vadjust = FALSE /\ w.vac = x.vac /\ w.vlc = 0 /\ w.reg = x.reg
    BY <2>3, <1>f DEF Fields, Flags
  <2>5. \A f \in Fields \ RowFields : w[f] = x[f]  BY <2>3, <1>f DEF RowFields
  <2>6. /\ DOMAIN y = Fields /\ SameBut(w, y, BeginFields)
        /\ y.newFrame = TRUE /\ y.row = Video!crtc_start_addr(w) /\ y.nextRow = Video!crtc_start_addr(w)
        /\ y.vDisplay \in BOOLEAN /\ (y.vDisplay <=> w.reg[6] # 0)
    BY <2>2, <2>3, Restarts, Zenon
  <2>7. y.vadjust = FALSE /\ y.vac = x.vac /\ y.vcc = 0 /\ y.vlc = 0
    BY <2>3, <2>4, <2>6 DEF SameBut, Fields, Flags, BeginFields
  <2>8. \A f \in Fields \ RowFields : y[f] = x[f]  BY <2>3, <2>5, <2>6 DEF SameBut, RowFields
  <2>9. Video!crtc_start_addr(w) = Video!crtc_start_addr(x)  BY <2>4 DEF Video!crtc_start_addr
  <2>. QED  BY <1>1, <2>4, <2>6, <2>7, <2>8, <2>9 DEF SameBut, Begun
<1>2. CASE ~Finished(x) /\ x.lastFrame
  <2>1. y = [z EXCEPT !.vadjust = TRUE, !.vac = 0]  BY <1>2, <1>e DEF Finished
  <2>2. DOMAIN y = Fields /\ y.vadjust = TRUE /\ y.vac = 0  BY <2>1, <1>f DEF Fields, Flags
  <2>3. \A f \in Fields \ {"vadjust", "vac"} : y[f] = z[f]  BY <2>1, <1>f DEF Fields, Flags
  <2>4. /\ y.vlc = 0
        /\ \A f \in {"newFrame", "row", "nextRow", "vcc", "vDisplay"} : y[f] = x[f]
    BY <2>3, <1>f DEF Fields, Flags
  <2>5. SameBut(x, y, RowFields)  BY <2>2, <2>3, <1>f DEF SameBut, RowFields
  <2>. QED  BY <1>2, <2>2, <2>4, <2>5 DEF Onward
<1>3. CASE ~Finished(x) /\ ~x.lastFrame
  <2>0. PICK on \in BOOLEAN : on <=> x.vDisplay /\ next # x.reg[6]  OBVIOUS
  <2>v. z.vDisplay = x.vDisplay  BY <1>f DEF Fields, Flags
  <2>1. y = [z EXCEPT !.vcc = next, !.vDisplay = on]
    <3>1. y = [z EXCEPT !.vcc = next, !.vDisplay = @ /\ next # x.reg[6]]  BY <1>3, <1>0, <1>e DEF Finished
    <3>. QED  BY <3>1, <2>0, <2>v
  <2>2. DOMAIN y = Fields /\ y.vcc = next /\ y.vDisplay = on  BY <2>1, <1>f DEF Fields, Flags
  <2>3. \A f \in Fields \ {"vcc", "vDisplay"} : y[f] = z[f]  BY <2>1, <1>f DEF Fields, Flags
  <2>4. /\ y.vlc = 0 /\ y.vadjust = x.vadjust
        /\ \A f \in {"newFrame", "row", "nextRow", "vac"} : y[f] = x[f]
    BY <2>3, <1>f DEF Fields, Flags
  <2>5. SameBut(x, y, RowFields)  BY <2>2, <2>3, <1>f DEF SameBut, RowFields, BeginFields
  <2>6. y.vadjust = FALSE  BY <2>4
  <2>. QED  BY <1>0, <1>3, <2>0, <2>2, <2>4, <2>5, <2>6 DEF Onward
<1>. QED  BY <1>1, <1>2, <1>3
Moved(x, z) ==
    /\ x.vadjust => /\ z.vadjust = TRUE /\ z.vac = x.vac + 1 /\ z.vlc = (x.vac + 1) % RMod
                    /\ z.vcc = x.vcc /\ z.vDisplay = x.vDisplay
    /\ ~x.vadjust /\ x.lastRaster /\ x.lastFrame =>
           /\ z.vadjust = TRUE /\ z.vac = 0 /\ z.vlc = 0 /\ z.vcc = x.vcc /\ z.vDisplay = x.vDisplay
    /\ ~x.vadjust /\ x.lastRaster /\ ~x.lastFrame =>
           /\ z.vadjust = FALSE /\ z.vac = x.vac /\ z.vlc = 0 /\ z.vcc = (x.vcc + 1) % VMod
           /\ z.vDisplay \in BOOLEAN /\ (z.vDisplay <=> x.vDisplay /\ (x.vcc + 1) % VMod # x.reg[6])
    /\ ~x.vadjust /\ ~x.lastRaster =>
           /\ z.vadjust = FALSE /\ z.vac = x.vac /\ z.vlc = (x.vlc + 1) % RMod
           /\ z.vcc = x.vcc /\ z.vDisplay = x.vDisplay
Bools(x) == \A f \in Flags : x[f] \in BOOLEAN

LEMMA RowSteps ==
    ASSUME NEW x, DOMAIN x = Fields, Bools(x), NEW y, y = Video!RowStep(x)
    PROVE  /\ DOMAIN y = Fields /\ SameBut(x, y, RowFields)
           /\ Finished(x) => Begun(x, y)
           /\ ~Finished(x) => Onward(x, y) /\ Moved(x, y)
<1>0. x.vadjust \in BOOLEAN /\ x.lastRaster \in BOOLEAN /\ x.lastFrame \in BOOLEAN /\ x.vDisplay \in BOOLEAN
  BY DEF Bools, Flags
<1>1. CASE x.vadjust
  <2>1. y = Video!AdjustLine(x)  BY <1>1 DEF Video!RowStep
  <2>2. /\ DOMAIN y = Fields /\ SameBut(x, y, RowFields)
        /\ Finished(x) => Begun(x, y)
        /\ ~Finished(x) => /\ Onward(x, y) /\ y.vadjust = TRUE /\ y.vcc = x.vcc /\ y.vDisplay = x.vDisplay
                           /\ y.vac = x.vac + 1 /\ y.vlc = (x.vac + 1) % RMod
    BY <1>0, <1>1, <2>1, AdjustLines, Zenon
  <2>. QED  BY <1>1, <2>2, Zenon DEF Moved
<1>2. CASE ~x.vadjust /\ x.lastRaster
  <2>1. y = Video!RowEnds(x)  BY <1>2 DEF Video!RowStep
  <2>2. /\ DOMAIN y = Fields /\ SameBut(x, y, RowFields)
        /\ Finished(x) => Begun(x, y)
        /\ ~Finished(x) => /\ Onward(x, y) /\ y.vlc = 0
                           /\ x.lastFrame => /\ y.vadjust = TRUE /\ y.vac = 0 /\ y.vcc = x.vcc
                                             /\ y.vDisplay = x.vDisplay
                           /\ ~x.lastFrame => /\ y.vadjust = FALSE /\ y.vac = x.vac
                                              /\ y.vcc = (x.vcc + 1) % VMod /\ y.vDisplay \in BOOLEAN
                                              /\ y.vDisplay <=> x.vDisplay /\ (x.vcc + 1) % VMod # x.reg[6]
    BY <1>0, <1>2, <2>1, RowsEnd, Zenon
  <2>. QED  BY <1>2, <2>2, Zenon DEF Moved
<1>3. CASE ~x.vadjust /\ ~x.lastRaster
  <2>1. PICK v : v = (x.vlc + 1) % RMod  OBVIOUS
  <2>2. y = [x EXCEPT !.vlc = v]  BY <1>3, <2>1 DEF Video!RowStep
  <2>3. DOMAIN y = Fields /\ y.vlc = v /\ \A f \in Fields \ {"vlc"} : y[f] = x[f]  BY <2>2 DEF Fields
  <2>4. /\ y.vadjust = x.vadjust /\ y.vac = x.vac /\ y.vcc = x.vcc /\ y.vDisplay = x.vDisplay
        /\ Onward(x, y)
    BY <2>3 DEF Fields, Flags, Onward
  <2>5. SameBut(x, y, RowFields)  BY <2>3 DEF SameBut, RowFields
  <2>6. ~Finished(x)  BY <1>3 DEF Finished
  <2>7. y.vadjust = FALSE  BY <2>4, <1>3, <1>0
  <2>. QED  BY <1>3, <2>1, <2>3, <2>4, <2>5, <2>6, <2>7 DEF Moved
<1>. QED  BY <1>1, <1>2, <1>3

Rereads(x) == x.type = 1 /\ x.vcc = 0 /\ ~(x.reg[4] = 0 /\ x.reg[9] = 0)
LEMMA RereadSteps ==
    ASSUME NEW x, DOMAIN x = Fields, NEW y, y = Video!Reread(x)
    PROVE  /\ DOMAIN y = Fields /\ SameBut(x, y, {"row", "nextRow"})
           /\ y.nextRow = IF Rereads(x) THEN Video!crtc_start_addr(x) ELSE x.nextRow
<1>1. PICK a : a = Video!crtc_start_addr(x)  OBVIOUS
<1>2. CASE Rereads(x)
  <2>1. y = [x EXCEPT !.row = a, !.nextRow = a]  BY <1>1, <1>2 DEF Video!Reread, Rereads
  <2>2. DOMAIN y = Fields /\ y.nextRow = a /\ \A f \in Fields \ {"row", "nextRow"} : y[f] = x[f]
    BY <2>1 DEF Fields
  <2>. QED  BY <1>1, <1>2, <2>2 DEF SameBut
<1>3. CASE ~Rereads(x)
  <2>1. y = x  BY <1>3 DEF Video!Reread, Rereads
  <2>. QED  BY <1>3, <2>1 DEF SameBut
<1>. QED  BY <1>2, <1>3
(* The line that begins: counters and address, vertical pulse, comparators *)
LiveV(x) == x.vsync /\ x.vsc + 1 < Video!Vsw(x)
StartsV(x, y) == y.vcc = x.reg[7] /\ ~x.r7 /\ x.reg[0] >= MinVsyncHend
KeptByLine == {"reg", "type", "hsync", "hsc", "latched", "latch"}
RowOf(x, y) ==
    /\ Finished(x) => /\ y.newFrame = TRUE /\ y.vadjust = FALSE /\ y.vcc = 0 /\ y.vlc = 0 /\ y.vac \in {0, x.vac}
                      /\ y.vDisplay \in BOOLEAN /\ (y.vDisplay <=> x.reg[6] # 0)
                      /\ y.row = Video!crtc_start_addr(x)
    /\ ~Finished(x) => /\ y.newFrame = x.newFrame /\ Moved(x, y)
                       /\ y.row = IF Rereads(y) THEN Video!crtc_start_addr(x) ELSE x.nextRow
PulseV(x, y) ==
    /\ y.r7 \in BOOLEAN /\ y.vsync \in BOOLEAN
    /\ y.r7 <=> y.vcc = x.reg[7]
    /\ y.vsync <=> LiveV(x) \/ StartsV(x, y)
    /\ y.vsc = IF StartsV(x, y) /\ ~LiveV(x) THEN 0 ELSE IF x.vsync THEN x.vsc + 1 ELSE x.vsc
Latched(y) ==
    /\ y.lastRaster \in BOOLEAN /\ y.lastFrame \in BOOLEAN
    /\ y.lastRaster <=> y.vlc = y.reg[9]
    /\ y.lastFrame <=> y.vlc = y.reg[9] /\ y.vcc = y.reg[4]
NewLine(x, y) ==
    /\ DOMAIN y = Fields /\ \A f \in KeptByLine : y[f] = x[f]
    /\ y.newLine = TRUE /\ y.hcc = 0 /\ y.hDisplay \in BOOLEAN /\ (y.hDisplay <=> x.reg[1] # 0)
    /\ RowOf(x, y) /\ y.nextRow = y.row /\ y.ma = y.row
    /\ PulseV(x, y) /\ Latched(y)

LEMMA LineEnds ==
    ASSUME NEW x, DOMAIN x = Fields, Bools(x), NEW y, y = Video!EndOfLine(x)
    PROVE  NewLine(x, y)
<1>1. PICK on \in BOOLEAN : on <=> x.reg[1] # 0  OBVIOUS
<1>2. PICK live \in BOOLEAN : live <=> LiveV(x)  OBVIOUS
<1>3. PICK k : k = IF x.vsync THEN x.vsc + 1 ELSE x.vsc  OBVIOUS
<1>4. PICK p : p = [x EXCEPT !.newLine = TRUE, !.hcc = 0, !.hDisplay = on, !.vsc = k, !.vsync = live]  OBVIOUS
<1>5. PICK ok \in BOOLEAN : ok <=> x.reg[0] >= MinVsyncHend  OBVIOUS
<1>6. PICK q : q = Video!RowStep(p)  OBVIOUS
<1>7. PICK r : r = Video!Reread(q)  OBVIOUS
<1>8. PICK s : s = [r EXCEPT !.row = r.nextRow, !.ma = r.nextRow]  OBVIOUS
<1>9. PICK t : t = Video!crtc_latch_line_state(s)  OBVIOUS
<1>10. y = Video!crtc_update_r7_match(t, ok)
  <2>0. x.vsync \in BOOLEAN /\ x.hDisplay \in BOOLEAN  BY DEF Bools, Flags
  <2>1. p = Video!LineOver(x)  BY <1>1, <1>2, <1>3, <1>4, <2>0 DEF LiveV, Video!LineOver
  <2>2. r = Video!Reread(Video!RowStep(Video!LineOver(x)))  BY <1>6, <1>7, <2>1, Zenon
  <2>3. y = Video!crtc_update_r7_match(Video!crtc_latch_line_state([r EXCEPT !.row = r.nextRow, !.ma = r.nextRow]),
                                 x.reg[0] >= MinVsyncHend)
    BY <2>2, Zenon DEF Video!EndOfLine
  <2>4. (x.reg[0] >= MinVsyncHend) = ok  BY <1>5
  <2>. QED  BY <1>8, <1>9, <2>3, <2>4
<1>11. /\ DOMAIN p = Fields /\ p.newLine = TRUE /\ p.hcc = 0 /\ p.hDisplay = on /\ p.vsc = k /\ p.vsync = live
       /\ \A f \in Fields \ {"newLine", "hcc", "hDisplay", "vsc", "vsync"} : p[f] = x[f]
  <2>1. DOMAIN p = Fields /\ p.newLine = TRUE /\ p.hcc = 0 /\ p.hDisplay = on /\ p.vsc = k /\ p.vsync = live
    BY <1>4 DEF Fields, Flags
  <2>2. \A f \in Fields \ {"newLine", "hcc", "hDisplay", "vsc", "vsync"} : p[f] = x[f]
    BY <1>4 DEF Fields, Flags
  <2>. QED  BY <2>1, <2>2
<1>12. Bools(p)
  <2>. SUFFICES ASSUME NEW f \in Flags PROVE p[f] \in BOOLEAN  BY DEF Bools
  <2>1. CASE f \in {"newLine", "hDisplay", "vsync"}  BY <2>1, <1>11
  <2>2. CASE f \notin {"newLine", "hDisplay", "vsync"}
    <3>1. f \in Fields \ {"newLine", "hcc", "hDisplay", "vsc", "vsync"}  BY <2>2 DEF Fields, Flags
    <3>. QED  BY <3>1, <1>11 DEF Bools
  <2>. QED  BY <2>1, <2>2
<1>13. /\ \A f \in KeptByLine : p[f] = x[f]
       /\ p.r7 = x.r7 /\ p.newFrame = x.newFrame /\ p.row = x.row /\ p.nextRow = x.nextRow
       /\ p.vadjust = x.vadjust /\ p.vac = x.vac /\ p.vcc = x.vcc /\ p.vlc = x.vlc
       /\ p.lastRaster = x.lastRaster /\ p.lastFrame = x.lastFrame /\ p.vDisplay = x.vDisplay /\ p.reg = x.reg
  <2>1. KeptByLine \cup {"r7", "newFrame", "row", "nextRow", "vadjust", "vac", "vcc", "vlc", "lastRaster",
                         "lastFrame", "vDisplay"}
        \subseteq Fields \ {"newLine", "hcc", "hDisplay", "vsc", "vsync"}
    BY DEF KeptByLine, Fields, Flags
  <2>2. "reg" \in KeptByLine  BY DEF KeptByLine
  <2>. QED  BY <2>1, <2>2, <1>11
<1>14. /\ DOMAIN q = Fields /\ SameBut(p, q, RowFields)
       /\ Finished(p) => Begun(p, q)
       /\ ~Finished(p) => Onward(p, q) /\ Moved(p, q)
  BY <1>6, <1>11, <1>12, RowSteps, Zenon
<1>15. /\ DOMAIN r = Fields /\ SameBut(q, r, {"row", "nextRow"})
       /\ r.nextRow = IF Rereads(q) THEN Video!crtc_start_addr(q) ELSE q.nextRow
  BY <1>7, <1>14, RereadSteps, Zenon
<1>16. /\ DOMAIN s = Fields /\ s.row = r.nextRow /\ s.ma = r.nextRow
       /\ \A f \in Fields \ {"row", "ma"} : s[f] = r[f]
  BY <1>8, <1>15 DEF Fields
<1>17. /\ DOMAIN t = Fields /\ SameBut(s, t, LatchFields)
       /\ t.lastRaster \in BOOLEAN /\ t.lastFrame \in BOOLEAN
       /\ t.lastRaster <=> s.vlc = s.reg[9]
       /\ t.lastFrame <=> s.vlc = s.reg[9] /\ s.vcc = s.reg[4]
  BY <1>9, <1>16, Latches, Zenon
(* what only some of the steps touch *)
<1>18. /\ q.vsync = live /\ q.vsc = k /\ q.r7 = x.r7 /\ q.hcc = 0 /\ q.newLine = TRUE /\ q.hDisplay = on
       /\ \A f \in KeptByLine : q[f] = x[f]
  <2>1. KeptByLine \cup {"vsync", "vsc", "r7", "hcc", "newLine", "hDisplay"} \subseteq Fields \ RowFields
    BY DEF KeptByLine, Fields, Flags, RowFields, BeginFields
  <2>2. \A f \in Fields \ RowFields : q[f] = p[f]  BY <1>11, <1>14 DEF SameBut
  <2>. QED  BY <2>1, <2>2, <1>11, <1>13
<1>19. \A f \in Fields \ {"row", "nextRow", "ma", "lastRaster", "lastFrame"} : t[f] = q[f]
  BY <1>14, <1>15, <1>16, <1>17 DEF SameBut, LatchFields
<1>20. t.row = r.nextRow /\ t.ma = r.nextRow /\ t.nextRow = r.nextRow
  BY <1>16, <1>17 DEF SameBut, LatchFields, Fields, Flags
<1>21. t.vsync = live  BY <1>18, <1>19 DEF Fields, Flags
<1>22. /\ DOMAIN y = Fields /\ SameBut(t, y, R7Fields)
       /\ y.r7 \in BOOLEAN /\ y.vsync \in BOOLEAN
       /\ y.r7 <=> t.vcc = t.reg[7]
       /\ y.vsync <=> (t.vsync \/ (t.vcc = t.reg[7] /\ ~t.r7 /\ ok))
       /\ y.vsc = IF t.vcc = t.reg[7] /\ ~t.r7 /\ ok /\ ~t.vsync THEN 0 ELSE t.vsc
  BY <1>10, <1>17, <1>21, Matches, Zenon
<1>. DEFINE Plain == Fields \ {"row", "nextRow", "ma", "lastRaster", "lastFrame", "r7", "vsync", "vsc"}
<1>23. \A f \in Plain : y[f] = q[f]  BY <1>17, <1>19, <1>22 DEF SameBut, R7Fields
<1>24. KeptByLine \cup {"newLine", "hcc", "hDisplay", "newFrame", "vadjust", "vcc", "vlc", "vac", "vDisplay"}
       \subseteq Plain
  BY DEF KeptByLine, Fields, Flags
<1>. HIDE DEF Plain
<1>25. /\ \A f \in KeptByLine : y[f] = x[f]
       /\ y.newLine = TRUE /\ y.hcc = 0 /\ y.hDisplay = on
  BY <1>18, <1>23, <1>24
<1>26. y.newFrame = q.newFrame /\ y.vadjust = q.vadjust /\ y.vcc = q.vcc /\ y.vlc = q.vlc /\ y.vac = q.vac
       /\ y.vDisplay = q.vDisplay
  BY <1>23, <1>24
<1>27. y.reg = x.reg /\ y.type = x.type /\ q.reg = x.reg /\ q.type = x.type
  BY <1>18, <1>25 DEF KeptByLine
<1>28. t.vcc = y.vcc /\ t.reg = x.reg /\ t.r7 = x.r7 /\ t.vsc = k
  BY <1>18, <1>19, <1>26, <1>27 DEF Fields, Flags
<1>29. y.row = r.nextRow /\ y.ma = y.row /\ y.nextRow = y.row /\ y.lastRaster = t.lastRaster /\ y.lastFrame = t.lastFrame
  BY <1>17, <1>20, <1>22 DEF SameBut, R7Fields, Fields, Flags
<1>30. s.vlc = y.vlc /\ s.vcc = y.vcc /\ s.reg = y.reg
  BY <1>15, <1>16, <1>26, <1>27 DEF SameBut, Fields, Flags
<1>31. PulseV(x, y)
  <2>1. StartsV(x, y) <=> t.vcc = t.reg[7] /\ ~t.r7 /\ ok  BY <1>5, <1>28 DEF StartsV
  <2>. QED  BY <1>2, <1>3, <1>21, <1>22, <1>28, <2>1 DEF PulseV
<1>32. Latched(y)  BY <1>17, <1>29, <1>30 DEF Latched
<1>33. (Finished(p) <=> Finished(x)) /\ Video!crtc_start_addr(p) = Video!crtc_start_addr(x)
       /\ Video!crtc_start_addr(q) = Video!crtc_start_addr(x) /\ (Rereads(q) <=> Rereads(y))
  BY <1>13, <1>26, <1>27 DEF Finished, Video!crtc_start_addr, Rereads
<1>34. RowOf(x, y)
  <2>1. CASE Finished(x)
    <3>1. Begun(p, q)  BY <1>14, <1>33, <2>1
    <3>2. q.nextRow = Video!crtc_start_addr(x)  BY <3>1, <1>33 DEF Begun
    <3>3. y.row = Video!crtc_start_addr(x)  BY <1>15, <1>29, <1>33, <3>2
    <3>. QED  BY <2>1, <3>1, <3>3, <1>13, <1>26 DEF RowOf, Begun
  <2>2. CASE ~Finished(x)
    <3>1. Onward(p, q) /\ Moved(p, q)  BY <1>14, <1>33, <2>2
    <3>2. Moved(x, y)  BY <3>1, <1>13, <1>26 DEF Moved
    <3>3. y.row = IF Rereads(y) THEN Video!crtc_start_addr(x) ELSE x.nextRow
      BY <1>13, <1>15, <1>29, <1>33, <3>1 DEF Onward
    <3>4. y.newFrame = x.newFrame  BY <3>1, <1>13, <1>26 DEF Onward
    <3>. QED  BY <2>2, <3>2, <3>3, <3>4 DEF RowOf
  <2>. QED  BY <2>1, <2>2
<1>. QED  BY <1>1, <1>22, <1>25, <1>29, <1>31, <1>32, <1>34 DEF NewLine
(* A character clock: within a line, and at its end *)
Cap(x, eol) == IF x.lastRaster /\ ((x.hcc + 1) % HMod = x.reg[1] \/ (eol /\ x.reg[1] = 0))
               THEN IF eol /\ x.reg[1] = 0 THEN x.row ELSE (x.ma + 1) % MaMod
               ELSE x.nextRow
KeptAlong == {"vcc", "vlc", "vsc", "vac", "vadjust", "row", "vsync", "vDisplay", "lastRaster", "lastFrame", "r7"}
Along(x, y) ==
    /\ y.hcc = (x.hcc + 1) % HMod /\ y.ma = (x.ma + 1) % MaMod /\ y.newFrame = FALSE
    /\ y.nextRow = Cap(x, FALSE)
    /\ y.hDisplay \in BOOLEAN /\ (y.hDisplay <=> x.hDisplay /\ (x.hcc + 1) % HMod # x.reg[1])
    /\ \A f \in KeptAlong : y[f] = x[f]
RowTo(x, y) ==
    /\ Finished(x) => /\ y.newFrame = TRUE /\ y.vadjust = FALSE /\ y.vcc = 0 /\ y.vlc = 0 /\ y.vac \in {0, x.vac}
                      /\ y.vDisplay \in BOOLEAN /\ (y.vDisplay <=> x.reg[6] # 0)
                      /\ y.row = Video!crtc_start_addr(x)
    /\ ~Finished(x) => /\ y.newFrame = FALSE /\ Moved(x, y)
                       /\ y.row = IF Rereads(y) THEN Video!crtc_start_addr(x) ELSE Cap(x, TRUE)
Over(x, y) ==
    /\ y.hcc = 0 /\ y.hDisplay \in BOOLEAN /\ (y.hDisplay <=> x.reg[1] # 0)
    /\ RowTo(x, y) /\ y.nextRow = y.row /\ y.ma = y.row
    /\ PulseV(x, y) /\ Latched(y)
Ticked(x, y) ==
    /\ DOMAIN y = Fields /\ y.reg = x.reg /\ y.type = x.type /\ Bools(y) /\ Pulse(x, y)
    /\ x.hcc # x.reg[0] => Along(x, y)
    /\ x.hcc = x.reg[0] => Over(x, y)

LEMMA PulseBools ==
    ASSUME NEW x, Bools(x), NEW y, Pulse(x, y)
    PROVE  y.hsync \in BOOLEAN /\ y.latch \in BOOLEAN /\ y.latched \in BOOLEAN
<1>1. x.hsync \in BOOLEAN /\ x.latched \in BOOLEAN  BY DEF Bools, Flags
<1>2. PICK starts \in BOOLEAN : starts <=> Video!Hsw(x) # 0 /\ ~x.hsync /\ (x.hcc + 1) % HMod = x.reg[2]  OBVIOUS
<1>3. PICK k : k = IF starts THEN 0 ELSE x.hsc  OBVIOUS
<1>4. PICK ends \in BOOLEAN : ends <=> k = Video!Hsw(x)  OBVIOUS
<1>5. PICK was \in BOOLEAN : was <=> ~starts /\ x.latched  OBVIOUS
<1>6. PICK clock : clock = IF Video!Hsw(x) < HswMod THEN (k + 1) % HswMod ELSE k + 1  OBVIOUS
<1>7. PICK takes \in BOOLEAN : takes <=> ~was /\ (ends \/ clock = Cutoff)  OBVIOUS
<1>8. CASE ~x.hsync /\ ~starts
  <2>1. y.hsync = FALSE /\ y.latched = x.latched /\ y.latch = FALSE  BY <1>2, <1>8 DEF Pulse
  <2>. QED  BY <1>1, <2>1
<1>9. CASE x.hsync \/ starts
  <2>1. y.hsync = ~ends /\ y.latch = takes /\ y.latched = (was \/ takes)
    BY <1>1, <1>2, <1>3, <1>4, <1>5, <1>6, <1>7, <1>9 DEF Pulse
  <2>. QED  BY <2>1
<1>. QED  BY <1>8, <1>9

LEMMA Ticks ==
    ASSUME NEW x, CrtcOk(x), NEW y, y = Video!crtc_tick(x)
    PROVE  Ticked(x, y)
<1>0. DOMAIN x = Fields /\ Bools(x)  BY DEF CrtcOk, Bools
<1>1. PICK c0 : c0 = Video!Counted(x)  OBVIOUS
<1>2. PICK p : p = Video!HsyncStep(c0)  OBVIOUS
<1>3. PICK eol \in BOOLEAN : eol <=> x.hcc = x.reg[0]  OBVIOUS
<1>4. PICK q : q = Video!Captured(p, eol)  OBVIOUS
<1>5. y = IF eol THEN Video!EndOfLine(q)
          ELSE IF q.hcc = q.reg[1] THEN [q EXCEPT !.hDisplay = FALSE] ELSE q
  <2>1. eol = (x.hcc = x.reg[0])  BY <1>3
  <2>. QED  BY <1>1, <1>2, <1>4, <2>1, Zenon DEF Video!crtc_tick
<1>6. /\ SameBut(x, c0, CountFields)
      /\ c0.hcc = (x.hcc + 1) % HMod /\ c0.ma = (x.ma + 1) % MaMod
      /\ c0.newLine = FALSE /\ c0.newFrame = FALSE /\ c0.latch = FALSE
  BY <1>1, Counts, Zenon
<1>7. SameBut(c0, p, PulseFields) /\ Pulse(x, p)  BY <1>1, <1>2, Pulses, Zenon
<1>8. DOMAIN p = Fields  BY <1>0, <1>6, <1>7 DEF SameBut
<1>9. /\ DOMAIN q = Fields /\ SameBut(p, q, {"nextRow"})
      /\ q.nextRow = IF p.lastRaster /\ (p.hcc = p.reg[1] \/ (eol /\ p.reg[1] = 0))
                     THEN IF eol /\ p.reg[1] = 0 THEN p.row ELSE p.ma
                     ELSE p.nextRow
  BY <1>4, <1>8, Captures, Zenon
<1>10. \A f \in Fields \ (CountFields \cup PulseFields) : p[f] = x[f]
  BY <1>0, <1>6, <1>7 DEF SameBut
<1>11. KeptAlong \cup {"reg", "type", "nextRow", "hDisplay", "lastRaster", "row"}
       \subseteq Fields \ (CountFields \cup PulseFields)
  BY DEF KeptAlong, Fields, Flags, CountFields, PulseFields
<1>12. /\ \A f \in KeptAlong : p[f] = x[f]
       /\ p.reg = x.reg /\ p.type = x.type /\ p.nextRow = x.nextRow /\ p.hDisplay = x.hDisplay
       /\ p.lastRaster = x.lastRaster /\ p.row = x.row
  BY <1>10, <1>11
<1>13. p.hcc = (x.hcc + 1) % HMod /\ p.ma = (x.ma + 1) % MaMod /\ p.newFrame = FALSE /\ p.newLine = FALSE
  <2>1. \A f \in {"hcc", "ma", "newFrame", "newLine"} : f \in Fields \ PulseFields
    BY DEF Fields, Flags, PulseFields
  <2>2. DOMAIN c0 = Fields  BY <1>0, <1>6 DEF SameBut
  <2>3. \A f \in {"hcc", "ma", "newFrame", "newLine"} : p[f] = c0[f]  BY <1>7, <2>1, <2>2 DEF SameBut
  <2>. QED  BY <1>6, <2>3
<1>14. q.nextRow = Cap(x, eol)  BY <1>9, <1>12, <1>13 DEF Cap
<1>15. \A f \in Fields \ {"nextRow"} : q[f] = p[f]  BY <1>8, <1>9 DEF SameBut
<1>16. /\ \A f \in KeptAlong : q[f] = x[f]
       /\ q.reg = x.reg /\ q.type = x.type /\ q.hDisplay = x.hDisplay
       /\ q.hcc = (x.hcc + 1) % HMod /\ q.ma = (x.ma + 1) % MaMod /\ q.newFrame = FALSE
       /\ q.hsync = p.hsync /\ q.hsc = p.hsc /\ q.latched = p.latched /\ q.latch = p.latch
  <2>1. KeptAlong \cup {"reg", "type", "hDisplay", "hcc", "ma", "newFrame", "hsync", "hsc", "latched", "latch"}
        \subseteq Fields \ {"nextRow"}
    BY DEF KeptAlong, Fields, Flags
  <2>2. \A f \in KeptAlong \cup {"reg", "type", "hDisplay", "hcc", "ma", "newFrame", "hsync", "hsc", "latched", "latch"} :
           q[f] = p[f]
    BY <2>1, <1>15
  <2>. QED  BY <2>2, <1>12, <1>13
<1>17. Pulse(x, q)  BY <1>7, <1>16 DEF Pulse
<1>18. Bools(q)
  <2>1. q.hsync \in BOOLEAN /\ q.latch \in BOOLEAN /\ q.latched \in BOOLEAN  BY <1>0, <1>17, PulseBools, Zenon
  <2>2. q.newLine \in BOOLEAN /\ q.newFrame \in BOOLEAN
    <3>1. q.newLine = p.newLine  BY <1>15 DEF Fields, Flags
    <3>. QED  BY <1>13, <1>16, <3>1
  <2>3. \A f \in Flags \ {"hsync", "latch", "latched", "newLine", "newFrame"} : q[f] = x[f]
    <3>1. Flags \ {"hsync", "latch", "latched", "newLine", "newFrame"} \subseteq KeptAlong \cup {"hDisplay"}
      BY DEF Flags, KeptAlong
    <3>. QED  BY <3>1, <1>16
  <2>. QED  BY <1>0, <2>1, <2>2, <2>3 DEF Bools
<1>19. CASE ~eol
  <2>1. x.hDisplay \in BOOLEAN  BY <1>0 DEF Bools, Flags
  <2>2. /\ DOMAIN y = Fields /\ \A f \in Fields \ {"hDisplay"} : y[f] = q[f]
        /\ y.hDisplay \in BOOLEAN /\ (y.hDisplay <=> x.hDisplay /\ (x.hcc + 1) % HMod # x.reg[1])
    <3>1. CASE q.hcc = q.reg[1]
      <4>1. y = [q EXCEPT !.hDisplay = FALSE]  BY <1>5, <1>19, <3>1
      <4>2. DOMAIN y = Fields /\ y.hDisplay = FALSE /\ \A f \in Fields \ {"hDisplay"} : y[f] = q[f]
        BY <4>1, <1>9 DEF Fields, Flags
      <4>. QED  BY <3>1, <4>2, <1>16
    <3>2. CASE q.hcc # q.reg[1]
      <4>1. y = q  BY <1>5, <1>19, <3>2
      <4>. QED  BY <2>1, <3>2, <4>1, <1>9, <1>16
    <3>. QED  BY <3>1, <3>2
  <2>3. KeptAlong \cup {"reg", "type", "hcc", "ma", "newFrame", "nextRow", "hsync", "hsc", "latched", "latch"}
        \subseteq Fields \ {"hDisplay"}
    BY DEF KeptAlong, Fields, Flags
  <2>4. /\ \A f \in KeptAlong : y[f] = x[f]
        /\ y.reg = x.reg /\ y.type = x.type /\ y.hcc = (x.hcc + 1) % HMod /\ y.ma = (x.ma + 1) % MaMod
        /\ y.newFrame = FALSE /\ y.nextRow = q.nextRow
        /\ y.hsync = q.hsync /\ y.hsc = q.hsc /\ y.latched = q.latched /\ y.latch = q.latch
    BY <2>2, <2>3, <1>16
  <2>5. Along(x, y)  BY <1>14, <1>19, <2>2, <2>4 DEF Along, Cap
  <2>6. Pulse(x, y)  BY <1>17, <2>4 DEF Pulse
  <2>7. Bools(y)
    <3>. SUFFICES ASSUME NEW f \in Flags PROVE y[f] \in BOOLEAN  BY DEF Bools
    <3>1. f \in Fields  BY DEF Fields
    <3>. QED  BY <1>18, <2>2, <3>1 DEF Bools
  <2>. QED  BY <1>3, <1>19, <2>2, <2>4, <2>5, <2>6, <2>7 DEF Ticked
<1>20. CASE eol
  <2>1. NewLine(q, y)
    <3>1. y = Video!EndOfLine(q)  BY <1>5, <1>20
    <3>. QED  BY <3>1, <1>9, <1>18, LineEnds, Zenon
  <2>2. /\ DOMAIN y = Fields /\ y.reg = x.reg /\ y.type = x.type
        /\ y.hsync = q.hsync /\ y.hsc = q.hsc /\ y.latched = q.latched /\ y.latch = q.latch
    BY <2>1, <1>16 DEF NewLine, KeptByLine
  <2>3. Pulse(x, y)  BY <1>17, <2>2 DEF Pulse
  <2>4. /\ q.vadjust = x.vadjust /\ q.vac = x.vac /\ q.vcc = x.vcc /\ q.vlc = x.vlc /\ q.vDisplay = x.vDisplay
        /\ q.lastRaster = x.lastRaster /\ q.lastFrame = x.lastFrame /\ q.r7 = x.r7
        /\ q.vsync = x.vsync /\ q.vsc = x.vsc
    BY <1>16 DEF KeptAlong
  <2>5. /\ (Finished(q) <=> Finished(x)) /\ Video!crtc_start_addr(q) = Video!crtc_start_addr(x)
        /\ (LiveV(q) <=> LiveV(x)) /\ (StartsV(q, y) <=> StartsV(x, y))
    BY <1>16, <2>4 DEF Finished, Video!crtc_start_addr, LiveV, Video!Vsw, StartsV
  <2>6. PulseV(x, y)
    <3>1. PulseV(q, y)  BY <2>1 DEF NewLine
    <3>. QED  BY <3>1, <1>16, <2>4, <2>5 DEF PulseV
  <2>7. RowTo(x, y)
    <3>1. RowOf(q, y)  BY <2>1 DEF NewLine
    <3>2. CASE Finished(x)  BY <3>1, <3>2, <1>16, <2>4, <2>5 DEF RowOf, RowTo
    <3>3. CASE ~Finished(x)
      <4>1. y.newFrame = FALSE /\ Moved(q, y) /\ y.row = IF Rereads(y) THEN Video!crtc_start_addr(x) ELSE q.nextRow
        BY <3>1, <3>3, <1>16, <2>5 DEF RowOf
      <4>2. Moved(x, y)  BY <4>1, <1>16, <2>4 DEF Moved
      <4>3. q.nextRow = Cap(x, TRUE)  BY <1>14, <1>20
      <4>. QED  BY <3>3, <4>1, <4>2, <4>3 DEF RowTo
    <3>. QED  BY <3>2, <3>3
  <2>8. y.newLine = TRUE /\ y.hDisplay \in BOOLEAN /\ (y.hDisplay <=> x.reg[1] # 0) /\ y.hcc = 0
        /\ y.nextRow = y.row /\ y.ma = y.row /\ Latched(y)
    BY <2>1, <1>16 DEF NewLine
  <2>9. Over(x, y)  BY <2>6, <2>7, <2>8 DEF Over
  <2>10. Bools(y)
    <3>1. y.hsync \in BOOLEAN /\ y.latch \in BOOLEAN /\ y.latched \in BOOLEAN
      BY <2>2, <1>18 DEF Bools, Flags
    <3>2. y.r7 \in BOOLEAN /\ y.vsync \in BOOLEAN  BY <2>6 DEF PulseV
    <3>3. y.lastRaster \in BOOLEAN /\ y.lastFrame \in BOOLEAN  BY <2>8 DEF Latched
    <3>4. x.vDisplay \in BOOLEAN /\ x.vadjust \in BOOLEAN /\ x.lastRaster \in BOOLEAN /\ x.lastFrame \in BOOLEAN
      BY <1>0 DEF Bools, Flags
    <3>5. y.vDisplay \in BOOLEAN /\ y.vadjust \in BOOLEAN /\ y.newFrame \in BOOLEAN
      <4>1. CASE Finished(x)  BY <4>1, <2>7 DEF RowTo
      <4>2. CASE ~Finished(x)
        <5>1. y.newFrame = FALSE /\ Moved(x, y)  BY <4>2, <2>7 DEF RowTo
        <5>. QED  BY <5>1, <3>4 DEF Moved
      <4>. QED  BY <4>1, <4>2
    <3>6. \A f \in Flags : f \in {"hsync", "latch", "latched", "r7", "vsync", "lastRaster", "lastFrame", "vDisplay",
                                   "vadjust", "newFrame", "newLine", "hDisplay"}
      BY DEF Flags
    <3>. QED  BY <3>1, <3>2, <3>3, <3>5, <3>6, <2>8 DEF Bools
  <2>. QED  BY <1>3, <1>20, <2>2, <2>3, <2>9, <2>10 DEF Ticked
<1>. QED  BY <1>19, <1>20
(* Types: they hold of the controller whatever is done to it *)
LEMMA HswRange ==
    ASSUME NEW x, RegsOk(x.reg)
    PROVE  Video!Hsw(x) \in 0 .. HswMod
<1>1. x.reg[3] \in Nat  BY RegTypes, Zenon DEF Video!Regs
<1>2. x.reg[3] % HswMod \in 0 .. HswMod - 1  BY <1>1, Widths
<1>. QED  BY <1>2, Widths DEF Video!Hsw

LEMMA PulseType ==
    ASSUME NEW x, CrtcOk(x), NEW y, Pulse(x, y)
    PROVE  y.hsc \in 0 .. HswMod
<1>1. x.hsc \in 0 .. HswMod /\ RegsOk(x.reg)  BY DEF CrtcOk
<1>2. Video!Hsw(x) \in 0 .. HswMod  BY <1>1, HswRange
<1>3. PICK w \in 0 .. HswMod : w = Video!Hsw(x)  BY <1>2
<1>4. PICK starts \in BOOLEAN : starts <=> w # 0 /\ ~x.hsync /\ (x.hcc + 1) % HMod = x.reg[2]  OBVIOUS
<1>5. PICK k \in 0 .. HswMod : k = IF starts THEN 0 ELSE x.hsc  BY <1>1, Widths
<1>6. PICK clock : clock = IF w < HswMod THEN (k + 1) % HswMod ELSE k + 1  OBVIOUS
<1>7. y.hsc = x.hsc \/ y.hsc = IF k = w THEN k ELSE clock
  BY <1>3, <1>4, <1>5, <1>6 DEF Pulse
<1>8. k # w => clock \in 0 .. HswMod
  <2>1. (k + 1) % HswMod \in 0 .. HswMod - 1  BY Widths
  <2>. QED  BY <2>1, <1>6, Widths
<1>. QED  BY <1>1, <1>7, <1>8

LEMMA StartAddr ==
    ASSUME NEW x, RegsOk(x.reg)
    PROVE  Video!crtc_start_addr(x) \in Nat
<1>1. x.reg[12] \in Nat  BY RegTypes, Zenon DEF Video!Regs
<1>. QED  BY <1>1, Widths DEF Video!crtc_start_addr

LEMMA TickOk ==
    ASSUME NEW x, CrtcOk(x), NEW y, y = Video!crtc_tick(x)
    PROVE  CrtcOk(y)
<1>1. Ticked(x, y)  BY Ticks
<1>2. /\ RegsOk(x.reg) /\ x.hcc \in 0 .. HMod - 1 /\ x.vcc \in 0 .. VMod - 1 /\ x.vlc \in 0 .. RMod - 1
      /\ x.vac \in Nat /\ x.vsc \in Nat /\ x.ma \in Nat /\ x.row \in Nat /\ x.nextRow \in Nat
      /\ (x.lastRaster <=> x.vlc = x.reg[9]) /\ (x.lastFrame => x.lastRaster)
  BY DEF CrtcOk
<1>3. DOMAIN y = Fields /\ y.reg = x.reg /\ Bools(y) /\ Pulse(x, y)  BY <1>1 DEF Ticked
<1>4. y.hsc \in 0 .. HswMod  BY <1>3, PulseType
<1>5. (x.hcc + 1) % HMod \in 0 .. HMod - 1 /\ (x.ma + 1) % MaMod \in Nat  BY <1>2, Widths
<1>6. Cap(x, TRUE) \in Nat /\ Cap(x, FALSE) \in Nat  BY <1>2, <1>5 DEF Cap
<1>7. CASE x.hcc # x.reg[0]
  <2>1. Along(x, y)  BY <1>1, <1>7 DEF Ticked
  <2>2. /\ y.vcc = x.vcc /\ y.vlc = x.vlc /\ y.vsc = x.vsc /\ y.vac = x.vac /\ y.row = x.row
        /\ y.lastRaster = x.lastRaster /\ y.lastFrame = x.lastFrame
    BY <2>1 DEF Along, KeptAlong
  <2>3. y.hcc = (x.hcc + 1) % HMod /\ y.ma = (x.ma + 1) % MaMod /\ y.nextRow = Cap(x, FALSE)
    BY <2>1 DEF Along
  <2>. QED  BY <1>2, <1>3, <1>4, <1>5, <1>6, <2>2, <2>3 DEF CrtcOk, Bools
<1>8. CASE x.hcc = x.reg[0]
  <2>1. Over(x, y)  BY <1>1, <1>8 DEF Ticked
  <2>2. /\ y.hcc = 0 /\ y.nextRow = y.row /\ y.ma = y.row
        /\ (y.lastRaster <=> y.vlc = y.reg[9]) /\ (y.lastFrame => y.lastRaster)
    BY <2>1 DEF Over, Latched
  <2>3. y.vsc \in Nat
    <3>1. PulseV(x, y)  BY <2>1 DEF Over
    <3>. QED  BY <3>1, <1>2 DEF PulseV
  <2>4. RowTo(x, y) /\ Video!crtc_start_addr(x) \in Nat  BY <2>1, <1>2, StartAddr DEF Over
  <2>5. y.row \in Nat  BY <2>4, <1>6 DEF RowTo
  <2>6. y.vcc \in 0 .. VMod - 1 /\ y.vlc \in 0 .. RMod - 1 /\ y.vac \in Nat
    <3>1. CASE Finished(x)
      <4>1. y.vcc = 0 /\ y.vlc = 0 /\ y.vac \in {0, x.vac}  BY <2>4, <3>1 DEF RowTo
      <4>. QED  BY <4>1, <1>2, Widths
    <3>2. CASE ~Finished(x)
      <4>1. Moved(x, y)  BY <2>4, <3>2 DEF RowTo
      <4>2. /\ y.vcc \in {x.vcc, (x.vcc + 1) % VMod} /\ y.vac \in {0, x.vac, x.vac + 1}
            /\ y.vlc \in {0, (x.vac + 1) % RMod, (x.vlc + 1) % RMod}
        BY <4>1 DEF Moved
      <4>3. (x.vcc + 1) % VMod \in 0 .. VMod - 1 /\ (x.vac + 1) % RMod \in 0 .. RMod - 1
            /\ (x.vlc + 1) % RMod \in 0 .. RMod - 1
        BY <1>2, Widths
      <4>. QED  BY <4>2, <4>3, <1>2, Widths
    <3>. QED  BY <3>1, <3>2
  <2>. QED  BY <1>2, <1>3, <1>4, <2>2, <2>3, <2>5, <2>6, Widths DEF CrtcOk, Bools
<1>. QED  BY <1>7, <1>8
LEMMA MatchOk ==
    ASSUME NEW x, DOMAIN x = Fields, Bools(x), x.vsc \in Nat, NEW ok \in BOOLEAN,
           NEW y, y = Video!crtc_update_r7_match(x, ok)
    PROVE  /\ DOMAIN y = Fields /\ Bools(y) /\ y.vsc \in Nat
           /\ \A f \in Fields \ R7Fields : y[f] = x[f]
<1>1. x.vsync \in BOOLEAN  BY DEF Bools, Flags
<1>2. /\ DOMAIN y = Fields /\ SameBut(x, y, R7Fields)
      /\ y.r7 \in BOOLEAN /\ y.vsync \in BOOLEAN
      /\ y.r7 <=> x.vcc = x.reg[7]
      /\ y.vsync <=> (x.vsync \/ (x.vcc = x.reg[7] /\ ~x.r7 /\ ok))
      /\ y.vsc = IF x.vcc = x.reg[7] /\ ~x.r7 /\ ok /\ ~x.vsync THEN 0 ELSE x.vsc
  <2>1. DOMAIN x = Fields /\ ok \in BOOLEAN /\ y = Video!crtc_update_r7_match(x, ok)  OBVIOUS
  <2>. QED  BY <1>1, <2>1, Matches, Zenon
<1>3. \A f \in Fields \ R7Fields : y[f] = x[f]  BY <1>2 DEF SameBut
<1>4. Bools(y)
  <2>. SUFFICES ASSUME NEW f \in Flags PROVE y[f] \in BOOLEAN  BY DEF Bools
  <2>1. CASE f \in R7Fields  BY <1>2, <2>1 DEF R7Fields, Flags
  <2>2. CASE f \notin R7Fields  BY <1>3, <2>2 DEF Bools, Fields
  <2>. QED  BY <2>1, <2>2
<1>5. y.vsc \in Nat  BY <1>2
<1>. QED  BY <1>2, <1>3, <1>4, <1>5

LEMMA LatchOk ==
    ASSUME NEW x, DOMAIN x = Fields, Bools(x), NEW y, y = Video!crtc_latch_line_state(x)
    PROVE  /\ DOMAIN y = Fields /\ Bools(y) /\ Latched(y)
           /\ \A f \in Fields \ LatchFields : y[f] = x[f]
<1>2. /\ DOMAIN y = Fields /\ SameBut(x, y, LatchFields)
      /\ y.lastRaster \in BOOLEAN /\ y.lastFrame \in BOOLEAN
      /\ y.lastRaster <=> x.vlc = x.reg[9]
      /\ y.lastFrame <=> x.vlc = x.reg[9] /\ x.vcc = x.reg[4]
  BY Latches, Zenon
<1>3. \A f \in Fields \ LatchFields : y[f] = x[f]  BY <1>2 DEF SameBut
<1>4. Bools(y)
  <2>. SUFFICES ASSUME NEW f \in Flags PROVE y[f] \in BOOLEAN  BY DEF Bools
  <2>1. CASE f \in LatchFields  BY <1>2, <2>1 DEF LatchFields
  <2>2. CASE f \notin LatchFields  BY <1>3, <2>2 DEF Bools, Fields
  <2>. QED  BY <2>1, <2>2
<1>5. y.vlc = x.vlc /\ y.vcc = x.vcc /\ y.reg = x.reg  BY <1>3 DEF Fields, Flags, LatchFields
<1>. QED  BY <1>2, <1>3, <1>4, <1>5 DEF Latched

(* The plain fields of a well typed controller *)
Plainly(x) ==
    /\ RegsOk(x.reg)
    /\ x.hcc \in 0 .. HMod - 1 /\ x.vcc \in 0 .. VMod - 1 /\ x.vlc \in 0 .. RMod - 1
    /\ x.vac \in Nat /\ x.vsc \in Nat /\ x.hsc \in 0 .. HswMod
    /\ x.ma \in Nat /\ x.row \in Nat /\ x.nextRow \in Nat

LEMMA OkOf ==
    ASSUME NEW x, DOMAIN x = Fields, Bools(x), Plainly(x), Latched(x)
    PROVE  CrtcOk(x)
BY DEF CrtcOk, Bools, Plainly, Latched

LEMMA WriteOk ==
    ASSUME NEW x, CrtcOk(x), NEW r \in Video!Regs, NEW v, Video!Masked(r, v), NEW y, y = Video!crtc_write(x, r, v)
    PROVE  CrtcOk(y) /\ y.hsync = x.hsync /\ y.latched = x.latched
<1>0. DOMAIN x = Fields /\ Bools(x) /\ Plainly(x) /\ (x.lastRaster <=> x.vlc = x.reg[9]) /\ (x.lastFrame => x.lastRaster)
  BY DEF CrtcOk, Bools, Plainly
<1>1. PICK reg : reg = [x.reg EXCEPT ![r] = v]  OBVIOUS
<1>2. RegsOk(reg) /\ reg[r] = v /\ \A q \in Video!Regs \ {r} : reg[q] = x.reg[q]
  BY <1>0, <1>1 DEF Plainly, RegsOk
<1>3. PICK p : p = [x EXCEPT !.reg = reg]  OBVIOUS
<1>4. DOMAIN p = Fields /\ p.reg = reg /\ \A f \in Fields \ {"reg"} : p[f] = x[f]
  BY <1>0, <1>3 DEF Fields
<1>5. Bools(p)
  <2>. SUFFICES ASSUME NEW f \in Flags PROVE p[f] \in BOOLEAN  BY DEF Bools
  <2>1. f \in Fields \ {"reg"}  BY DEF Flags, Fields
  <2>. QED  BY <2>1, <1>0, <1>4 DEF Bools
<1>6. /\ Plainly(p) /\ p.hsync = x.hsync /\ p.latched = x.latched
      /\ p.lastRaster = x.lastRaster /\ p.lastFrame = x.lastFrame /\ p.vlc = x.vlc /\ p.vcc = x.vcc
      /\ p.vDisplay = x.vDisplay
  <2>1. \A f \in {"hcc", "vcc", "vlc", "vac", "vsc", "hsc", "ma", "row", "nextRow", "hsync", "latched", "lastRaster",
                  "lastFrame", "vDisplay"} : p[f] = x[f]
    BY <1>4 DEF Fields, Flags
  <2>. QED  BY <2>1, <1>0, <1>2, <1>4 DEF Plainly
<1>7. p = [x EXCEPT !.reg[r] = v]  BY <1>1, <1>3
<1>8. y = CASE r = 6 -> [p EXCEPT !.vDisplay = @ /\ p.vcc # v]
            [] r = 9 -> Video!crtc_latch_line_state(p)
            [] r = 4 -> IF v = 0 /\ p.vcc = 0 /\ p.vlc = p.reg[9]
                        THEN [p EXCEPT !.lastRaster = TRUE, !.lastFrame = TRUE] ELSE p
            [] r = 7 -> Video!crtc_update_r7_match(p, p.hcc >= 2)
            [] OTHER -> p
  BY <1>7, Zenon DEF Video!crtc_write
<1>9. r # 9 => p.reg[9] = x.reg[9]  BY <1>2, <1>4 DEF Video!Regs
<1>10. CASE r = 9
  <2>1. y = Video!crtc_latch_line_state(p)  BY <1>8, <1>10
  <2>2. /\ DOMAIN y = Fields /\ Bools(y) /\ Latched(y)
        /\ \A f \in Fields \ LatchFields : y[f] = p[f]
    BY <2>1, <1>4, <1>5, LatchOk, Zenon
  <2>3. \A f \in {"reg", "hcc", "vcc", "vlc", "vac", "vsc", "hsc", "ma", "row", "nextRow", "hsync", "latched"} : y[f] = p[f]
    BY <2>2 DEF Fields, Flags, LatchFields
  <2>4. Plainly(y)  BY <2>3, <1>6 DEF Plainly
  <2>5. CrtcOk(y)  BY <2>2, <2>4, OkOf
  <2>. QED  BY <2>3, <2>5, <1>6
<1>11. CASE r = 7
  <2>1. PICK ok \in BOOLEAN : ok <=> p.hcc >= 2  OBVIOUS
  <2>2. y = Video!crtc_update_r7_match(p, ok)
    <3>1. ok = (p.hcc >= 2)  BY <2>1
    <3>2. y = Video!crtc_update_r7_match(p, p.hcc >= 2)  BY <1>8, <1>11
    <3>. QED  BY <3>1, <3>2, Zenon
  <2>3. p.vsc \in Nat  BY <1>6 DEF Plainly
  <2>4. /\ DOMAIN y = Fields /\ Bools(y) /\ y.vsc \in Nat
        /\ \A f \in Fields \ R7Fields : y[f] = p[f]
    BY <2>2, <2>3, <1>4, <1>5, MatchOk
  <2>5. \A f \in {"reg", "hcc", "vcc", "vlc", "vac", "hsc", "ma", "row", "nextRow", "hsync", "latched", "lastRaster",
                  "lastFrame"} : y[f] = p[f]
    BY <2>4 DEF Fields, Flags, R7Fields
  <2>. QED  BY <1>0, <1>6, <1>9, <1>11, <2>4, <2>5 DEF Plainly, CrtcOk, Bools
<1>12. CASE r = 4 /\ v = 0 /\ p.vcc = 0 /\ p.vlc = p.reg[9]
  <2>1. y = [p EXCEPT !.lastRaster = TRUE, !.lastFrame = TRUE]  BY <1>8, <1>12
  <2>2. DOMAIN y = Fields /\ y.lastRaster = TRUE /\ y.lastFrame = TRUE
        /\ \A f \in Fields \ {"lastRaster", "lastFrame"} : y[f] = p[f]
    BY <2>1, <1>4 DEF Fields, Flags
  <2>3. \A f \in {"reg", "hcc", "vcc", "vlc", "vac", "vsc", "hsc", "ma", "row", "nextRow", "hsync", "latched"} : y[f] = p[f]
    BY <2>2 DEF Fields, Flags
  <2>4. Bools(y)
    <3>. SUFFICES ASSUME NEW f \in Flags PROVE y[f] \in BOOLEAN  BY DEF Bools
    <3>1. f \in Fields  BY DEF Fields
    <3>. QED  BY <3>1, <2>2, <1>5 DEF Bools
  <2>. QED  BY <1>6, <1>12, <2>2, <2>3, <2>4 DEF Plainly, CrtcOk, Bools
<1>13. CASE r = 6
  <2>1. PICK on \in BOOLEAN : on <=> p.vDisplay /\ p.vcc # v  OBVIOUS
  <2>2. p.vDisplay \in BOOLEAN  BY <1>5 DEF Bools, Flags
  <2>3. y = [p EXCEPT !.vDisplay = on]  BY <1>8, <1>13, <2>1, <2>2
  <2>4. DOMAIN y = Fields /\ y.vDisplay = on /\ \A f \in Fields \ {"vDisplay"} : y[f] = p[f]
    BY <2>3, <1>4 DEF Fields, Flags
  <2>5. \A f \in {"reg", "hcc", "vcc", "vlc", "vac", "vsc", "hsc", "ma", "row", "nextRow", "hsync", "latched",
                  "lastRaster", "lastFrame"} : y[f] = p[f]
    BY <2>4 DEF Fields, Flags
  <2>6. Bools(y)
    <3>. SUFFICES ASSUME NEW f \in Flags PROVE y[f] \in BOOLEAN  BY DEF Bools
    <3>1. f \in Fields  BY DEF Fields
    <3>. QED  BY <3>1, <2>4, <1>5 DEF Bools
  <2>. QED  BY <1>0, <1>6, <1>9, <1>13, <2>4, <2>5, <2>6 DEF Plainly, CrtcOk, Bools
<1>14. CASE r \notin {6, 7, 9} /\ ~(r = 4 /\ v = 0 /\ p.vcc = 0 /\ p.vlc = p.reg[9])
  <2>1. y = p  BY <1>8, <1>14
  <2>. QED  BY <1>0, <1>4, <1>5, <1>6, <1>9, <1>14, <2>1 DEF Plainly, CrtcOk, Bools
<1>. QED  BY <1>10, <1>11, <1>12, <1>13, <1>14
RecomputedFields == {"lastRaster", "lastFrame", "r7", "newLine", "newFrame", "latch"}
LEMMA RecomputeOk ==
    ASSUME NEW x, DOMAIN x = Fields, Bools(x), NEW y, y = Video!crtc_recompute_state(x)
    PROVE  /\ DOMAIN y = Fields /\ Bools(y) /\ Latched(y)
           /\ \A f \in Fields \ RecomputedFields : y[f] = x[f]
<1>1. PICK p : p = Video!crtc_latch_line_state(x)  OBVIOUS
<1>2. DOMAIN p = Fields /\ Bools(p) /\ Latched(p) /\ \A f \in Fields \ LatchFields : p[f] = x[f]
  BY <1>1, LatchOk, Zenon
<1>3. PICK r7 \in BOOLEAN : r7 <=> x.vcc = x.reg[7]  OBVIOUS
<1>4. y = [p EXCEPT !.r7 = r7, !.newLine = FALSE, !.newFrame = FALSE, !.latch = FALSE]
  <2>1. r7 = (x.vcc = x.reg[7])  BY <1>3
  <2>. QED  BY <1>1, <2>1, Zenon DEF Video!crtc_recompute_state
<1>5. DOMAIN y = Fields /\ y.r7 = r7 /\ y.newLine = FALSE /\ y.newFrame = FALSE /\ y.latch = FALSE
  BY <1>2, <1>4 DEF Fields, Flags
<1>6. \A f \in Fields \ {"r7", "newLine", "newFrame", "latch"} : y[f] = p[f]  BY <1>2, <1>4 DEF Fields, Flags
<1>7. Bools(y)
  <2>. SUFFICES ASSUME NEW f \in Flags PROVE y[f] \in BOOLEAN  BY DEF Bools
  <2>1. CASE f \in {"r7", "newLine", "newFrame", "latch"}  BY <1>5, <2>1
  <2>2. CASE f \notin {"r7", "newLine", "newFrame", "latch"}  BY <1>2, <1>6, <2>2 DEF Bools, Fields
  <2>. QED  BY <2>1, <2>2
<1>8. \A f \in {"lastRaster", "lastFrame", "vlc", "vcc", "reg"} : y[f] = p[f]  BY <1>6 DEF Fields, Flags
<1>9. Latched(y)  BY <1>2, <1>8 DEF Latched
<1>10. \A f \in Fields \ RecomputedFields : y[f] = x[f]  BY <1>2, <1>6 DEF RecomputedFields, LatchFields
<1>. QED  BY <1>5, <1>7, <1>9, <1>10

V3Fields == {"hsc", "vsc", "nextRow", "ma", "hDisplay", "vDisplay", "latched"}
LEMMA LoadV3Ok ==
    ASSUME NEW x, CrtcOk(x), NEW b \in BOOLEAN, NEW y, y = Video!LoadedV3(x, b)
    PROVE  /\ CrtcOk(y) /\ Latched(y)
           /\ \A f \in {"reg", "type", "hcc", "vcc", "vlc", "vac", "vadjust", "row"} : y[f] = x[f]
           /\ y.ma = (x.row + x.hcc) % MaMod /\ y.nextRow = Video!crtc_restore_next_row(x)
<1>0. DOMAIN x = Fields /\ Bools(x) /\ Plainly(x)  BY DEF CrtcOk, Bools, Plainly
<1>1. PICK s : s = x.hsc % HswMod  OBVIOUS
<1>2. PICK t : t = x.vsc % VswMod  OBVIOUS
<1>3. PICK n : n = Video!crtc_restore_next_row(x)  OBVIOUS
<1>4. PICK a : a = (x.row + x.hcc) % MaMod  OBVIOUS
<1>5. PICK d \in BOOLEAN : d <=> x.reg[1] # 0  OBVIOUS
<1>6. PICK e \in BOOLEAN : e <=> x.reg[6] # 0  OBVIOUS
<1>7. PICK p : p = [x EXCEPT !.hsc = s, !.vsc = t, !.nextRow = n, !.ma = a, !.hDisplay = d, !.vDisplay = e,
                             !.latched = b]  OBVIOUS
<1>8. y = Video!crtc_recompute_state(p)
  <2>1. d = (x.reg[1] # 0) /\ e = (x.reg[6] # 0)  BY <1>5, <1>6
  <2>2. p = [x EXCEPT !.hsc = @ % HswMod, !.vsc = @ % VswMod, !.nextRow = Video!crtc_restore_next_row(x),
                      !.ma = (x.row + x.hcc) % MaMod, !.hDisplay = x.reg[1] # 0, !.vDisplay = x.reg[6] # 0,
                      !.latched = b]
    BY <1>1, <1>2, <1>3, <1>4, <1>7, <2>1
  <2>. QED  BY <2>2, Zenon DEF Video!LoadedV3
<1>9. /\ DOMAIN p = Fields /\ p.hsc = s /\ p.vsc = t /\ p.nextRow = n /\ p.ma = a
      /\ p.hDisplay = d /\ p.vDisplay = e /\ p.latched = b
  BY <1>0, <1>7 DEF Fields, Flags
<1>10. \A f \in Fields \ V3Fields : p[f] = x[f]  BY <1>0, <1>7 DEF Fields, Flags, V3Fields
<1>11. Bools(p)
  <2>. SUFFICES ASSUME NEW f \in Flags PROVE p[f] \in BOOLEAN  BY DEF Bools
  <2>1. CASE f \in V3Fields  BY <1>9, <2>1 DEF V3Fields, Flags
  <2>2. CASE f \notin V3Fields  BY <1>0, <1>10, <2>2 DEF Bools, Fields
  <2>. QED  BY <2>1, <2>2
<1>12. \A f \in {"reg", "type", "hcc", "vcc", "vlc", "vac", "vadjust", "row"} : p[f] = x[f]
  BY <1>10 DEF Fields, Flags, V3Fields
<1>13. s \in 0 .. HswMod - 1 /\ t \in Nat /\ a \in Nat /\ n \in Nat
  <2>1. x.hsc \in Nat /\ x.vsc \in Nat /\ x.row \in Nat /\ x.hcc \in Nat /\ x.reg[1] \in Nat
    BY <1>0, RegTypes, Widths DEF Plainly, Video!Regs
  <2>. QED  BY <1>1, <1>2, <1>3, <1>4, <2>1, Widths DEF Video!crtc_restore_next_row
<1>14. /\ DOMAIN y = Fields /\ Bools(y) /\ Latched(y)
       /\ \A f \in Fields \ RecomputedFields : y[f] = p[f]
  BY <1>8, <1>9, <1>11, RecomputeOk, Zenon
<1>15. \A f \in {"reg", "type", "hcc", "vcc", "vlc", "vac", "vadjust", "row", "hsc", "vsc", "nextRow", "ma"} : y[f] = p[f]
  BY <1>14 DEF Fields, Flags, RecomputedFields
<1>16. Plainly(y)  BY <1>0, <1>9, <1>12, <1>13, <1>15, Widths DEF Plainly
<1>17. CrtcOk(y)  BY <1>14, <1>16, OkOf
<1>. QED  BY <1>3, <1>4, <1>9, <1>12, <1>14, <1>15, <1>17

LEMMA LoadOldOk ==
    ASSUME NEW x, CrtcOk(x), NEW reg, RegsOk(reg), NEW y, y = Video!LoadedOld(x, reg)
    PROVE  CrtcOk(y) /\ y.hsync = x.hsync /\ y.latched = x.latched
<1>0. DOMAIN x = Fields /\ Bools(x) /\ Plainly(x)  BY DEF CrtcOk, Bools, Plainly
<1>1. PICK z : z = [x EXCEPT !.reg = reg]  OBVIOUS
<1>2. DOMAIN z = Fields /\ z.reg = reg /\ \A f \in Fields \ {"reg"} : z[f] = x[f]
  BY <1>0, <1>1 DEF Fields
<1>3. PICK a : a = Video!crtc_start_addr(z)  OBVIOUS
<1>4. a \in Nat  BY <1>2, <1>3, StartAddr
<1>5. PICK d \in BOOLEAN : d <=> z.hcc < reg[1]  OBVIOUS
<1>6. PICK e \in BOOLEAN : e <=> z.vcc < reg[6]  OBVIOUS
<1>7. PICK p : p = [z EXCEPT !.row = a, !.nextRow = a, !.ma = a, !.hDisplay = d, !.vDisplay = e]  OBVIOUS
<1>8. y = Video!crtc_recompute_state(p)
  <2>1. d = (z.hcc < reg[1]) /\ e = (z.vcc < reg[6])  BY <1>5, <1>6
  <2>. QED  BY <1>1, <1>3, <1>7, <2>1, Zenon DEF Video!LoadedOld
<1>9. DOMAIN p = Fields /\ p.row = a /\ p.nextRow = a /\ p.ma = a /\ p.hDisplay = d /\ p.vDisplay = e
  BY <1>2, <1>7 DEF Fields, Flags
<1>10. \A f \in Fields \ {"row", "nextRow", "ma", "hDisplay", "vDisplay"} : p[f] = z[f]
  BY <1>2, <1>7 DEF Fields, Flags
<1>11. Bools(p)
  <2>. SUFFICES ASSUME NEW f \in Flags PROVE p[f] \in BOOLEAN  BY DEF Bools
  <2>1. CASE f \in {"hDisplay", "vDisplay"}  BY <1>9, <2>1
  <2>2. CASE f \notin {"hDisplay", "vDisplay"}
    <3>1. f \in Fields \ {"row", "nextRow", "ma", "hDisplay", "vDisplay"} /\ f \in Fields \ {"reg"}
      BY <2>2 DEF Fields, Flags
    <3>. QED  BY <1>0, <1>2, <1>10, <3>1 DEF Bools
  <2>. QED  BY <2>1, <2>2
<1>12. /\ DOMAIN y = Fields /\ Bools(y) /\ Latched(y)
       /\ \A f \in Fields \ RecomputedFields : y[f] = p[f]
  BY <1>8, <1>9, <1>11, RecomputeOk, Zenon
<1>13. \A f \in {"reg", "hcc", "vcc", "vlc", "vac", "hsc", "vsc", "row", "nextRow", "ma", "hsync", "latched"} : y[f] = p[f]
  BY <1>12 DEF Fields, Flags, RecomputedFields
<1>14. \A f \in {"reg", "hcc", "vcc", "vlc", "vac", "hsc", "vsc", "hsync", "latched"} : p[f] = z[f]
  BY <1>10 DEF Fields, Flags
<1>15. \A f \in {"hcc", "vcc", "vlc", "vac", "hsc", "vsc", "hsync", "latched"} : z[f] = x[f]
  BY <1>2 DEF Fields, Flags
<1>16. Plainly(y)  BY <1>0, <1>2, <1>4, <1>9, <1>13, <1>14, <1>15 DEF Plainly
<1>17. CrtcOk(y)  BY <1>12, <1>16, OkOf
<1>. QED  BY <1>13, <1>14, <1>15, <1>17

LEMMA InitOk ==
    ASSUME NEW type, NEW y, y = Video!crtc_init(type)
    PROVE  /\ CrtcOk(y) /\ Latched(y)
           /\ y.reg = PowerOn /\ y.hcc = 0 /\ y.vcc = 0 /\ y.vlc = 0 /\ y.vadjust = FALSE /\ y.vac = 0
           /\ y.row = Video!crtc_start_addr(y) /\ y.nextRow = y.row /\ y.ma = y.row
           /\ y.hDisplay = TRUE /\ y.vDisplay = TRUE /\ y.hsync = FALSE /\ y.vsync = FALSE /\ y.r7 = FALSE
<1>0. RegsOk(PowerOn)  BY VideoAssumption DEF Video!CrtcAssumption, RegsOk
<1>1. PICK a : a = PowerOn[12] % MaMod  OBVIOUS
<1>2. PICK p : p = [reg |-> PowerOn, type |-> type, hcc |-> 0, vcc |-> 0, vlc |-> 0, vsc |-> 0, hsc |-> 0, vac |-> 0,
       vadjust |-> FALSE, ma |-> a, row |-> a, nextRow |-> a, hsync |-> FALSE, vsync |-> FALSE, hDisplay |-> TRUE,
       vDisplay |-> TRUE, lastRaster |-> FALSE, lastFrame |-> FALSE, r7 |-> FALSE, latched |-> FALSE,
       newLine |-> FALSE, newFrame |-> FALSE, latch |-> FALSE]  OBVIOUS
<1>3. y = Video!crtc_latch_line_state(p)  BY <1>1, <1>2, Zenon DEF Video!crtc_init
<1>4. DOMAIN p = Fields  BY <1>2 DEF Fields, Flags
<1>5. Bools(p)
  <2>1. /\ p.vadjust = FALSE /\ p.hsync = FALSE /\ p.vsync = FALSE /\ p.hDisplay = TRUE /\ p.vDisplay = TRUE
        /\ p.lastRaster = FALSE /\ p.lastFrame = FALSE /\ p.r7 = FALSE /\ p.latched = FALSE
        /\ p.newLine = FALSE /\ p.newFrame = FALSE /\ p.latch = FALSE
    BY <1>2
  <2>. QED  BY <2>1 DEF Bools, Flags
<1>6. a \in Nat
  <2>1. PowerOn[12] \in Nat  BY <1>0, RegTypes, Zenon DEF Video!Regs
  <2>. QED  BY <1>1, <2>1, Widths
<1>7. /\ DOMAIN y = Fields /\ Bools(y) /\ Latched(y)
      /\ \A f \in Fields \ LatchFields : y[f] = p[f]
  BY <1>3, <1>4, <1>5, LatchOk, Zenon
<1>8. \A f \in {"reg", "hcc", "vcc", "vlc", "vac", "hsc", "vsc", "row", "nextRow", "ma", "hsync", "vsync", "r7",
                "vadjust", "hDisplay", "vDisplay"} : y[f] = p[f]
  BY <1>7 DEF Fields, Flags, LatchFields
<1>9. /\ y.reg = PowerOn /\ y.hcc = 0 /\ y.vcc = 0 /\ y.vlc = 0 /\ y.vadjust = FALSE /\ y.vac = 0
      /\ y.row = a /\ y.nextRow = a /\ y.ma = a /\ y.hsc = 0 /\ y.vsc = 0
      /\ y.hDisplay = TRUE /\ y.vDisplay = TRUE /\ y.hsync = FALSE /\ y.vsync = FALSE /\ y.r7 = FALSE
  BY <1>2, <1>8
<1>10. Plainly(y)  BY <1>0, <1>6, <1>9, Widths DEF Plainly
<1>11. CrtcOk(y)  BY <1>7, <1>10, OkOf
<1>12. Video!crtc_start_addr(y) = a  BY <1>1, <1>9 DEF Video!crtc_start_addr
<1>. QED  BY <1>7, <1>9, <1>11, <1>12
-----------------------------------------------------------------------------
(* The history of a tick *)
HistFields == {"writes", "loads", "pos", "clean", "frames", "displayed", "restored", "modes"}
HistOk(g) ==
    /\ DOMAIN g = HistFields /\ g.writes \in Nat /\ g.loads \in Nat /\ g.pos \in Nat /\ g.frames \in 0 .. 2
    /\ g.modes \in Nat /\ g.clean \in BOOLEAN /\ g.displayed \in BOOLEAN /\ g.restored \in BOOLEAN
Began(x, y) == y.hsync /\ ~x.hsync
Counted1(x, y, g) == (IF Began(x, y) THEN 0 ELSE g.modes) + (IF y.latch THEN 1 ELSE 0)
HistTick(x, y, g, k) ==
    /\ HistOk(k) /\ k.writes = g.writes /\ k.loads = g.loads
    /\ k.pos = IF y.newFrame THEN 0 ELSE g.pos + 1
    /\ k.clean <=> g.clean \/ y.newFrame
    /\ k.frames = IF ~y.newFrame THEN g.frames
                  ELSE IF g.clean THEN (IF g.frames < 2 THEN g.frames + 1 ELSE 2) ELSE 0
    /\ k.displayed <=> g.displayed \/ y.newFrame
    /\ k.modes = Counted1(x, y, g)
    /\ k.restored <=> g.restored /\ ~Began(x, y)

LEMMA TickHist ==
    ASSUME NEW x, NEW y, Bools(x), Bools(y), NEW g, HistOk(g), NEW modes, modes = Counted1(x, y, g),
           NEW k, k = [g EXCEPT !.pos = IF y.newFrame THEN 0 ELSE @ + 1,
                          !.clean = @ \/ y.newFrame,
                          !.frames = IF ~y.newFrame THEN @ ELSE IF g.clean THEN (IF @ < 2 THEN @ + 1 ELSE 2) ELSE 0,
                          !.displayed = @ \/ y.newFrame, !.modes = modes,
                          !.restored = @ /\ ~Began(x, y)]
    PROVE  HistTick(x, y, g, k)
<1>1. y.newFrame \in BOOLEAN /\ y.hsync \in BOOLEAN /\ x.hsync \in BOOLEAN /\ y.latch \in BOOLEAN
  BY DEF Bools, Flags
<1>2. PICK pos \in Nat : pos = IF y.newFrame THEN 0 ELSE g.pos + 1  BY DEF HistOk
<1>3. PICK clean \in BOOLEAN : clean <=> g.clean \/ y.newFrame  OBVIOUS
<1>4. PICK frames \in 0 .. 2 : frames = IF ~y.newFrame THEN g.frames
                  ELSE IF g.clean THEN (IF g.frames < 2 THEN g.frames + 1 ELSE 2) ELSE 0
  BY DEF HistOk
<1>5. PICK displayed \in BOOLEAN : displayed <=> g.displayed \/ y.newFrame  OBVIOUS
<1>6. PICK restored \in BOOLEAN : restored <=> g.restored /\ ~Began(x, y)  OBVIOUS
<1>7. modes \in Nat  BY DEF Counted1, HistOk
<1>8. k = [g EXCEPT !.pos = pos, !.clean = clean, !.frames = frames, !.displayed = displayed, !.modes = modes,
                    !.restored = restored]
  BY <1>1, <1>2, <1>3, <1>4, <1>5, <1>6 DEF HistOk
<1>9. DOMAIN g = HistFields /\ g.writes \in Nat /\ g.loads \in Nat  BY DEF HistOk
<1>10. /\ DOMAIN k = HistFields /\ k.pos = pos /\ k.clean = clean /\ k.frames = frames /\ k.displayed = displayed
       /\ k.modes = modes /\ k.restored = restored /\ k.writes = g.writes /\ k.loads = g.loads
  BY <1>8, <1>9 DEF HistFields
<1>11. HistOk(k)  BY <1>7, <1>9, <1>10 DEF HistOk
<1>. QED  BY <1>2, <1>3, <1>4, <1>5, <1>6, <1>10, <1>11 DEF HistTick

-----------------------------------------------------------------------------
(* The mode: one pulse, one latch *)
ModeInv(x, g) == ~g.restored => /\ x.hsync => g.modes = IF x.latched THEN 1 ELSE 0
                                /\ ~x.hsync => g.modes = 1

LEMMA ModeTick ==
    ASSUME NEW x, NEW y, Bools(x), Bools(y), Pulse(x, y), NEW g, HistOk(g), NEW k, HistTick(x, y, g, k), ModeInv(x, g)
    PROVE  ModeInv(y, k)
<1>1. /\ x.hsync \in BOOLEAN /\ x.latched \in BOOLEAN /\ y.hsync \in BOOLEAN
      /\ y.latched \in BOOLEAN /\ y.latch \in BOOLEAN
  BY DEF Bools, Flags
<1>2. PICK starts \in BOOLEAN : starts <=> Video!Hsw(x) # 0 /\ ~x.hsync /\ (x.hcc + 1) % HMod = x.reg[2]  OBVIOUS
<1>3. PICK kk : kk = IF starts THEN 0 ELSE x.hsc  OBVIOUS
<1>4. PICK ends \in BOOLEAN : ends <=> kk = Video!Hsw(x)  OBVIOUS
<1>5. PICK was \in BOOLEAN : was <=> ~starts /\ x.latched  OBVIOUS
<1>6. PICK clock : clock = IF Video!Hsw(x) < HswMod THEN (kk + 1) % HswMod ELSE kk + 1  OBVIOUS
<1>7. PICK takes \in BOOLEAN : takes <=> ~was /\ (ends \/ clock = Cutoff)  OBVIOUS
<1>8. /\ k.modes = Counted1(x, y, g) /\ (k.restored <=> g.restored /\ ~Began(x, y))
      /\ g.modes \in Nat /\ g.restored \in BOOLEAN /\ k.restored \in BOOLEAN
  BY DEF HistTick, HistOk
<1>9. CASE ~x.hsync /\ ~starts
  <2>1. y.hsync = FALSE /\ y.latched = x.latched /\ y.latch = FALSE  BY <1>2, <1>9 DEF Pulse
  <2>. QED  BY <1>1, <1>8, <1>9, <2>1 DEF ModeInv, Counted1, Began
<1>10. CASE x.hsync \/ starts
  <2>1. y.hsync = ~ends /\ y.latch = takes /\ y.latched = (was \/ takes)
    BY <1>1, <1>2, <1>3, <1>4, <1>5, <1>6, <1>7, <1>10 DEF Pulse
  <2>2. starts => ~ends /\ ~x.hsync  BY <1>2, <1>3, <1>4
  <2>3. CASE starts
    <3>1. Began(x, y)  BY <2>1, <2>2, <2>3 DEF Began
    <3>2. k.modes = IF takes THEN 1 ELSE 0  BY <1>8, <2>1, <3>1 DEF Counted1
    <3>3. y.latched <=> takes  BY <1>5, <2>1, <2>3
    <3>. QED  BY <2>1, <2>2, <2>3, <3>2, <3>3 DEF ModeInv
  <2>4. CASE ~starts
    <3>1. x.hsync /\ ~Began(x, y)  BY <1>10, <2>4 DEF Began
    <3>2. k.modes = g.modes + (IF takes THEN 1 ELSE 0)  BY <1>8, <2>1, <3>1 DEF Counted1
    <3>3. y.latched <=> (x.latched \/ takes)  BY <1>5, <2>1, <2>4
    <3>4. was <=> x.latched  BY <1>5, <2>4
    <3>5. k.restored <=> g.restored  BY <1>8, <3>1
    <3>. SUFFICES ASSUME ~k.restored PROVE (y.hsync => k.modes = IF y.latched THEN 1 ELSE 0) /\ (~y.hsync => k.modes = 1)
      BY DEF ModeInv
    <3>6. g.modes = IF x.latched THEN 1 ELSE 0  BY <3>1, <3>5 DEF ModeInv
    <3>7. CASE ends
      <4>1. y.hsync = FALSE  BY <2>1, <3>7
      <4>2. CASE takes
        <5>1. ~x.latched /\ y.latched  BY <1>7, <3>3, <3>4, <4>2
        <5>. QED  BY <3>2, <3>6, <4>1, <4>2, <5>1
      <4>3. CASE ~takes
        <5>1. (y.latched <=> x.latched) /\ x.latched  BY <1>7, <3>3, <3>4, <3>7, <4>3
        <5>. QED  BY <3>2, <3>6, <4>1, <4>3, <5>1
      <4>. QED  BY <4>2, <4>3
    <3>8. CASE ~ends
      <4>1. y.hsync = TRUE  BY <2>1, <3>8
      <4>2. CASE takes
        <5>1. ~x.latched /\ y.latched  BY <1>7, <3>3, <3>4, <4>2
        <5>. QED  BY <3>2, <3>6, <4>1, <4>2, <5>1
      <4>3. CASE ~takes
        <5>1. (y.latched <=> x.latched)  BY <1>7, <3>3, <3>4, <3>8, <4>3
        <5>. QED  BY <3>2, <3>6, <4>1, <4>3, <5>1
      <4>. QED  BY <4>2, <4>3
    <3>. QED  BY <3>7, <3>8
  <2>. QED  BY <2>3, <2>4
<1>. QED  BY <1>9, <1>10
-----------------------------------------------------------------------------
(* Frames go on: the clocks that may yet pass before one begins *)
LinesLeft(x) ==
    IF x.vadjust THEN IF x.vac < x.reg[5] THEN x.reg[5] - 1 - x.vac ELSE 0
    ELSE RMod + (VMod - 1 - x.vcc) * RMod + ((x.reg[9] - x.vlc) % RMod)
ClocksLeft(x) == LinesLeft(x) * HMod + ((x.reg[0] - x.hcc) % HMod)
Longest == HMod * RMod * (VMod + 1)
RankInv(x, g) == g.pos + ClocksLeft(x) < (g.writes + g.loads + 1) * Longest

LEMMA LeftSteps ==
    ASSUME NEW m \in Nat \ {0}, NEW r \in 0 .. m - 1, NEW a \in 0 .. m - 1
    PROVE  /\ (r - a) % m = IF a <= r THEN r - a ELSE r - a + m
           /\ a # r => (r - ((a + 1) % m)) % m = ((r - a) % m) - 1
<1>1. ASSUME NEW b \in 0 .. m - 1 PROVE (r - b) % m = IF b <= r THEN r - b ELSE r - b + m
  <2>1. CASE b <= r
    <3>1. r - b \in 0 .. m - 1  BY <2>1
    <3>. QED  BY <3>1, <2>1, ModSmall
  <2>2. CASE b > r
    <3>1. PICK t \in 0 .. m - 1 : t = r - b + m  BY <2>2
    <3>2. PICK q \in Int : q = -1  OBVIOUS
    <3>3. r - b = q * m + t  BY <3>1, <3>2
    <3>. QED  BY <2>2, <3>1, <3>3, DivModIs
  <2>. QED  BY <2>1, <2>2
<1>2. a + 1 < m => (a + 1) % m = a + 1  BY ModSmall
<1>3. a + 1 = m => (a + 1) % m = 0
  <2>. SUFFICES ASSUME a + 1 = m PROVE m % m = 0  OBVIOUS
  <2>. QED  BY ModSmall
<1>4. ASSUME a # r PROVE (r - ((a + 1) % m)) % m = ((r - a) % m) - 1
  <2>1. PICK n \in 0 .. m - 1 : n = (a + 1) % m  BY ModRange
  <2>2. (r - n) % m = IF n <= r THEN r - n ELSE r - n + m  BY <1>1
  <2>3. (r - a) % m = IF a <= r THEN r - a ELSE r - a + m  BY <1>1
  <2>4. CASE a + 1 < m
    <3>1. n = a + 1  BY <1>2, <2>1, <2>4
    <3>2. (r - n) % m = ((r - a) % m) - 1  BY <1>4, <2>2, <2>3, <3>1
    <3>. QED  BY <2>1, <3>2
  <2>5. CASE a + 1 = m
    <3>1. n = 0  BY <1>3, <2>1, <2>5
    <3>2. (r - n) % m = ((r - a) % m) - 1  BY <1>4, <2>2, <2>3, <2>5, <3>1
    <3>. QED  BY <2>1, <3>2
  <2>. QED  BY <2>4, <2>5
<1>. QED  BY <1>1, <1>4

LEMMA LinesRange ==
    ASSUME NEW x, CrtcOk(x)
    PROVE  LinesLeft(x) \in Nat /\ LinesLeft(x) + 1 <= (VMod + 1) * RMod
<1>1. /\ RegsOk(x.reg) /\ x.vac \in Nat /\ x.vcc \in 0 .. VMod - 1 /\ x.vlc \in 0 .. RMod - 1
  BY DEF CrtcOk
<1>2. x.reg[5] \in Nat /\ x.reg[5] < RMod /\ x.reg[9] \in Nat /\ x.reg[9] < RMod
  BY <1>1, RegTypes, Zenon DEF Video!Regs
<1>r. PICK r \in 0 .. RMod - 1, v \in 0 .. RMod - 1 : r = x.reg[9] /\ v = x.vlc  BY <1>1, <1>2, Widths
<1>3. PICK l \in 0 .. RMod - 1 : l = (x.reg[9] - x.vlc) % RMod
  <2>1. PICK d \in Int : d = r - v  OBVIOUS
  <2>2. d % RMod \in 0 .. RMod - 1  BY <2>1, Widths, ModRange
  <2>. QED  BY <1>r, <2>1, <2>2
<1>4. PICK u \in Nat : u = VMod - 1 - x.vcc /\ u <= VMod - 1  BY <1>1, Widths
<1>5. u * RMod <= (VMod - 1) * RMod /\ u * RMod \in Nat
  <2>1. PICK w \in Nat : w = VMod - 1  BY Widths
  <2>. QED  BY <1>4, <2>1, TimesMonotone, NextTimes, Widths
<1>6. (VMod + 1) * RMod = (VMod - 1) * RMod + RMod + RMod  BY Widths
<1>7. (VMod - 1) * RMod \in Nat
  <2>1. PICK w \in Nat : w = VMod - 1  BY Widths
  <2>. QED  BY <2>1, NextTimes, Widths
<1>8. CASE x.vadjust
  <2>1. LinesLeft(x) = IF x.vac < x.reg[5] THEN x.reg[5] - 1 - x.vac ELSE 0  BY <1>8 DEF LinesLeft
  <2>. QED  BY <1>1, <1>2, <1>6, <1>7, <2>1, Widths
<1>9. CASE ~x.vadjust
  <2>1. LinesLeft(x) = RMod + u * RMod + l  BY <1>3, <1>4, <1>9 DEF LinesLeft
  <2>. QED  BY <1>5, <1>6, <1>7, <2>1, Widths
<1>. QED  BY <1>8, <1>9

LEMMA ClocksRange ==
    ASSUME NEW x, CrtcOk(x)
    PROVE  ClocksLeft(x) \in Nat /\ ClocksLeft(x) < Longest /\ Longest \in Nat
<1>1. PICK l \in Nat : l = LinesLeft(x) /\ l + 1 <= (VMod + 1) * RMod  BY LinesRange
<1>2. x.hcc \in 0 .. HMod - 1 /\ RegsOk(x.reg)  BY DEF CrtcOk
<1>3. x.reg[0] \in Nat /\ x.reg[0] < HMod  BY <1>2, RegTypes, Zenon DEF Video!Regs
<1>4. PICK r \in 0 .. HMod - 1 : r = (x.reg[0] - x.hcc) % HMod  BY <1>2, <1>3, Widths, ModRange
<1>5. PICK n \in Nat : n = (VMod + 1) * RMod  BY Widths
<1>6. (l + 1) * HMod <= n * HMod /\ (l + 1) * HMod = l * HMod + HMod /\ l * HMod \in Nat
  BY <1>1, <1>5, TimesMonotone, NextTimes, Widths
<1>7. Longest = n * HMod  BY <1>5, Widths DEF Longest
<1>8. ClocksLeft(x) = l * HMod + r  BY <1>1, <1>4 DEF ClocksLeft
<1>. QED  BY <1>6, <1>7, <1>8, Widths

LEMMA LinesFall ==
    ASSUME NEW x, CrtcOk(x), NEW y, CrtcOk(y), y.reg = x.reg, ~Finished(x), Moved(x, y)
    PROVE  LinesLeft(y) + 1 <= LinesLeft(x)
<1>1. /\ RegsOk(x.reg) /\ x.vac \in Nat /\ x.vcc \in 0 .. VMod - 1 /\ x.vlc \in 0 .. RMod - 1
      /\ (x.lastRaster <=> x.vlc = x.reg[9])
  BY DEF CrtcOk
<1>2. x.reg[5] \in Nat /\ x.reg[5] < RMod /\ x.reg[9] \in Nat /\ x.reg[9] < RMod
  BY <1>1, RegTypes, Zenon DEF Video!Regs
<1>r. PICK r \in 0 .. RMod - 1, v \in 0 .. RMod - 1 : r = x.reg[9] /\ v = x.vlc  BY <1>1, <1>2, Widths
<1>3. PICK l \in 0 .. RMod - 1 : l = (x.reg[9] - x.vlc) % RMod
  <2>1. PICK d \in Int : d = r - v  OBVIOUS
  <2>2. d % RMod \in 0 .. RMod - 1  BY <2>1, Widths, ModRange
  <2>. QED  BY <1>r, <2>1, <2>2
<1>4. PICK u \in Nat : u = VMod - 1 - x.vcc  BY <1>1, Widths
<1>5. u * RMod \in Nat  BY <1>4, NextTimes, Widths
<1>6. CASE x.vadjust
  <2>1. x.vac + 1 < x.reg[5]  BY <1>1, <1>2, <1>6 DEF Finished
  <2>2. y.vadjust /\ y.vac = x.vac + 1  BY <1>6 DEF Moved
  <2>. QED  BY <1>1, <1>2, <1>6, <2>1, <2>2 DEF LinesLeft
<1>7. CASE ~x.vadjust
  <2>0. LinesLeft(x) = RMod + u * RMod + l  BY <1>3, <1>4, <1>7 DEF LinesLeft
  <2>1. CASE x.lastRaster /\ x.lastFrame
    <3>1. x.reg[5] # 0  BY <1>7, <2>1 DEF Finished
    <3>2. y.vadjust /\ y.vac = 0  BY <1>7, <2>1 DEF Moved
    <3>3. LinesLeft(y) = x.reg[5] - 1  BY <1>2, <3>1, <3>2 DEF LinesLeft
    <3>. QED  BY <1>2, <1>5, <2>0, <3>3, Widths
  <2>2. CASE x.lastRaster /\ ~x.lastFrame
    <3>1. (x.vcc + 1) % VMod # 0  BY <1>7, <2>2 DEF Finished
    <3>2. x.vcc + 1 < VMod /\ (x.vcc + 1) % VMod = x.vcc + 1
      <4>1. CASE x.vcc + 1 = VMod
        <5>1. VMod % VMod = 0  BY Widths, ModSmall
        <5>. QED  BY <3>1, <4>1, <5>1
      <4>2. CASE x.vcc + 1 < VMod
        <5>1. x.vcc + 1 \in 0 .. VMod - 1  BY <1>1, <4>2, Widths
        <5>. QED  BY <4>2, <5>1, Widths, ModSmall
      <4>. QED  BY <1>1, <4>1, <4>2, Widths
    <3>3. ~y.vadjust /\ y.vcc = x.vcc + 1 /\ y.vlc = 0  BY <1>7, <2>2, <3>2 DEF Moved
    <3>4. (x.reg[9] - 0) % RMod = x.reg[9]
      <4>1. x.reg[9] \in 0 .. RMod - 1 /\ 0 \in 0 .. RMod - 1  BY <1>2, Widths
      <4>2. (x.reg[9] - 0) % RMod = IF 0 <= x.reg[9] THEN x.reg[9] - 0 ELSE x.reg[9] - 0 + RMod
        BY <4>1, Widths, LeftSteps
      <4>. QED  BY <1>2, <4>2
    <3>5. PICK t \in Nat : t = VMod - 1 - y.vcc /\ u = t + 1  BY <1>1, <1>4, <3>2, <3>3, Widths
    <3>6. LinesLeft(y) = RMod + t * RMod + x.reg[9]  BY <3>3, <3>4, <3>5 DEF LinesLeft
    <3>7. u * RMod = t * RMod + RMod /\ t * RMod \in Nat  BY <3>5, NextTimes, Widths
    <3>. QED  BY <1>2, <2>0, <3>6, <3>7, Widths
  <2>3. CASE ~x.lastRaster
    <3>1. ~y.vadjust /\ y.vcc = x.vcc /\ y.vlc = (x.vlc + 1) % RMod  BY <1>7, <2>3 DEF Moved
    <3>2. (x.reg[9] - y.vlc) % RMod = l - 1
      <4>1. v # r  BY <1>1, <1>r, <2>3
      <4>2. (r - ((v + 1) % RMod)) % RMod = ((r - v) % RMod) - 1
        <5>1. RMod \in Nat \ {0} /\ v # r  BY <4>1, Widths
        <5>. QED  BY <5>1, LeftSteps, Zenon
      <4>3. y.vlc = (v + 1) % RMod /\ l = (r - v) % RMod  BY <1>r, <1>3, <3>1
      <4>. QED  BY <1>r, <4>2, <4>3
    <3>3. LinesLeft(y) = RMod + u * RMod + (l - 1)  BY <1>4, <3>1, <3>2 DEF LinesLeft
    <3>. QED  BY <1>5, <2>0, <3>3, Widths
  <2>. QED  BY <2>1, <2>2, <2>3
<1>. QED  BY <1>6, <1>7

LEMMA ClocksFall ==
    ASSUME NEW x, CrtcOk(x), NEW y, CrtcOk(y), Ticked(x, y), ~y.newFrame
    PROVE  ClocksLeft(y) + 1 <= ClocksLeft(x)
<1>1. x.hcc \in 0 .. HMod - 1 /\ RegsOk(x.reg)  BY DEF CrtcOk
<1>2. x.reg[0] \in Nat /\ x.reg[0] < HMod /\ x.reg[0] \in 0 .. HMod - 1
  <2>1. x.reg[0] \in Nat /\ x.reg[0] < HMod  BY <1>1, RegTypes, Zenon DEF Video!Regs
  <2>. QED  BY <2>1, Widths
<1>3. y.reg = x.reg  BY DEF Ticked
<1>r. PICK e \in 0 .. HMod - 1, v \in 0 .. HMod - 1 : e = x.reg[0] /\ v = x.hcc  BY <1>1, <1>2
<1>4. CASE x.hcc # x.reg[0]
  <2>1. Along(x, y)  BY <1>4 DEF Ticked
  <2>2. y.hcc = (x.hcc + 1) % HMod /\ y.vadjust = x.vadjust /\ y.vac = x.vac /\ y.vcc = x.vcc /\ y.vlc = x.vlc
    BY <2>1 DEF Along, KeptAlong
  <2>3. LinesLeft(y) = LinesLeft(x)  BY <1>3, <2>2 DEF LinesLeft
  <2>4. (x.reg[0] - ((x.hcc + 1) % HMod)) % HMod = ((x.reg[0] - x.hcc) % HMod) - 1
    <3>1. v # e  BY <1>r, <1>4
    <3>2. (e - ((v + 1) % HMod)) % HMod = ((e - v) % HMod) - 1
      <4>1. HMod \in Nat \ {0} /\ v # e  BY <3>1, Widths
      <4>. QED  BY <4>1, LeftSteps, Zenon
    <3>. QED  BY <1>r, <3>2
  <2>5. PICK l \in Nat : l = LinesLeft(x)  BY LinesRange
  <2>6. PICK r \in Int : r = (x.reg[0] - x.hcc) % HMod
    <3>1. PICK d \in Int : d = e - v  OBVIOUS
    <3>2. d % HMod \in 0 .. HMod - 1  BY Widths, ModRange
    <3>. QED  BY <1>r, <3>1, <3>2
  <2>7. l * HMod \in Nat  BY NextTimes, Widths
  <2>8. ClocksLeft(y) = l * HMod + (r - 1)  BY <1>3, <2>2, <2>3, <2>4, <2>5, <2>6 DEF ClocksLeft
  <2>9. ClocksLeft(x) = l * HMod + r  BY <2>5, <2>6 DEF ClocksLeft
  <2>. QED  BY <2>7, <2>8, <2>9
<1>5. CASE x.hcc = x.reg[0]
  <2>1. RowTo(x, y) /\ y.hcc = 0  BY <1>5 DEF Ticked, Over
  <2>2. ~Finished(x) /\ Moved(x, y)  BY <2>1 DEF RowTo
  <2>3. LinesLeft(y) + 1 <= LinesLeft(x)  BY <1>3, <2>2, LinesFall
  <2>4. PICK l \in Nat, m \in Nat : l = LinesLeft(x) /\ m = LinesLeft(y) /\ m + 1 <= l  BY <2>3, LinesRange
  <2>5. (m + 1) * HMod <= l * HMod /\ (m + 1) * HMod = m * HMod + HMod /\ m * HMod \in Nat /\ l * HMod \in Nat
    BY <2>4, TimesMonotone, NextTimes, Widths
  <2>6. (x.reg[0] - x.hcc) % HMod = 0
    <3>1. (e - v) % HMod = IF v <= e THEN e - v ELSE e - v + HMod  BY Widths, LeftSteps
    <3>2. (e - v) % HMod = 0  BY <1>r, <1>5, <3>1
    <3>. QED  BY <1>r, <3>2
  <2>7. (x.reg[0] - 0) % HMod = x.reg[0]
    <3>0. 0 \in 0 .. HMod - 1  BY Widths
    <3>1. (x.reg[0] - 0) % HMod = IF 0 <= x.reg[0] THEN x.reg[0] - 0 ELSE x.reg[0] - 0 + HMod
      BY <1>2, <3>0, Widths, LeftSteps
    <3>. QED  BY <1>2, <3>1
  <2>8. ClocksLeft(x) = l * HMod  BY <2>4, <2>5, <2>6 DEF ClocksLeft
  <2>9. ClocksLeft(y) = m * HMod + x.reg[0]  BY <1>3, <2>1, <2>4, <2>7 DEF ClocksLeft
  <2>. QED  BY <1>2, <2>5, <2>8, <2>9, Widths
<1>. QED  BY <1>4, <1>5
LEMMA RankTick ==
    ASSUME NEW x, CrtcOk(x), NEW y, CrtcOk(y), Ticked(x, y), NEW g, HistOk(g), NEW k, HistTick(x, y, g, k),
           RankInv(x, g)
    PROVE  RankInv(y, k)
<1>1. PICK p \in Nat, q \in Nat : p = ClocksLeft(x) /\ q = ClocksLeft(y) /\ q < Longest  BY ClocksRange
<1>2. Longest \in Nat  BY ClocksRange
<1>3. PICK n \in Nat : n = g.writes + g.loads  BY DEF HistOk
<1>4. g.pos \in Nat /\ k.writes = g.writes /\ k.loads = g.loads /\ k.pos = IF y.newFrame THEN 0 ELSE g.pos + 1
  BY DEF HistTick, HistOk
<1>5. PICK z \in Nat : z = (n + 1) * Longest /\ z >= Longest
  <2>1. (n + 1) * Longest = n * Longest + Longest /\ n * Longest \in Nat  BY <1>2, <1>3, NextTimes
  <2>. QED  BY <1>2, <2>1
<1>6. (g.writes + g.loads + 1) * Longest = z /\ (k.writes + k.loads + 1) * Longest = z  BY <1>3, <1>4, <1>5
<1>7. g.pos + p < z  BY <1>1, <1>6 DEF RankInv
<1>8. CASE y.newFrame  BY <1>1, <1>2, <1>4, <1>5, <1>6, <1>8 DEF RankInv
<1>9. CASE ~y.newFrame
  <2>1. q + 1 <= p  BY <1>1, <1>9, ClocksFall
  <2>2. k.pos = g.pos + 1  BY <1>4, <1>9
  <2>3. k.pos + q < z  BY <1>4, <1>7, <2>1, <2>2
  <2>. QED  BY <1>1, <1>6, <2>3 DEF RankInv
<1>. QED  BY <1>8, <1>9

LEMMA RankMore ==
    ASSUME NEW x, CrtcOk(x), NEW y, CrtcOk(y), NEW g, HistOk(g), NEW k, RankInv(x, g),
           k.pos = g.pos, k.writes + k.loads = g.writes + g.loads + 1
    PROVE  RankInv(y, k)
<1>1. PICK p \in Nat, q \in Nat : p = ClocksLeft(x) /\ q = ClocksLeft(y) /\ q < Longest  BY ClocksRange
<1>2. Longest \in Nat  BY ClocksRange
<1>3. PICK n \in Nat : n = g.writes + g.loads  BY DEF HistOk
<1>4. PICK z \in Nat : z = (n + 1) * Longest  BY <1>2, <1>3
<1>5. (n + 1 + 1) * Longest = z + Longest  BY <1>2, <1>3, <1>4, NextTimes
<1>6. g.pos \in Nat  BY DEF HistOk
<1>7. g.pos + p < z  BY <1>1, <1>3, <1>4 DEF RankInv
<1>8. (k.writes + k.loads + 1) * Longest = z + Longest  BY <1>3, <1>5
<1>. QED  BY <1>1, <1>2, <1>6, <1>7, <1>8 DEF RankInv

-----------------------------------------------------------------------------
(* The frame that nothing disturbed: where the controller is in it *)
RasterLines(x) == x.reg[9] + 1
PerLine(x) == x.reg[0] + 1
Height(x) == (x.reg[4] + 1) * RasterLines(x) + x.reg[5]
LineRow(x) == IF x.vadjust THEN (x.reg[4] + 1) * RasterLines(x) + x.vac ELSE x.vcc * RasterLines(x) + x.vlc
Adv(x) == IF x.reg[1] <= x.reg[0] + 1 THEN x.reg[1] ELSE 0
RowAddr(x) == (x.reg[12] + x.vcc * Adv(x)) % MaMod
(* The controller is at the clock pos of the frame its registers describe. *)
FrameAt(x, pos, displayed) ==
    /\ x.hcc <= x.reg[0] /\ pos = LineRow(x) * PerLine(x) + x.hcc
    /\ x.lastFrame <=> x.lastRaster /\ x.vcc = x.reg[4]
    /\ x.vadjust => x.vcc = x.reg[4] /\ x.vac < x.reg[5] /\ x.vlc = x.vac
    /\ ~x.vadjust => /\ x.vcc <= x.reg[4] /\ x.vlc <= x.reg[9]
                     /\ x.row = RowAddr(x) /\ x.ma = (x.row + x.hcc) % MaMod
                     /\ x.nextRow = Video!crtc_restore_next_row(x)
    /\ displayed => (x.hDisplay <=> x.hcc < x.reg[1]) /\ (x.vDisplay <=> x.vcc < x.reg[6])
FrameInv(x, g) == g.clean => FrameAt(x, g.pos, g.displayed)

Numbers(x) ==
    /\ x.reg[0] \in Nat /\ x.reg[0] < HMod /\ x.reg[1] \in Nat /\ x.reg[1] < HMod /\ x.reg[4] \in Nat /\ x.reg[4] < VMod
    /\ x.reg[5] \in Nat /\ x.reg[5] < RMod /\ x.reg[6] \in Nat /\ x.reg[7] \in Nat /\ x.reg[9] \in Nat /\ x.reg[9] < RMod
    /\ x.reg[12] \in Nat /\ x.hcc \in Nat /\ x.hcc < HMod /\ x.vcc \in Nat /\ x.vcc < VMod /\ x.vlc \in Nat /\ x.vlc < RMod
    /\ x.vac \in Nat /\ x.ma \in Nat /\ x.row \in Nat /\ x.nextRow \in Nat
    /\ (x.lastRaster <=> x.vlc = x.reg[9])
LEMMA NumbersOk ==
    ASSUME NEW x, CrtcOk(x)
    PROVE  Numbers(x)
<1>1. /\ RegsOk(x.reg) /\ x.hcc \in 0 .. HMod - 1 /\ x.vcc \in 0 .. VMod - 1 /\ x.vlc \in 0 .. RMod - 1
      /\ x.vac \in Nat /\ x.ma \in Nat /\ x.row \in Nat /\ x.nextRow \in Nat
      /\ (x.lastRaster <=> x.vlc = x.reg[9])
  BY DEF CrtcOk
<1>2. /\ x.reg[0] < HMod /\ x.reg[1] < HMod /\ x.reg[4] < VMod /\ x.reg[5] < RMod /\ x.reg[9] < RMod
      /\ x.reg[0] \in Nat /\ x.reg[1] \in Nat /\ x.reg[4] \in Nat /\ x.reg[5] \in Nat /\ x.reg[6] \in Nat
      /\ x.reg[7] \in Nat /\ x.reg[9] \in Nat /\ x.reg[12] \in Nat
  BY <1>1, RegTypes, Zenon DEF Video!Regs
<1>3. x.hcc \in Nat /\ x.hcc < HMod /\ x.vcc \in Nat /\ x.vcc < VMod /\ x.vlc \in Nat /\ x.vlc < RMod
  BY <1>1, Widths
<1>. QED  BY <1>1, <1>2, <1>3 DEF Numbers

(* A controller at the start of its frame *)
LEMMA FrameZero ==
    ASSUME NEW y, CrtcOk(y), Latched(y), y.hcc = 0, y.vcc = 0, y.vlc = 0, ~y.vadjust, y.row = Video!crtc_start_addr(y),
           y.nextRow = y.row, y.ma = y.row, y.hDisplay <=> y.reg[1] # 0, y.vDisplay <=> y.reg[6] # 0
    PROVE  FrameAt(y, 0, TRUE) /\ LineRow(y) = 0
<1>1. Numbers(y) /\ (y.lastFrame <=> y.lastRaster /\ y.vcc = y.reg[4])  BY NumbersOk DEF Latched
<1>2. y.row = RowAddr(y)
  <2>1. PICK a \in Nat : a = Adv(y)  BY <1>1 DEF Numbers, Adv
  <2>2. y.reg[12] + y.vcc * Adv(y) = y.reg[12]  BY <1>1, <2>1 DEF Numbers
  <2>. QED  BY <2>2 DEF RowAddr, Video!crtc_start_addr
<1>3. y.ma = (y.row + y.hcc) % MaMod
  <2>1. PICK b \in 0 .. MaMod - 1 : b = y.row
    <3>1. PICK r \in Int : r = y.reg[12]  BY <1>1 DEF Numbers
    <3>2. MaMod \in Nat \ {0}  BY Widths
    <3>3. r % MaMod \in 0 .. MaMod - 1  BY <3>2, ModRange, Zenon
    <3>. QED  BY <3>1, <3>3 DEF Video!crtc_start_addr
  <2>2. b % MaMod = b  BY Widths, ModSmall
  <2>3. y.row + y.hcc = b  BY <2>1
  <2>. QED  BY <2>1, <2>2, <2>3
<1>4. y.nextRow = Video!crtc_restore_next_row(y)  BY <1>1 DEF Numbers, Video!crtc_restore_next_row
<1>5. LineRow(y) = 0
  <2>1. RasterLines(y) \in Nat  BY <1>1 DEF Numbers, RasterLines
  <2>. QED  BY <2>1 DEF LineRow
<1>6. 0 = LineRow(y) * PerLine(y) + y.hcc
  <2>1. PerLine(y) \in Nat  BY <1>1 DEF Numbers, PerLine
  <2>. QED  BY <1>5, <2>1
<1>7. y.hcc <= y.reg[0] /\ y.vcc <= y.reg[4] /\ y.vlc <= y.reg[9]  BY <1>1 DEF Numbers
<1>8. (y.hDisplay <=> y.hcc < y.reg[1]) /\ (y.vDisplay <=> y.vcc < y.reg[6])  BY <1>1 DEF Numbers
<1>9. FrameAt(y, 0, TRUE)  BY <1>1, <1>2, <1>3, <1>4, <1>6, <1>7, <1>8 DEF FrameAt
<1>. QED  BY <1>5, <1>9

LEMMA FrameBegins ==
    ASSUME NEW x, CrtcOk(x), NEW y, CrtcOk(y), Ticked(x, y), y.newFrame
    PROVE  /\ FrameAt(y, 0, TRUE) /\ LineRow(y) = 0 /\ y.hcc = 0 /\ ~y.vadjust /\ y.vcc = 0 /\ y.vlc = 0
           /\ x.hcc = x.reg[0] /\ Finished(x)
<1>1. x.hcc = x.reg[0]  BY DEF Ticked, Along
<1>2. Over(x, y) /\ y.reg = x.reg  BY <1>1 DEF Ticked
<1>3. Finished(x)  BY <1>2 DEF Over, RowTo
<1>4. /\ ~y.vadjust /\ y.vcc = 0 /\ y.vlc = 0 /\ (y.vDisplay <=> y.reg[6] # 0) /\ y.row = Video!crtc_start_addr(y)
      /\ y.hcc = 0 /\ (y.hDisplay <=> y.reg[1] # 0) /\ y.nextRow = y.row /\ y.ma = y.row /\ Latched(y)
  BY <1>2, <1>3 DEF Over, RowTo, Video!crtc_start_addr
<1>5. FrameAt(y, 0, TRUE) /\ LineRow(y) = 0  BY <1>4, FrameZero
<1>. QED  BY <1>1, <1>3, <1>4, <1>5
LEMMA FrameAlong ==
    ASSUME NEW x, CrtcOk(x), NEW y, CrtcOk(y), Ticked(x, y), x.hcc # x.reg[0], NEW pos \in Nat, NEW displayed \in BOOLEAN,
           FrameAt(x, pos, displayed)
    PROVE  FrameAt(y, pos + 1, displayed) /\ LineRow(y) = LineRow(x) /\ y.hcc = x.hcc + 1
<1>1. Along(x, y) /\ y.reg = x.reg  BY DEF Ticked
<1>2. Numbers(x)  BY NumbersOk
<1>3. x.hcc + 1 <= x.reg[0] /\ (x.hcc + 1) % HMod = x.hcc + 1
  <2>0. x.hcc \in Nat /\ x.reg[0] \in Nat /\ x.reg[0] < HMod /\ x.hcc <= x.reg[0]  BY <1>2 DEF Numbers, FrameAt
  <2>1. PICK a \in Nat : a = x.hcc /\ a + 1 < HMod /\ a + 1 <= x.reg[0]  BY <2>0, Widths
  <2>2. a + 1 \in 0 .. HMod - 1  BY <2>1, Widths
  <2>3. (a + 1) % HMod = a + 1  BY <2>2, Widths, ModSmall
  <2>. QED  BY <2>1, <2>3
<1>4. /\ y.hcc = x.hcc + 1 /\ y.ma = (x.ma + 1) % MaMod /\ y.nextRow = Cap(x, FALSE)
      /\ (y.hDisplay <=> x.hDisplay /\ x.hcc + 1 # x.reg[1])
      /\ y.vcc = x.vcc /\ y.vlc = x.vlc /\ y.vac = x.vac /\ y.vadjust = x.vadjust /\ y.row = x.row
      /\ y.vDisplay = x.vDisplay /\ y.lastRaster = x.lastRaster /\ y.lastFrame = x.lastFrame
  BY <1>1, <1>3 DEF Along, KeptAlong
<1>5. LineRow(y) = LineRow(x) /\ PerLine(y) = PerLine(x)  BY <1>1, <1>4 DEF LineRow, PerLine, RasterLines
<1>6. pos + 1 = LineRow(y) * PerLine(y) + y.hcc
  <2>1. PICK l : l = LineRow(x) * PerLine(x)  OBVIOUS
  <2>2. l \in Int
    <3>1. PICK r \in Nat : r = RasterLines(x)  BY <1>2 DEF Numbers, RasterLines
    <3>2. PICK p \in Nat : p = x.reg[4] + 1  BY <1>2 DEF Numbers
    <3>5. PICK v \in Nat, a \in Nat, u \in Nat : v = x.vcc /\ a = x.vac /\ u = x.vlc  BY <1>2 DEF Numbers
    <3>3. LineRow(x) \in Int
      <4>1. p * r + a \in Int /\ v * r + u \in Int  OBVIOUS
      <4>. QED  BY <3>1, <3>2, <3>5, <4>1 DEF LineRow
    <3>4. PerLine(x) \in Int  BY <1>2 DEF Numbers, PerLine
    <3>. QED  BY <2>1, <3>3, <3>4
  <2>3. pos = l + x.hcc  BY <2>1 DEF FrameAt
  <2>. QED  BY <1>2, <1>4, <1>5, <2>1, <2>2, <2>3 DEF Numbers
<1>7. displayed => (y.hDisplay <=> y.hcc < y.reg[1]) /\ (y.vDisplay <=> y.vcc < y.reg[6])
  <2>. SUFFICES ASSUME displayed PROVE (y.hDisplay <=> y.hcc < y.reg[1]) /\ (y.vDisplay <=> y.vcc < y.reg[6])
    OBVIOUS
  <2>1. (x.hDisplay <=> x.hcc < x.reg[1]) /\ (x.vDisplay <=> x.vcc < x.reg[6])  BY DEF FrameAt
  <2>. QED  BY <1>1, <1>2, <1>4, <2>1 DEF Numbers
<1>8. ASSUME ~x.vadjust
      PROVE  y.ma = (y.row + y.hcc) % MaMod /\ y.nextRow = Video!crtc_restore_next_row(y) /\ y.row = RowAddr(y)
  <2>1. x.row = RowAddr(x) /\ x.ma = (x.row + x.hcc) % MaMod /\ x.nextRow = Video!crtc_restore_next_row(x)
    BY <1>8 DEF FrameAt
  <2>2. PICK w \in Int, a \in Int : w = x.row /\ a = x.hcc  BY <1>2 DEF Numbers
  <2>3. (((w + a) % MaMod) + 1) % MaMod = (w + a + 1) % MaMod
    <3>1. PICK b \in Int : b = w + a  OBVIOUS
    <3>2. ((b % MaMod) + 1) % MaMod = (b + 1) % MaMod
      <4>1. MaMod \in Nat \ {0} /\ 1 \in Int  BY Widths
      <4>. QED  BY <4>1, ModAdd, Zenon
    <3>. QED  BY <3>1, <3>2
  <2>4. y.ma = (y.row + y.hcc) % MaMod
    <3>1. y.row + y.hcc = w + a + 1  BY <1>4, <2>2
    <3>. QED  BY <1>4, <2>1, <2>2, <2>3, <3>1
  <2>5. y.nextRow = Video!crtc_restore_next_row(y)
    <3>1. CASE x.lastRaster /\ x.hcc + 1 = x.reg[1]
      <4>1. y.nextRow = (x.ma + 1) % MaMod  BY <1>3, <1>4, <3>1 DEF Cap
      <4>2. y.vlc = y.reg[9] /\ y.reg[1] # 0 /\ y.hcc >= y.reg[1] /\ y.hcc = y.reg[1]
        BY <1>1, <1>2, <1>4, <3>1 DEF Numbers
      <4>3. Video!crtc_restore_next_row(y) = (y.row + y.hcc) % MaMod  BY <4>2 DEF Video!crtc_restore_next_row
      <4>. QED  BY <1>4, <2>4, <4>1, <4>3
    <3>2. CASE ~(x.lastRaster /\ x.hcc + 1 = x.reg[1])
      <4>1. y.nextRow = x.nextRow  BY <1>3, <1>4, <3>2 DEF Cap
      <4>2. (x.vlc = x.reg[9] /\ x.hcc >= x.reg[1]) <=> (y.vlc = y.reg[9] /\ y.hcc >= y.reg[1])
        BY <1>1, <1>2, <1>4, <3>2 DEF Numbers
      <4>3. Video!crtc_restore_next_row(y) = Video!crtc_restore_next_row(x)  BY <1>1, <1>4, <4>2 DEF Video!crtc_restore_next_row
      <4>. QED  BY <2>1, <4>1, <4>3
    <3>. QED  BY <3>1, <3>2
  <2>6. y.row = RowAddr(y)  BY <1>1, <1>4, <2>1 DEF RowAddr, Adv
  <2>. QED  BY <2>4, <2>5, <2>6
<1>9. /\ y.hcc <= y.reg[0] /\ (y.lastFrame <=> y.lastRaster /\ y.vcc = y.reg[4])
      /\ y.vadjust => y.vcc = y.reg[4] /\ y.vac < y.reg[5] /\ y.vlc = y.vac
      /\ ~y.vadjust => y.vcc <= y.reg[4] /\ y.vlc <= y.reg[9]
  BY <1>1, <1>3, <1>4 DEF FrameAt
<1>10. FrameAt(y, pos + 1, displayed)  BY <1>4, <1>6, <1>7, <1>8, <1>9 DEF FrameAt
<1>. QED  BY <1>4, <1>5, <1>10
(* The address of the row after this one *)
LEMMA NextAddr ==
    ASSUME NEW x, CrtcOk(x), NEW pos, NEW displayed, FrameAt(x, pos, displayed), ~x.vadjust, x.lastRaster,
           x.hcc = x.reg[0]
    PROVE  Cap(x, TRUE) = (x.reg[12] + (x.vcc + 1) * Adv(x)) % MaMod
<1>1. Numbers(x)  BY NumbersOk
<1>2. /\ x.row = RowAddr(x) /\ x.ma = (x.row + x.hcc) % MaMod /\ x.nextRow = Video!crtc_restore_next_row(x)
      /\ x.vlc = x.reg[9]
  BY <1>1 DEF FrameAt, Numbers
<1>3. PICK r0 \in Nat, r1 \in Nat : r0 = x.reg[0] /\ r1 = x.reg[1] /\ r0 < HMod /\ r1 < HMod  BY <1>1 DEF Numbers
<1>4. PICK adv \in Nat : adv = Adv(x) /\ adv = IF r1 <= r0 + 1 THEN r1 ELSE 0  BY <1>3 DEF Adv
<1>5. PICK s \in Nat : s = x.reg[12] + x.vcc * Adv(x)
  <2>1. PICK u \in Nat, v \in Nat : u = x.reg[12] /\ v = x.vcc  BY <1>1 DEF Numbers
  <2>2. u + v * adv \in Nat  BY NextTimes
  <2>. QED  BY <1>4, <2>1, <2>2
<1>6. PICK w \in 0 .. MaMod - 1 : w = x.row /\ w = s % MaMod
  <2>1. s % MaMod \in 0 .. MaMod - 1  BY Widths, ModRange
  <2>. QED  BY <1>2, <1>5, <2>1 DEF RowAddr
<1>m. MaMod \in Nat \ {0}  BY Widths
<1>7. ASSUME NEW b \in Nat PROVE (w + b) % MaMod = (s + b) % MaMod
  <2>1. s \in Int /\ b \in Int  OBVIOUS
  <2>2. ((s % MaMod) + b) % MaMod = (s + b) % MaMod  BY <1>m, <2>1, ModAdd, Zenon
  <2>. QED  BY <1>6, <2>2
<1>8. x.reg[12] + (x.vcc + 1) * Adv(x) = s + adv
  <2>1. PICK u \in Nat, v \in Nat : u = x.reg[12] /\ v = x.vcc  BY <1>1 DEF Numbers
  <2>2. (v + 1) * adv = v * adv + adv /\ v * adv \in Nat  BY NextTimes
  <2>3. s = u + v * adv  BY <1>4, <1>5, <2>1
  <2>4. x.reg[12] + (x.vcc + 1) * Adv(x) = u + (v + 1) * adv  BY <1>4, <2>1
  <2>. QED  BY <2>2, <2>3, <2>4
<1>9. SUFFICES Cap(x, TRUE) = (w + adv) % MaMod  BY <1>7, <1>8
<1>10. w % MaMod = w  BY <1>m, ModSmall
<1>11. PICK k : k = (r0 + 1) % HMod  OBVIOUS
<1>12. (r0 + 1 < HMod => k = r0 + 1) /\ (r0 + 1 >= HMod => k = 0)
  <2>1. CASE r0 + 1 < HMod
    <3>1. r0 + 1 \in 0 .. HMod - 1  BY <2>1, Widths
    <3>. QED  BY <1>11, <2>1, <3>1, Widths, ModSmall
  <2>2. CASE r0 + 1 >= HMod
    <3>1. r0 + 1 = HMod  BY <1>3, <2>2, Widths
    <3>2. HMod % HMod = 0  BY Widths, ModSmall
    <3>. QED  BY <1>11, <2>2, <3>1, <3>2
  <2>. QED  BY <2>1, <2>2, Widths
<1>13. Cap(x, TRUE) = IF k = r1 \/ r1 = 0 THEN IF r1 = 0 THEN w ELSE (x.ma + 1) % MaMod ELSE x.nextRow
  BY <1>3, <1>6, <1>11 DEF Cap
<1>14. x.nextRow = IF r1 # 0 /\ r0 >= r1 THEN (w + r1) % MaMod ELSE w
  BY <1>2, <1>3, <1>6 DEF Video!crtc_restore_next_row
<1>15. CASE r1 = 0
  <2>1. adv = 0 /\ Cap(x, TRUE) = w  BY <1>4, <1>13, <1>15
  <2>2. w + adv = w  BY <2>1
  <2>. QED  BY <1>10, <2>1, <2>2
<1>16. CASE r1 # 0 /\ k = r1
  <2>1. r1 = r0 + 1 /\ adv = r1  BY <1>3, <1>4, <1>12, <1>16, Widths
  <2>2. Cap(x, TRUE) = (x.ma + 1) % MaMod  BY <1>13, <1>16
  <2>3. x.ma = (w + r0) % MaMod  BY <1>2, <1>3, <1>6
  <2>4. PICK z \in Int : z = w + r0 /\ z + 1 = w + adv  BY <2>1
  <2>5. ((z % MaMod) + 1) % MaMod = (z + 1) % MaMod
    <3>1. 1 \in Int  OBVIOUS
    <3>. QED  BY <1>m, <3>1, ModAdd, Zenon
  <2>. QED  BY <2>2, <2>3, <2>4, <2>5
<1>17. CASE r1 # 0 /\ k # r1
  <2>1. Cap(x, TRUE) = x.nextRow  BY <1>13, <1>17
  <2>2. r1 # r0 + 1  BY <1>3, <1>12, <1>17, Widths
  <2>3. CASE r0 >= r1
    <3>1. adv = r1  BY <1>3, <1>4, <2>3
    <3>2. x.nextRow = (w + r1) % MaMod  BY <1>14, <1>17, <2>3
    <3>. QED  BY <2>1, <3>1, <3>2
  <2>4. CASE r0 < r1
    <3>1. adv = 0  BY <1>4, <2>2, <2>4
    <3>2. w + adv = w  BY <3>1
    <3>3. x.nextRow = w  BY <1>3, <1>14, <2>4
    <3>. QED  BY <1>10, <2>1, <3>2, <3>3
  <2>5. r0 >= r1 \/ r0 < r1  BY <1>3
  <2>. QED  BY <2>3, <2>4, <2>5
<1>18. r1 = 0 \/ (r1 # 0 /\ k = r1) \/ (r1 # 0 /\ k # r1)  OBVIOUS
<1>. QED  BY <1>15, <1>16, <1>17, <1>18

(* The line after this one, in the frame *)
LEMMA NextLine ==
    ASSUME NEW x, CrtcOk(x), NEW y, CrtcOk(y), y.reg = x.reg, y.type = x.type, NEW pos, NEW displayed,
           FrameAt(x, pos, displayed), ~Finished(x), Moved(x, y), x.hcc = x.reg[0]
    PROVE  /\ LineRow(x) \in Nat /\ LineRow(y) = LineRow(x) + 1
           /\ y.vadjust => y.vcc = y.reg[4] /\ y.vac < y.reg[5] /\ y.vlc = y.vac
           /\ ~y.vadjust => /\ y.vcc <= y.reg[4] /\ y.vlc <= y.reg[9]
                            /\ (IF Rereads(y) THEN Video!crtc_start_addr(x) ELSE Cap(x, TRUE)) = RowAddr(y)
           /\ displayed => (y.vDisplay <=> y.vcc < y.reg[6])
           /\ y.vcc # x.vcc => y.vcc = x.vcc + 1
<1>1. Numbers(x) /\ Numbers(y)  BY NumbersOk
<1>2. /\ x.lastRaster => (x.lastFrame <=> x.vcc = x.reg[4])
      /\ x.lastRaster <=> x.vlc = x.reg[9]
      /\ x.vadjust => x.vcc = x.reg[4] /\ x.vac < x.reg[5] /\ x.vlc = x.vac
      /\ ~x.vadjust => x.vcc <= x.reg[4] /\ x.vlc <= x.reg[9]
      /\ displayed => (x.vDisplay <=> x.vcc < x.reg[6])
  BY <1>1 DEF FrameAt, Numbers
<1>3. PICK r4 \in Nat, r5 \in Nat, r9 \in Nat, vcc \in Nat, vlc \in Nat, vac \in Nat :
         /\ r4 = x.reg[4] /\ r5 = x.reg[5] /\ r9 = x.reg[9] /\ vcc = x.vcc /\ vlc = x.vlc /\ vac = x.vac
  BY <1>1 DEF Numbers
<1>4. r4 < VMod /\ r5 < RMod /\ r9 < RMod  BY <1>1, <1>3 DEF Numbers
<1>5. PICK a \in Nat : a = RasterLines(x) /\ a = r9 + 1 /\ a = RasterLines(y)  BY <1>3 DEF RasterLines
<1>6. PICK big \in Nat, top \in Nat : big = (r4 + 1) * a /\ top = vcc * a  BY <1>3, <1>5, NextTimes
<1>7. LineRow(x) = IF x.vadjust THEN big + vac ELSE top + vlc  BY <1>3, <1>5, <1>6 DEF LineRow
<1>8. CASE x.vadjust
  <2>1. vac + 1 < r5  BY <1>3, <1>8 DEF Finished
  <2>2. PICK n \in Nat : n = vac + 1  OBVIOUS
  <2>3. n % RMod = n
    <3>1. n \in 0 .. RMod - 1  BY <1>4, <2>1, <2>2, Widths
    <3>. QED  BY <3>1, Widths, ModSmall
  <2>4. y.vadjust /\ y.vac = n /\ y.vlc = n /\ y.vcc = x.vcc /\ y.vDisplay = x.vDisplay
    BY <1>3, <1>8, <2>2, <2>3 DEF Moved
  <2>5. LineRow(y) = big + n  BY <1>3, <1>5, <1>6, <2>4 DEF LineRow
  <2>6. y.vcc = y.reg[4] /\ y.vac < y.reg[5]
    <3>1. x.vcc = x.reg[4]  BY <1>2, <1>8
    <3>2. n < r5  BY <2>1, <2>2
    <3>. QED  BY <1>3, <2>4, <3>1, <3>2
  <2>. QED  BY <1>2, <1>7, <1>8, <2>2, <2>4, <2>5, <2>6
<1>9. CASE ~x.vadjust /\ x.lastRaster /\ x.lastFrame
  <2>1. vcc = r4 /\ vlc = r9  BY <1>2, <1>3, <1>9
  <2>2. r5 # 0  BY <1>3, <1>9 DEF Finished
  <2>3. y.vadjust /\ y.vac = 0 /\ y.vlc = 0 /\ y.vcc = x.vcc /\ y.vDisplay = x.vDisplay  BY <1>9 DEF Moved
  <2>4. LineRow(y) = big  BY <1>3, <1>5, <1>6, <2>3 DEF LineRow
  <2>5. big = top + a  BY <1>6, <2>1, <1>5, NextTimes
  <2>6. y.vcc = y.reg[4] /\ y.vac < y.reg[5]
    <3>1. 0 < r5  BY <2>2
    <3>2. y.reg[4] = r4 /\ y.reg[5] = r5  BY <1>3
    <3>. QED  BY <1>3, <2>1, <2>3, <3>1, <3>2
  <2>. QED  BY <1>2, <1>5, <1>7, <1>9, <2>1, <2>3, <2>4, <2>5, <2>6
<1>10. CASE ~x.vadjust /\ x.lastRaster /\ ~x.lastFrame
  <2>1. vcc < r4 /\ vlc = r9  BY <1>2, <1>3, <1>10
  <2>2. PICK n \in Nat : n = vcc + 1  OBVIOUS
  <2>3. n % VMod = n
    <3>1. n \in 0 .. VMod - 1  BY <1>4, <2>1, <2>2, Widths
    <3>. QED  BY <3>1, Widths, ModSmall
  <2>4. ~y.vadjust /\ y.vcc = n /\ y.vlc = 0 /\ (y.vDisplay <=> x.vDisplay /\ n # x.reg[6])
    BY <1>3, <1>10, <2>2, <2>3 DEF Moved
  <2>5. LineRow(y) = top + a /\ top + a = LineRow(x) + 1
    <3>1. LineRow(y) = n * a + 0  BY <1>5, <2>4 DEF LineRow
    <3>2. n * a = top + a  BY <1>6, <2>2, <1>5, NextTimes
    <3>. QED  BY <1>5, <1>7, <1>10, <2>1, <3>1, <3>2
  <2>6. ~Rereads(y)  BY <2>2, <2>4 DEF Rereads
  <2>7. Cap(x, TRUE) = RowAddr(y)
    <3>1. Cap(x, TRUE) = (x.reg[12] + (x.vcc + 1) * Adv(x)) % MaMod  BY <1>10, NextAddr
    <3>2. Adv(y) = Adv(x)  BY DEF Adv
    <3>. QED  BY <1>3, <2>2, <2>4, <3>1, <3>2 DEF RowAddr
  <2>8. displayed => (y.vDisplay <=> y.vcc < y.reg[6])
    <3>. SUFFICES ASSUME displayed PROVE y.vDisplay <=> y.vcc < y.reg[6]  OBVIOUS
    <3>1. PICK r6 \in Nat : r6 = x.reg[6]  BY <1>1 DEF Numbers
    <3>2. x.vDisplay <=> vcc < r6  BY <1>2, <1>3, <3>1
    <3>3. y.vDisplay <=> (vcc < r6 /\ n # r6)  BY <2>4, <3>1, <3>2
    <3>. QED  BY <2>2, <2>4, <3>1, <3>3
  <2>9. y.vcc <= y.reg[4] /\ y.vlc <= y.reg[9]  BY <1>3, <2>1, <2>2, <2>4
  <2>10. LineRow(x) \in Nat  BY <1>7, <1>10
  <2>11. y.vcc = x.vcc + 1  BY <1>3, <2>2, <2>4
  <2>. QED  BY <2>4, <2>5, <2>6, <2>7, <2>8, <2>9, <2>10, <2>11
<1>11. CASE ~x.vadjust /\ ~x.lastRaster
  <2>1. vlc < r9  BY <1>2, <1>3, <1>11
  <2>2. PICK n \in Nat : n = vlc + 1  OBVIOUS
  <2>3. n % RMod = n
    <3>1. n \in 0 .. RMod - 1  BY <1>4, <2>1, <2>2, Widths
    <3>. QED  BY <3>1, Widths, ModSmall
  <2>4. ~y.vadjust /\ y.vcc = x.vcc /\ y.vlc = n /\ y.vDisplay = x.vDisplay  BY <1>3, <1>11, <2>2, <2>3 DEF Moved
  <2>5. LineRow(y) = top + n  BY <1>3, <1>5, <1>6, <2>4 DEF LineRow
  <2>6. Adv(y) = Adv(x) /\ RowAddr(y) = RowAddr(x)  BY <2>4 DEF Adv, RowAddr
  <2>7. Cap(x, TRUE) = RowAddr(y)
    <3>1. Cap(x, TRUE) = x.nextRow  BY <1>11 DEF Cap
    <3>2. x.nextRow = x.row /\ x.row = RowAddr(x)
      BY <1>2, <1>11 DEF FrameAt, Video!crtc_restore_next_row
    <3>. QED  BY <2>6, <3>1, <3>2
  <2>8. Rereads(y) => Video!crtc_start_addr(x) = RowAddr(y)
    <3>. SUFFICES ASSUME Rereads(y) PROVE Video!crtc_start_addr(x) = RowAddr(y)  OBVIOUS
    <3>1. y.vcc = 0  BY DEF Rereads
    <3>2. PICK adv \in Nat : adv = Adv(y)  BY <1>1 DEF Numbers, Adv
    <3>3. y.reg[12] + y.vcc * Adv(y) = x.reg[12]  BY <1>1, <3>1, <3>2 DEF Numbers
    <3>. QED  BY <3>3 DEF RowAddr, Video!crtc_start_addr
  <2>9. y.vcc <= y.reg[4] /\ y.vlc <= y.reg[9]  BY <1>2, <1>3, <1>11, <2>1, <2>2, <2>4
  <2>10. LineRow(x) \in Nat /\ LineRow(y) = LineRow(x) + 1  BY <1>7, <1>11, <2>2, <2>5
  <2>. QED  BY <1>2, <2>4, <2>7, <2>8, <2>9, <2>10
<1>. QED  BY <1>8, <1>9, <1>10, <1>11
LEMMA FrameOver ==
    ASSUME NEW x, CrtcOk(x), NEW y, CrtcOk(y), Ticked(x, y), x.hcc = x.reg[0], ~y.newFrame,
           NEW pos \in Nat, NEW displayed \in BOOLEAN, FrameAt(x, pos, displayed)
    PROVE  FrameAt(y, pos + 1, displayed) /\ LineRow(x) \in Nat /\ LineRow(y) = LineRow(x) + 1 /\ y.hcc = 0
           /\ (y.vcc # x.vcc => y.vcc = x.vcc + 1)
<1>1. Over(x, y) /\ y.reg = x.reg /\ y.type = x.type  BY DEF Ticked
<1>2. ~Finished(x) /\ Moved(x, y) /\ y.row = IF Rereads(y) THEN Video!crtc_start_addr(x) ELSE Cap(x, TRUE)
  BY <1>1 DEF Over, RowTo
<1>3. Numbers(x) /\ Numbers(y)  BY NumbersOk
<1>4. y.hcc = 0 /\ (y.hDisplay <=> y.reg[1] # 0) /\ y.nextRow = y.row /\ y.ma = y.row
      /\ (y.lastFrame <=> y.lastRaster /\ y.vcc = y.reg[4])
  BY <1>1 DEF Over, Latched
<1>5. /\ LineRow(x) \in Nat /\ LineRow(y) = LineRow(x) + 1
      /\ y.vadjust => y.vcc = y.reg[4] /\ y.vac < y.reg[5] /\ y.vlc = y.vac
      /\ ~y.vadjust => /\ y.vcc <= y.reg[4] /\ y.vlc <= y.reg[9]
                       /\ (IF Rereads(y) THEN Video!crtc_start_addr(x) ELSE Cap(x, TRUE)) = RowAddr(y)
      /\ displayed => (y.vDisplay <=> y.vcc < y.reg[6])
      /\ y.vcc # x.vcc => y.vcc = x.vcc + 1
  BY <1>1, <1>2, NextLine, Zenon
<1>6. pos + 1 = LineRow(y) * PerLine(y) + y.hcc
  <2>1. PICK n \in Nat, l \in Nat : n = LineRow(x) /\ l = PerLine(x) /\ l = x.reg[0] + 1
    BY <1>3, <1>5 DEF Numbers, PerLine
  <2>2. PerLine(y) = l  BY <1>1, <2>1 DEF PerLine
  <2>3. pos = n * l + x.hcc  BY <2>1 DEF FrameAt
  <2>4. (n + 1) * l = n * l + l /\ n * l \in Nat  BY NextTimes
  <2>5. x.hcc + 1 = l /\ x.hcc \in Nat  BY <1>3, <2>1 DEF Numbers
  <2>6. pos + 1 = (n + 1) * l  BY <2>3, <2>4, <2>5
  <2>. QED  BY <1>4, <1>5, <2>1, <2>2, <2>4, <2>6
<1>7. ~y.vadjust => y.row = RowAddr(y)  BY <1>2, <1>5
<1>8. ~y.vadjust => y.ma = (y.row + y.hcc) % MaMod
  <2>. SUFFICES ASSUME ~y.vadjust PROVE y.ma = (y.row + y.hcc) % MaMod  OBVIOUS
  <2>1. PICK s \in Int : s = y.reg[12] + y.vcc * Adv(y)
    <3>1. PICK u \in Nat, v \in Nat, w \in Nat : u = y.reg[12] /\ v = y.vcc /\ w = Adv(y)
      BY <1>3 DEF Numbers, Adv
    <3>2. u + v * w \in Int  OBVIOUS
    <3>. QED  BY <3>1, <3>2
  <2>2. PICK b \in 0 .. MaMod - 1 : b = y.row
    <3>1. s % MaMod \in 0 .. MaMod - 1  BY Widths, ModRange
    <3>. QED  BY <1>7, <2>1, <3>1 DEF RowAddr
  <2>3. b % MaMod = b  BY Widths, ModSmall
  <2>4. y.row + y.hcc = b  BY <1>4, <2>2
  <2>. QED  BY <1>4, <2>2, <2>3, <2>4
<1>9. y.nextRow = Video!crtc_restore_next_row(y)  BY <1>3, <1>4 DEF Numbers, Video!crtc_restore_next_row
<1>10. y.hcc <= y.reg[0] /\ (y.hDisplay <=> y.hcc < y.reg[1])  BY <1>3, <1>4 DEF Numbers
<1>11. FrameAt(y, pos + 1, displayed)  BY <1>4, <1>5, <1>6, <1>7, <1>8, <1>9, <1>10 DEF FrameAt
<1>. QED  BY <1>4, <1>5, <1>11

LEMMA FrameTick ==
    ASSUME NEW x, CrtcOk(x), NEW y, CrtcOk(y), Ticked(x, y), NEW g, HistOk(g), NEW k, HistTick(x, y, g, k),
           FrameInv(x, g)
    PROVE  FrameInv(y, k)
<1>1. /\ g.pos \in Nat /\ g.clean \in BOOLEAN /\ g.displayed \in BOOLEAN /\ k.displayed \in BOOLEAN
      /\ k.pos = IF y.newFrame THEN 0 ELSE g.pos + 1
      /\ (k.clean <=> g.clean \/ y.newFrame) /\ (k.displayed <=> g.displayed \/ y.newFrame)
  BY DEF HistOk, HistTick
<1>2. CASE y.newFrame
  <2>1. FrameAt(y, 0, TRUE)  BY <1>2, FrameBegins
  <2>2. k.pos = 0 /\ k.displayed = TRUE  BY <1>1, <1>2
  <2>. QED  BY <2>1, <2>2 DEF FrameInv
<1>3. CASE ~y.newFrame
  <2>. SUFFICES ASSUME k.clean PROVE FrameAt(y, k.pos, k.displayed)  BY DEF FrameInv
  <2>1. FrameAt(x, g.pos, g.displayed) /\ k.pos = g.pos + 1 /\ k.displayed = g.displayed
    BY <1>1, <1>3 DEF FrameInv
  <2>2. CASE x.hcc # x.reg[0]  BY <1>1, <2>1, <2>2, FrameAlong
  <2>3. CASE x.hcc = x.reg[0]  BY <1>1, <1>3, <2>1, <2>3, FrameOver
  <2>. QED  BY <2>2, <2>3
<1>. QED  BY <1>2, <1>3

LEMMA FrameLoaded ==
    ASSUME NEW x, CrtcOk(x), NEW b \in BOOLEAN, NEW y, y = Video!LoadedV3(x, b), NEW pos, NEW displayed,
           FrameAt(x, pos, displayed)
    PROVE  FrameAt(y, pos, FALSE)
<1>1. /\ CrtcOk(y) /\ Latched(y)
      /\ \A f \in {"reg", "type", "hcc", "vcc", "vlc", "vac", "vadjust", "row"} : y[f] = x[f]
      /\ y.ma = (x.row + x.hcc) % MaMod /\ y.nextRow = Video!crtc_restore_next_row(x)
  BY LoadV3Ok, Zenon
<1>2. /\ y.reg = x.reg /\ y.hcc = x.hcc /\ y.vcc = x.vcc /\ y.vlc = x.vlc /\ y.vac = x.vac
      /\ y.vadjust = x.vadjust /\ y.row = x.row
  BY <1>1
<1>3. LineRow(y) = LineRow(x) /\ PerLine(y) = PerLine(x) /\ RowAddr(y) = RowAddr(x)
      /\ Video!crtc_restore_next_row(y) = Video!crtc_restore_next_row(x)
  BY <1>2 DEF LineRow, RasterLines, PerLine, RowAddr, Adv, Video!crtc_restore_next_row
<1>. QED  BY <1>1, <1>2, <1>3 DEF FrameAt, Latched

(* Where the clocks of the frame put the controller *)
LEMMA FramePlace ==
    ASSUME CrtcOk(v1), FrameAt(v1, v2.pos, v2.displayed)
    PROVE  Video!Line = PerLine(v1) /\ Video!FrameLines = Height(v1) /\ Video!AtLine = LineRow(v1) /\ Video!AtChar = v1.hcc /\ LineRow(v1) \in Nat
<1>1. Numbers(v1)  BY NumbersOk
<1>2. PICK r4 \in Nat, r9 \in Nat, vcc \in Nat, vlc \in Nat, vac \in Nat :
          r4 = v1.reg[4] /\ r9 = v1.reg[9] /\ vcc = v1.vcc /\ vlc = v1.vlc /\ vac = v1.vac
  BY <1>1 DEF Numbers
<1>3. PICK l \in Nat \ {0} : l = PerLine(v1)
  <2>1. PerLine(v1) \in Nat \ {0}  BY <1>1 DEF Numbers, PerLine
  <2>. QED  BY <2>1, Zenon
<1>4. PICK n \in Nat : n = LineRow(v1)
  <2>1. (r4 + 1) * (r9 + 1) + vac \in Nat /\ vcc * (r9 + 1) + vlc \in Nat  BY NextTimes
  <2>. QED  BY <1>2, <2>1 DEF LineRow, RasterLines
<1>5. PICK e \in 0 .. l - 1 : e = v1.hcc  BY <1>1, <1>3 DEF Numbers, PerLine, FrameAt
<1>6. v2.pos = n * l + e  BY <1>3, <1>4, <1>5 DEF FrameAt
<1>7. (n * l + e) % l = e /\ (n * l + e) \div l = n  BY DivModIs
<1>8. Video!Line = l  BY <1>3 DEF Video!Line, PerLine
<1>9. Video!AtLine = n /\ Video!AtChar = e  BY <1>6, <1>7, <1>8 DEF Video!AtLine, Video!AtChar
<1>10. Video!FrameLines = Height(v1)  BY DEF Video!FrameLines, Video!Rows, Height, RasterLines
<1>. QED  BY <1>3, <1>4, <1>5, <1>8, <1>9, <1>10

(* The frame's invariant is the raster the registers describe *)
LEMMA FrameSound ==
    ASSUME CrtcOk(v1), HistOk(v2), FrameInv(v1, v2)
    PROVE  Video!FrameIsReference
<1>. SUFFICES ASSUME v2.clean
     PROVE  /\ v2.pos < Video!FrameLines * Video!Line
            /\ v1.hcc = Video!AtChar
            /\ Video!AtLine < Video!Rows =>
                  /\ v1.vcc = Video!AtLine \div (v1.reg[9] + 1) /\ v1.vlc = Video!AtLine % (v1.reg[9] + 1) /\ ~v1.vadjust
                  /\ v1.ma = (v1.reg[12] + (Video!AtLine \div (v1.reg[9] + 1)) * Video!Advance + Video!AtChar) % MaMod
            /\ Video!AtLine >= Video!Rows => v1.vadjust /\ v1.vcc = v1.reg[4] /\ v1.vlc = (Video!AtLine - Video!Rows) % RMod
            /\ v2.displayed => Video!crtc_de(v1) = (v1.hcc < v1.reg[1] /\ v1.vcc < v1.reg[6])
            /\ v2.displayed /\ v1.type = 1 => Video!crtc_read_status(v1) # v1.vDisplay
  BY Zenon DEF Video!FrameIsReference
<1>1. FrameAt(v1, v2.pos, v2.displayed) /\ Numbers(v1)  BY NumbersOk DEF FrameInv
<1>2. PICK r0 \in Nat, r4 \in Nat, r5 \in Nat, r9 \in Nat : r0 = v1.reg[0] /\ r4 = v1.reg[4] /\ r5 = v1.reg[5] /\ r9 = v1.reg[9]
  BY <1>1 DEF Numbers
<1>3. PICK vcc \in Nat, vlc \in Nat, vac \in Nat, hcc \in Nat : vcc = v1.vcc /\ vlc = v1.vlc /\ vac = v1.vac /\ hcc = v1.hcc
  BY <1>1 DEF Numbers
<1>4. PICK l \in Nat \ {0}, a \in Nat \ {0} : l = r0 + 1 /\ a = r9 + 1
  <2>1. r0 + 1 \in Nat \ {0} /\ r9 + 1 \in Nat \ {0}  OBVIOUS
  <2>. QED  BY <2>1, Zenon
<1>5. PICK rows \in Nat : rows = (r4 + 1) * a  BY <1>2, <1>4
<1>6. Video!Line = l /\ PerLine(v1) = l /\ RasterLines(v1) = a /\ Video!Rows = rows /\ Video!FrameLines = rows + r5 /\ Adv(v1) = Video!Advance
  BY <1>2, <1>4, <1>5 DEF Video!Line, PerLine, RasterLines, Video!Rows, Video!FrameLines, Adv, Video!Advance
<1>7. hcc \in 0 .. l - 1  BY <1>1, <1>2, <1>3, <1>4 DEF FrameAt
<1>8. PICK top \in Nat : top = vcc * a  BY <1>3, <1>4
<1>9. PICK n \in Nat : /\ n = LineRow(v1) /\ n = IF v1.vadjust THEN rows + vac ELSE top + vlc
  BY <1>2, <1>3, <1>5, <1>6, <1>8 DEF LineRow
<1>10. v2.pos = n * l + hcc  BY <1>1, <1>3, <1>6, <1>9 DEF FrameAt
<1>11. Video!AtLine = n /\ Video!AtChar = hcc  BY <1>1, <1>3, <1>9, FramePlace
<1>12. ~v1.vadjust => n < rows /\ vlc \in 0 .. a - 1
  <2>. SUFFICES ASSUME ~v1.vadjust PROVE n < rows /\ vlc \in 0 .. a - 1  OBVIOUS
  <2>1. vcc <= r4 /\ vlc <= r9  BY <1>1, <1>2, <1>3 DEF FrameAt
  <2>2. top <= r4 * a /\ rows = r4 * a + a /\ r4 * a \in Nat  BY <1>5, <1>8, <2>1, TimesMonotone, NextTimes
  <2>. QED  BY <1>4, <1>9, <2>1, <2>2
<1>13. v1.vadjust => n >= rows /\ n < rows + r5 /\ vac = n - rows
  <2>. SUFFICES ASSUME v1.vadjust PROVE n >= rows /\ n < rows + r5 /\ vac = n - rows  OBVIOUS
  <2>1. vac < r5  BY <1>1, <1>2, <1>3 DEF FrameAt
  <2>. QED  BY <1>9, <2>1
<1>14. v2.pos < Video!FrameLines * Video!Line
  <2>1. PICK f \in Nat : f = rows + r5  OBVIOUS
  <2>2. n + 1 <= f  BY <1>12, <1>13, <2>1
  <2>3. (n + 1) * l <= f * l /\ (n + 1) * l = n * l + l /\ n * l \in Nat /\ f * l \in Nat
    BY <2>2, <1>4, TimesMonotone, NextTimes
  <2>4. Video!FrameLines * Video!Line = f * l  BY <1>6, <2>1
  <2>. QED  BY <1>7, <1>10, <2>3, <2>4
<1>15. Video!AtLine < Video!Rows =>
          /\ v1.vcc = Video!AtLine \div (v1.reg[9] + 1) /\ v1.vlc = Video!AtLine % (v1.reg[9] + 1) /\ ~v1.vadjust
          /\ v1.ma = (v1.reg[12] + (Video!AtLine \div (v1.reg[9] + 1)) * Video!Advance + Video!AtChar) % MaMod
  <2>. SUFFICES ASSUME n < rows
       PROVE  /\ v1.vcc = n \div a /\ v1.vlc = n % a /\ ~v1.vadjust
              /\ v1.ma = (v1.reg[12] + (n \div a) * Video!Advance + hcc) % MaMod
    BY <1>2, <1>4, <1>6, <1>11
  <2>1. ~v1.vadjust  BY <1>13
  <2>2. n = vcc * a + vlc /\ vlc \in 0 .. a - 1  BY <1>8, <1>9, <1>12, <2>1
  <2>3. n % a = vlc /\ n \div a = vcc  BY <1>4, <2>2, DivModIs
  <2>4. v1.row = RowAddr(v1) /\ v1.ma = (v1.row + hcc) % MaMod  BY <1>1, <1>3, <2>1 DEF FrameAt
  <2>5. PICK s \in Int : s = v1.reg[12] + vcc * Video!Advance
    <3>1. PICK u \in Nat, w \in Nat : u = v1.reg[12] /\ w = Adv(v1)  BY <1>1 DEF Numbers, Adv
    <3>2. u + vcc * w \in Int  OBVIOUS
    <3>. QED  BY <1>6, <3>1, <3>2
  <2>6. v1.row = s % MaMod  BY <1>3, <1>6, <2>4, <2>5 DEF RowAddr
  <2>7. ((s % MaMod) + hcc) % MaMod = (s + hcc) % MaMod
    <3>1. MaMod \in Nat \ {0} /\ hcc \in Int  BY Widths
    <3>. QED  BY <3>1, ModAdd, Zenon
  <2>8. v1.reg[12] + (n \div a) * Video!Advance + hcc = s + hcc  BY <2>3, <2>5
  <2>. QED  BY <1>3, <2>1, <2>3, <2>4, <2>6, <2>7, <2>8
<1>16. Video!AtLine >= Video!Rows => v1.vadjust /\ v1.vcc = v1.reg[4] /\ v1.vlc = (Video!AtLine - Video!Rows) % RMod
  <2>. SUFFICES ASSUME n >= rows PROVE v1.vadjust /\ v1.vcc = v1.reg[4] /\ v1.vlc = (n - rows) % RMod
    BY <1>6, <1>11
  <2>1. v1.vadjust  BY <1>12
  <2>2. v1.vcc = v1.reg[4] /\ vac < r5 /\ v1.vlc = vac  BY <1>1, <1>2, <1>3, <2>1 DEF FrameAt
  <2>3. vac \in 0 .. RMod - 1  BY <1>1, <1>2, <1>3, <2>2, Widths DEF Numbers
  <2>4. vac % RMod = vac  BY <2>3, Widths, ModSmall
  <2>. QED  BY <1>13, <2>1, <2>2, <2>4
<1>17. v2.displayed => Video!crtc_de(v1) = (v1.hcc < v1.reg[1] /\ v1.vcc < v1.reg[6])
  <2>. SUFFICES ASSUME v2.displayed PROVE Video!crtc_de(v1) = (v1.hcc < v1.reg[1] /\ v1.vcc < v1.reg[6])  OBVIOUS
  <2>1. (v1.hDisplay <=> v1.hcc < v1.reg[1]) /\ (v1.vDisplay <=> v1.vcc < v1.reg[6])  BY <1>1 DEF FrameAt
  <2>. QED  BY <2>1 DEF Video!crtc_de
<1>18. v2.displayed /\ v1.type = 1 => Video!crtc_read_status(v1) # v1.vDisplay
  <2>. SUFFICES ASSUME v2.displayed, v1.type = 1 PROVE Video!crtc_read_status(v1) # v1.vDisplay  OBVIOUS
  <2>1. v1.vDisplay <=> v1.vcc < v1.reg[6]  BY <1>1 DEF FrameAt
  <2>2. v1.vDisplay \in BOOLEAN  BY DEF CrtcOk, Flags
  <2>3. (v1.vcc >= v1.reg[6]) <=> ~(v1.vcc < v1.reg[6])  BY <1>1 DEF Numbers
  <2>4. Video!crtc_read_status(v1) <=> v1.vcc >= v1.reg[6]  BY DEF Video!crtc_read_status
  <2>5. Video!crtc_read_status(v1) \in BOOLEAN  BY DEF Video!crtc_read_status
  <2>. QED  BY <2>1, <2>2, <2>3, <2>4, <2>5
<1>19. v1.hcc = Video!AtChar  BY <1>3, <1>11
<1>. QED  BY <1>14, <1>15, <1>16, <1>17, <1>18, <1>19
-----------------------------------------------------------------------------
(* VSYNC: where it is in the frame *)
Start7(x) == x.reg[7] * RasterLines(x)
VSteady(x) == 0 < x.reg[4] /\ x.reg[7] <= x.reg[4] /\ x.reg[0] >= MinVsyncHend /\ Video!Vsw(x) < Height(x)
VExact(x, t) == (x.vsync <=> t < Video!Vsw(x)) /\ (x.vsync => x.vsc = t)
(* t lines after its row (negative before): a pulse that writes left over  *)
(* lasts no longer than one the row started, and from the second frame on  *)
(* there is none.  f is the height.                                        *)
VAt(x, t, f, frames) ==
    /\ x.r7 => x.vcc = x.reg[7]
    /\ x.vcc = x.reg[7] => x.r7 \/ (frames = 0 /\ LineRow(x) = 0)
    /\ frames = 0 /\ t >= 0 /\ x.vsync => x.vsc + 1 >= t
    /\ frames = 1 /\ t < 0 /\ x.vsync => x.vsc + 1 >= t + f
    /\ frames >= 1 /\ t >= 0 => VExact(x, t)
    /\ frames = 2 /\ t < 0 => VExact(x, t + f)
VInv(x, g) == g.clean /\ g.loads = 0 /\ VSteady(x) => VAt(x, LineRow(x) - Start7(x), Height(x), g.frames)

LEMMA VswRange ==
    ASSUME NEW x, CrtcOk(x)
    PROVE  Video!Vsw(x) \in Nat /\ 1 <= Video!Vsw(x)
<1>1. PICK a \in Nat : a = x.reg[3]
  <2>1. RegsOk(x.reg)  BY DEF CrtcOk
  <2>2. x.reg[3] \in Nat  BY <2>1, RegTypes, Zenon DEF Video!Regs
  <2>. QED  BY <2>2
<1>2. a \div HswMod \in Nat  BY Widths
<1>. QED  BY <1>1, <1>2, Widths DEF Video!Vsw

(* The last line of the frame *)
LEMMA FinishedAt ==
    ASSUME NEW x, CrtcOk(x), NEW pos, NEW displayed, FrameAt(x, pos, displayed), Finished(x)
    PROVE  LineRow(x) + 1 = Height(x) /\ LineRow(x) \in Nat /\ x.vcc = x.reg[4]
<1>1. Numbers(x)  BY NumbersOk
<1>2. PICK r4 \in Nat, r5 \in Nat, r9 \in Nat, vcc \in Nat, vac \in Nat :
          r4 = x.reg[4] /\ r5 = x.reg[5] /\ r9 = x.reg[9] /\ vcc = x.vcc /\ vac = x.vac
  BY <1>1 DEF Numbers
<1>3. (r4 + 1) * (r9 + 1) = r4 * (r9 + 1) + (r9 + 1) /\ r4 * (r9 + 1) \in Nat  BY NextTimes
<1>4. Height(x) = r4 * (r9 + 1) + (r9 + 1) + r5  BY <1>2, <1>3 DEF Height, RasterLines
<1>5. CASE x.vadjust
  <2>1. vac + 1 = r5 /\ vcc = r4  BY <1>2, <1>5 DEF Finished, FrameAt
  <2>2. LineRow(x) = r4 * (r9 + 1) + (r9 + 1) + vac  BY <1>2, <1>3, <1>5 DEF LineRow, RasterLines
  <2>3. PICK a \in Nat : a = r4 * (r9 + 1)  BY <1>3
  <2>4. LineRow(x) = a + (r9 + 1) + vac /\ Height(x) = a + (r9 + 1) + r5  BY <1>4, <2>2, <2>3
  <2>. QED  BY <1>2, <2>1, <2>4
<1>6. CASE ~x.vadjust
  <2>1. x.lastRaster /\ x.vlc = r9 /\ vcc <= r4  BY <1>1, <1>2, <1>6 DEF Finished, FrameAt, Numbers
  <2>2. vcc = r4 /\ r5 = 0
    <3>1. CASE x.lastFrame  BY <1>2, <1>6, <3>1 DEF Finished, FrameAt
    <3>2. CASE ~x.lastFrame
      <4>1. (vcc + 1) % VMod = 0 /\ vcc # r4  BY <1>2, <1>6, <2>1, <3>2 DEF Finished, FrameAt
      <4>2. vcc + 1 < VMod  BY <1>1, <1>2, <2>1, <4>1, Widths DEF Numbers
      <4>3. vcc + 1 \in 0 .. VMod - 1  BY <4>2, Widths
      <4>4. (vcc + 1) % VMod = vcc + 1  BY <4>3, Widths, ModSmall
      <4>. QED  BY <4>1, <4>4
    <3>. QED  BY <3>1, <3>2
  <2>3. LineRow(x) = r4 * (r9 + 1) + r9  BY <1>2, <1>6, <2>1, <2>2 DEF LineRow, RasterLines
  <2>. QED  BY <1>2, <1>3, <1>4, <2>2, <2>3
<1>. QED  BY <1>5, <1>6

(* The lines since R7: none before the row, and within the frame *)
LEMMA VPlace ==
    ASSUME NEW x, CrtcOk(x), NEW pos, NEW displayed, FrameAt(x, pos, displayed), VSteady(x)
    PROVE  /\ LineRow(x) \in Nat /\ Start7(x) \in Nat /\ Height(x) \in Nat /\ LineRow(x) < Height(x)
           /\ Start7(x) < Height(x)
           /\ (LineRow(x) - Start7(x) >= 0 <=> x.vcc >= x.reg[7])
           /\ x.vcc = x.reg[7] /\ ~x.vadjust => LineRow(x) - Start7(x) = x.vlc
<1>1. Numbers(x)  BY NumbersOk
<1>2. PICK r4 \in Nat, r5 \in Nat, r7 \in Nat, r9 \in Nat :
          r4 = x.reg[4] /\ r5 = x.reg[5] /\ r7 = x.reg[7] /\ r9 = x.reg[9] /\ r7 <= r4
  BY <1>1 DEF Numbers, VSteady
<1>3. PICK vcc \in Nat, vlc \in Nat, vac \in Nat : vcc = x.vcc /\ vlc = x.vlc /\ vac = x.vac
  BY <1>1 DEF Numbers
<1>4. PICK a \in Nat : a = r9 + 1  OBVIOUS
<1>5. PICK s \in Nat : s = r7 * a  BY NextTimes
<1>6. PICK top \in Nat : top = vcc * a  BY NextTimes
<1>7. PICK z \in Nat : z = r4 * a  BY NextTimes
<1>8. (r4 + 1) * a = z + a /\ s <= z  BY <1>2, <1>5, <1>7, NextTimes, TimesMonotone
<1>9. Start7(x) = s /\ Height(x) = z + a + r5 /\ LineRow(x) = IF x.vadjust THEN z + a + vac ELSE top + vlc
  BY <1>2, <1>3, <1>4, <1>5, <1>6, <1>7, <1>8 DEF Start7, Height, LineRow, RasterLines
<1>10. CASE x.vadjust
  <2>1. vcc = r4 /\ vac < r5  BY <1>2, <1>3, <1>10 DEF FrameAt
  <2>2. LineRow(x) = z + a + vac  BY <1>9, <1>10
  <2>. QED  BY <1>2, <1>3, <1>4, <1>8, <1>9, <1>10, <2>1, <2>2
<1>11. CASE ~x.vadjust
  <2>1. vcc <= r4 /\ vlc <= r9  BY <1>2, <1>3, <1>11 DEF FrameAt
  <2>2. top <= z  BY <1>6, <1>7, <2>1, TimesMonotone
  <2>3. LineRow(x) = top + vlc  BY <1>9, <1>11
  <2>4. vcc >= r7 => top >= s  BY <1>5, <1>6, TimesMonotone
  <2>5. vcc < r7 => top + a <= s
    <3>. SUFFICES ASSUME vcc + 1 <= r7 PROVE top + a <= s  OBVIOUS
    <3>1. (vcc + 1) * a <= r7 * a /\ (vcc + 1) * a = vcc * a + a  BY TimesMonotone, NextTimes
    <3>. QED  BY <1>5, <1>6, <3>1
  <2>6. vcc = r7 => top = s  BY <1>5, <1>6
  <2>. QED  BY <1>2, <1>3, <1>4, <1>8, <1>9, <2>1, <2>2, <2>3, <2>4, <2>5, <2>6
<1>. QED  BY <1>10, <1>11
LEMMA VAlong ==
    ASSUME NEW x, NEW y, Ticked(x, y), x.hcc # x.reg[0]
    PROVE  /\ Height(y) = Height(x) /\ Start7(y) = Start7(x) /\ LineRow(y) = LineRow(x) /\ (VSteady(y) <=> VSteady(x))
           /\ \A t, f, frames : VAt(x, t, f, frames) => VAt(y, t, f, frames)
<1>1. Along(x, y) /\ y.reg = x.reg  BY DEF Ticked
<1>2. /\ y.vcc = x.vcc /\ y.vlc = x.vlc /\ y.vac = x.vac /\ y.vadjust = x.vadjust /\ y.vsync = x.vsync
      /\ y.vsc = x.vsc /\ y.r7 = x.r7
  BY <1>1 DEF Along, KeptAlong
<1>3. /\ Height(y) = Height(x) /\ Start7(y) = Start7(x) /\ LineRow(y) = LineRow(x) /\ Video!Vsw(y) = Video!Vsw(x)
      /\ (VSteady(y) <=> VSteady(x))
  BY <1>1, <1>2 DEF Height, Start7, LineRow, VSteady, Video!Vsw, RasterLines
<1>4. ASSUME NEW t, NEW f, NEW frames, VAt(x, t, f, frames) PROVE VAt(y, t, f, frames)
  BY <1>1, <1>2, <1>3, <1>4 DEF VAt, VExact
<1>. QED  BY <1>3, <1>4

LEMMA VOver ==
    ASSUME NEW x, CrtcOk(x), NEW y, CrtcOk(y), Ticked(x, y), x.hcc = x.reg[0], ~y.newFrame,
           NEW pos \in Nat, NEW displayed \in BOOLEAN, FrameAt(x, pos, displayed), VSteady(x), NEW frames \in 0 .. 2,
           VAt(x, LineRow(x) - Start7(x), Height(x), frames)
    PROVE  VAt(y, LineRow(y) - Start7(y), Height(y), frames)
<1>1. /\ FrameAt(y, pos + 1, displayed) /\ LineRow(x) \in Nat /\ LineRow(y) = LineRow(x) + 1
      /\ (y.vcc # x.vcc => y.vcc = x.vcc + 1)
  BY FrameOver
<1>2. y.reg = x.reg /\ Over(x, y)  BY DEF Ticked
<1>3. Height(y) = Height(x) /\ Start7(y) = Start7(x) /\ Video!Vsw(y) = Video!Vsw(x) /\ VSteady(y)
  BY <1>2 DEF Height, Start7, RasterLines, Video!Vsw, VSteady
<1>4. PICK n \in Nat, s \in Nat, f \in Nat : n = LineRow(x) /\ s = Start7(x) /\ f = Height(x)
  BY VPlace
<1>5. PICK t \in Int : t = n - s  OBVIOUS
<1>6. LineRow(y) - Start7(y) = t + 1  BY <1>1, <1>3, <1>4, <1>5
<1>7. (t >= 0 <=> x.vcc >= x.reg[7]) /\ t < f /\ s < f  BY <1>4, <1>5, VPlace
<1>8. (t + 1 >= 0 <=> y.vcc >= y.reg[7]) /\ (y.vcc = y.reg[7] /\ ~y.vadjust => t + 1 = y.vlc)
  BY <1>1, <1>3, <1>6, VPlace
<1>9. PICK w \in Nat : w = Video!Vsw(x) /\ w < f /\ w >= 1  BY <1>4, VswRange DEF VSteady
<1>10. PICK r7 \in Nat, vcc \in Nat, ycc \in Nat : r7 = x.reg[7] /\ vcc = x.vcc /\ ycc = y.vcc
  BY NumbersOk DEF Numbers
<1>11. PICK v \in Nat, u \in Nat : v = x.vsc /\ u = y.vsc  BY DEF CrtcOk
<1>12. /\ y.r7 <=> ycc = r7
       /\ y.vsync <=> (x.vsync /\ v + 1 < w) \/ (ycc = r7 /\ ~x.r7)
       /\ u = IF ycc = r7 /\ ~x.r7 /\ ~(x.vsync /\ v + 1 < w) THEN 0 ELSE IF x.vsync THEN v + 1 ELSE v
  <2>1. PulseV(x, y) /\ x.reg[0] >= MinVsyncHend  BY <1>2 DEF Over, VSteady
  <2>2. (LiveV(x) <=> x.vsync /\ v + 1 < w) /\ (StartsV(x, y) <=> ycc = r7 /\ ~x.r7)
    BY <1>9, <1>10, <1>11, <2>1 DEF LiveV, StartsV
  <2>. QED  BY <1>10, <1>11, <2>1, <2>2 DEF PulseV
<1>13. /\ x.r7 => vcc = r7
       /\ vcc = r7 => x.r7 \/ (frames = 0 /\ n = 0)
       /\ frames = 0 /\ t >= 0 /\ x.vsync => v + 1 >= t
       /\ frames = 1 /\ t < 0 /\ x.vsync => v + 1 >= t + f
       /\ frames >= 1 /\ t >= 0 => (x.vsync <=> t < w) /\ (x.vsync => v = t)
       /\ frames = 2 /\ t < 0 => (x.vsync <=> t + f < w) /\ (x.vsync => v = t + f)
  BY <1>4, <1>5, <1>9, <1>10, <1>11 DEF VAt, VExact
<1>14. SUFFICES /\ y.r7 => ycc = r7
                /\ ycc = r7 => y.r7 \/ (frames = 0 /\ n + 1 = 0)
                /\ frames = 0 /\ t + 1 >= 0 /\ y.vsync => u + 1 >= t + 1
                /\ frames = 1 /\ t + 1 < 0 /\ y.vsync => u + 1 >= t + 1 + f
                /\ frames >= 1 /\ t + 1 >= 0 => (y.vsync <=> t + 1 < w) /\ (y.vsync => u = t + 1)
                /\ frames = 2 /\ t + 1 < 0 => (y.vsync <=> t + 1 + f < w) /\ (y.vsync => u = t + 1 + f)
  BY <1>1, <1>2, <1>3, <1>4, <1>6, <1>9, <1>10, <1>11 DEF VAt, VExact
<1>15. (t >= 0 <=> vcc >= r7) /\ (t + 1 >= 0 <=> ycc >= r7) /\ (ycc = vcc \/ ycc = vcc + 1)
  BY <1>1, <1>2, <1>7, <1>8, <1>10
<1>16. CASE ycc # r7
  <2>1. y.vsync <=> x.vsync /\ v + 1 < w  BY <1>12, <1>16
  <2>2. x.vsync => u = v + 1  BY <1>12, <1>16
  <2>3. (t >= 0) <=> (t + 1 >= 0)  BY <1>15, <1>16
  <2>. QED  BY <1>7, <1>9, <1>12, <1>13, <1>16, <2>1, <2>2, <2>3
<1>17. CASE ycc = r7 /\ vcc # r7
  <2>1. ~x.r7 /\ t + 1 = 0  BY <1>13, <1>15, <1>17
  <2>2. frames >= 1 => ~(x.vsync /\ v + 1 < w)  BY <1>9, <1>13, <2>1
  <2>. QED  BY <1>9, <1>12, <1>17, <2>1, <2>2
<1>18. CASE ycc = r7 /\ vcc = r7
  <2>0. t >= 0  BY <1>15, <1>18
  <2>1. CASE x.r7
    <3>1. y.vsync <=> x.vsync /\ v + 1 < w  BY <1>12, <2>1
    <3>2. x.vsync => u = v + 1  BY <1>12, <2>1
    <3>. QED  BY <1>9, <1>12, <1>13, <1>18, <2>0, <2>1, <3>1, <3>2
  <2>2. CASE ~x.r7
    <3>1. frames = 0 /\ n = 0  BY <1>13, <1>18, <2>2
    <3>2. t = 0  BY <1>5, <2>0, <3>1
    <3>. QED  BY <1>12, <1>18, <3>1, <3>2
  <2>. QED  BY <2>1, <2>2
<1>. QED  BY <1>16, <1>17, <1>18

LEMMA VBegins ==
    ASSUME NEW x, CrtcOk(x), NEW y, CrtcOk(y), Ticked(x, y), y.newFrame, VSteady(x)
    PROVE  /\ VAt(y, LineRow(y) - Start7(y), Height(y), 0)
           /\ \A pos \in Nat, displayed \in BOOLEAN, frames \in 0 .. 2 :
                 FrameAt(x, pos, displayed) /\ VAt(x, LineRow(x) - Start7(x), Height(x), frames) =>
                     VAt(y, LineRow(y) - Start7(y), Height(y), IF frames < 2 THEN frames + 1 ELSE 2)
<1>1. /\ FrameAt(y, 0, TRUE) /\ LineRow(y) = 0 /\ y.hcc = 0 /\ ~y.vadjust /\ y.vcc = 0 /\ y.vlc = 0
      /\ x.hcc = x.reg[0] /\ Finished(x)
  BY FrameBegins, Zenon
<1>2. y.reg = x.reg /\ Over(x, y)  BY <1>1 DEF Ticked
<1>3. Height(y) = Height(x) /\ Start7(y) = Start7(x) /\ Video!Vsw(y) = Video!Vsw(x) /\ VSteady(y)
  BY <1>2 DEF Height, Start7, RasterLines, Video!Vsw, VSteady
<1>4. PICK s \in Nat, f \in Nat : s = Start7(y) /\ f = Height(y) /\ s < f  BY <1>1, <1>3, VPlace
<1>5. (0 - s >= 0 <=> 0 >= y.reg[7]) /\ LineRow(y) - Start7(y) = 0 - s  BY <1>1, <1>3, <1>4, VPlace
<1>9. PICK w \in Nat : w = Video!Vsw(y) /\ w < f /\ w >= 1  BY <1>3, <1>4, VswRange DEF VSteady
<1>10. PICK r4 \in Nat, r7 \in Nat, vcc \in Nat : r4 = x.reg[4] /\ r7 = x.reg[7] /\ vcc = x.vcc
  BY NumbersOk DEF Numbers
<1>11. PICK v \in Nat, u \in Nat : v = x.vsc /\ u = y.vsc  BY DEF CrtcOk
<1>12. /\ y.r7 <=> 0 = r7
       /\ y.vsync <=> (x.vsync /\ v + 1 < w) \/ (0 = r7 /\ ~x.r7)
       /\ u = IF 0 = r7 /\ ~x.r7 /\ ~(x.vsync /\ v + 1 < w) THEN 0 ELSE IF x.vsync THEN v + 1 ELSE v
  <2>1. PulseV(x, y) /\ x.reg[0] >= MinVsyncHend  BY <1>2 DEF Over, VSteady
  <2>2. (LiveV(x) <=> x.vsync /\ v + 1 < w) /\ (StartsV(x, y) <=> 0 = r7 /\ ~x.r7)
    BY <1>1, <1>3, <1>9, <1>10, <1>11, <2>1 DEF LiveV, StartsV
  <2>. QED  BY <1>1, <1>10, <1>11, <2>1, <2>2 DEF PulseV
<1>13. s = 0 <=> r7 = 0  BY <1>2, <1>5, <1>10
<1>14. VAt(y, LineRow(y) - Start7(y), Height(y), 0)
  <2>1. y.r7 <=> y.vcc = y.reg[7]  BY <1>1, <1>2, <1>10, <1>12
  <2>2. LineRow(y) - Start7(y) >= 0 /\ y.vsync => y.vsc + 1 >= LineRow(y) - Start7(y)  BY <1>4, <1>5, <1>11
  <2>. QED  BY <2>1, <2>2 DEF VAt
<1>15. ASSUME NEW pos \in Nat, NEW displayed \in BOOLEAN, FrameAt(x, pos, displayed), NEW frames \in 0 .. 2,
              VAt(x, LineRow(x) - Start7(x), Height(x), frames)
       PROVE  VAt(y, LineRow(y) - Start7(y), Height(y), IF frames < 2 THEN frames + 1 ELSE 2)
  <2>1. LineRow(x) + 1 = f /\ LineRow(x) \in Nat /\ vcc = r4  BY <1>1, <1>3, <1>4, <1>10, <1>15, FinishedAt
  <2>2. PICK t \in Nat : t = LineRow(x) - Start7(x) /\ t = f - 1 - s /\ t < f  BY <1>3, <1>4, <2>1
  <2>3. 0 < r4 /\ r7 <= r4  BY <1>10 DEF VSteady
  <2>4. /\ x.r7 => vcc = r7
        /\ frames = 0 /\ x.vsync => v + 1 >= t
        /\ frames >= 1 => (x.vsync <=> t < w) /\ (x.vsync => v = t)
    BY <1>3, <1>9, <1>10, <1>11, <1>15, <2>2 DEF VAt, VExact
  <2>5. PICK k \in 1 .. 2 : k = IF frames < 2 THEN frames + 1 ELSE 2  OBVIOUS
  <2>6. SUFFICES /\ s = 0 => y.vsync /\ u = 0
                 /\ s > 0 /\ frames = 0 /\ y.vsync => u + 1 >= f - s
                 /\ s > 0 /\ frames >= 1 => (y.vsync <=> f - s < w) /\ (y.vsync => u = f - s)
    <3>1. y.r7 <=> y.vcc = y.reg[7]  BY <1>1, <1>2, <1>10, <1>12
    <3>2. y.vsync \in BOOLEAN  BY <1>2 DEF Over, PulseV
    <3>3. k = 1 => frames = 0  BY <2>5
    <3>4. k = 1 /\ 0 - s < 0 /\ y.vsync => y.vsc + 1 >= 0 - s + f  BY <1>11, <2>6, <3>3
    <3>5. 0 - s >= 0 => VExact(y, 0 - s)  BY <1>9, <1>11, <2>6 DEF VExact
    <3>6. k = 2 => frames >= 1  BY <2>5
    <3>7. k = 2 /\ 0 - s < 0 => VExact(y, 0 - s + f)  BY <1>9, <1>11, <2>6, <3>6 DEF VExact
    <3>. QED  BY <1>4, <1>5, <2>5, <3>1, <3>4, <3>5, <3>7 DEF VAt
  <2>7. CASE s = 0
    <3>1. ~x.r7 /\ r7 = 0  BY <1>13, <2>3, <2>1, <2>4, <2>7
    <3>2. ~(x.vsync /\ v + 1 < w)  BY <1>9, <2>2, <2>4, <2>7
    <3>. QED  BY <1>12, <2>7, <3>1, <3>2
  <2>8. CASE s > 0
    <3>1. r7 # 0  BY <1>13, <2>8
    <3>2. (y.vsync <=> x.vsync /\ v + 1 < w) /\ (x.vsync => u = v + 1)  BY <1>12, <3>1
    <3>. QED  BY <1>9, <2>2, <2>4, <2>8, <3>2
  <2>. QED  BY <2>7, <2>8
<1>. QED  BY <1>14, <1>15

LEMMA VTick ==
    ASSUME NEW x, CrtcOk(x), NEW y, CrtcOk(y), Ticked(x, y), NEW g, HistOk(g), NEW k, HistTick(x, y, g, k),
           FrameInv(x, g), VInv(x, g)
    PROVE  VInv(y, k)
<1>. SUFFICES ASSUME k.clean, k.loads = 0, VSteady(y)
     PROVE  VAt(y, LineRow(y) - Start7(y), Height(y), k.frames)
  BY DEF VInv
<1>1. /\ g.pos \in Nat /\ g.clean \in BOOLEAN /\ g.displayed \in BOOLEAN /\ g.frames \in 0 .. 2 /\ g.loads = 0
      /\ (k.clean <=> g.clean \/ y.newFrame)
      /\ k.frames = IF ~y.newFrame THEN g.frames
                    ELSE IF g.clean THEN (IF g.frames < 2 THEN g.frames + 1 ELSE 2) ELSE 0
  BY DEF HistOk, HistTick
<1>2. y.reg = x.reg  BY DEF Ticked
<1>3. VSteady(x)  BY <1>2 DEF VSteady, Height, RasterLines, Video!Vsw
<1>4. g.clean => FrameAt(x, g.pos, g.displayed) /\ VAt(x, LineRow(x) - Start7(x), Height(x), g.frames)
  BY <1>1, <1>3 DEF FrameInv, VInv
<1>5. CASE ~y.newFrame
  <2>1. k.frames = g.frames /\ g.clean  BY <1>1, <1>5
  <2>2. CASE x.hcc # x.reg[0]
    <3>1. VAt(y, LineRow(x) - Start7(x), Height(x), g.frames)  BY <1>4, <2>1, <2>2, VAlong
    <3>. QED  BY <2>1, <2>2, <3>1, VAlong
  <2>3. CASE x.hcc = x.reg[0]  BY <1>1, <1>3, <1>4, <1>5, <2>1, <2>3, VOver
  <2>. QED  BY <2>2, <2>3
<1>6. CASE y.newFrame
  <2>1. CASE g.clean
    <3>1. k.frames = IF g.frames < 2 THEN g.frames + 1 ELSE 2  BY <1>1, <1>6, <2>1
    <3>2. VAt(y, LineRow(y) - Start7(y), Height(y), IF g.frames < 2 THEN g.frames + 1 ELSE 2)
      BY <1>1, <1>3, <1>4, <1>6, <2>1, VBegins
    <3>. QED  BY <3>1, <3>2
  <2>2. CASE ~g.clean
    <3>1. k.frames = 0  BY <1>1, <1>6, <2>2
    <3>. QED  BY <1>3, <1>6, <3>1, VBegins
  <2>. QED  BY <2>1, <2>2
<1>. QED  BY <1>5, <1>6
-----------------------------------------------------------------------------
(* HSYNC: the clocks since R2 in the line, and what is left of an odd pulse *)
Since2(x) == IF x.hcc >= x.reg[2] THEN x.hcc - x.reg[2] ELSE x.hcc - x.reg[2] + PerLine(x)
HSteady(x) == x.reg[2] \in 1 .. x.reg[0] /\ Video!Hsw(x) <= x.reg[0] /\ HswMod <= Height(x) * PerLine(x)
HExact(x) == (x.hsync <=> Since2(x) < Video!Hsw(x)) /\ (x.hsync => x.hsc = Since2(x) + 1)
Rest(w, n) == IF n = w THEN 0 ELSE ((w - n - 1) % HswMod) + 1
(* t clocks after the writes ended: an odd pulse, and the time without one *)
(* after it, are over HswMod clocks later; a frame is no shorter.          *)
HAt(x, t, frames) ==
    HExact(x) \/ /\ frames < 2
                 /\ x.hsync => t + Rest(Video!Hsw(x), x.hsc) <= HswMod
                 /\ ~x.hsync => Since2(x) < Video!Hsw(x) /\ t - Since2(x) <= HswMod + 1
HInv(x, g) == g.clean /\ g.loads = 0 /\ HSteady(x) => HAt(x, g.pos + g.frames * (Height(x) * PerLine(x)), g.frames)

LEMMA RestIs ==
    ASSUME NEW w \in 0 .. HswMod, NEW n \in 0 .. HswMod
    PROVE  Rest(w, n) = IF n <= w THEN w - n ELSE IF n = HswMod /\ w = 0 THEN HswMod ELSE w - n + HswMod
<1>m. HswMod \in Nat \ {0}  BY Widths
<1>1. CASE n = w  BY <1>1 DEF Rest
<1>2. CASE n < w
  <2>1. w - n - 1 \in 0 .. HswMod - 1  BY <1>m, <1>2
  <2>2. (w - n - 1) % HswMod = w - n - 1  BY <1>m, <2>1, ModSmall
  <2>. QED  BY <1>2, <2>2 DEF Rest
<1>3. CASE n > w /\ ~(n = HswMod /\ w = 0)
  <2>1. PICK t \in 0 .. HswMod - 1 : t = w - n - 1 + HswMod
    <3>1. w - n - 1 + HswMod \in 0 .. HswMod - 1  BY <1>m, <1>3
    <3>. QED  BY <3>1
  <2>2. PICK q \in Int : q = -1  OBVIOUS
  <2>3. w - n - 1 = q * HswMod + t  BY <1>m, <2>1, <2>2
  <2>4. (q * HswMod + t) % HswMod = t  BY <1>m, DivModIs
  <2>. QED  BY <1>m, <1>3, <2>1, <2>3, <2>4 DEF Rest
<1>4. CASE n = HswMod /\ w = 0
  <2>1. PICK t \in 0 .. HswMod - 1 : t = HswMod - 1  BY <1>m
  <2>2. PICK q \in Int : q = -2  OBVIOUS
  <2>3. w - n - 1 = q * HswMod + t  BY <1>m, <1>4, <2>1, <2>2
  <2>4. (q * HswMod + t) % HswMod = t  BY <1>m, DivModIs
  <2>. QED  BY <1>m, <1>4, <2>1, <2>3, <2>4 DEF Rest
<1>5. n = w \/ n < w \/ n > w  BY <1>m
<1>. QED  BY <1>1, <1>2, <1>3, <1>4, <1>5

LEMMA RestFalls ==
    ASSUME NEW w \in 0 .. HswMod, NEW n \in 0 .. HswMod, n # w,
           NEW z, z = IF w < HswMod THEN (n + 1) % HswMod ELSE n + 1
    PROVE  z \in 0 .. HswMod /\ Rest(w, z) = Rest(w, n) - 1 /\ Rest(w, n) \in 1 .. HswMod
<1>m. HswMod \in Nat \ {0}  BY Widths
<1>1. z = IF w = HswMod \/ n + 1 < HswMod THEN n + 1
          ELSE IF n + 1 = HswMod THEN 0 ELSE IF HswMod = 1 THEN 0 ELSE 1
  <2>1. CASE w = HswMod  BY <2>1
  <2>2. CASE w < HswMod /\ n + 1 < HswMod
    <3>1. n + 1 \in 0 .. HswMod - 1  BY <1>m, <2>2
    <3>2. (n + 1) % HswMod = n + 1  BY <1>m, <3>1, ModSmall
    <3>. QED  BY <2>2, <3>2
  <2>3. CASE w < HswMod /\ n + 1 = HswMod
    <3>1. HswMod % HswMod = 0  BY <1>m, ModSmall
    <3>. QED  BY <2>3, <3>1
  <2>4. CASE w < HswMod /\ n = HswMod
    <3>1. CASE HswMod = 1
      <4>1. (n + 1) % HswMod = 0  BY <2>4, <3>1
      <4>. QED  BY <2>4, <3>1, <4>1
    <3>2. CASE HswMod # 1
      <4>1. 1 \in 0 .. HswMod - 1  BY <1>m, <3>2
      <4>2. (1 + HswMod) % HswMod = 1  BY <1>m, <4>1, ModSmall
      <4>3. n + 1 = 1 + HswMod  BY <2>4
      <4>. QED  BY <1>m, <2>4, <3>2, <4>2, <4>3
    <3>. QED  BY <3>1, <3>2
  <2>. QED  BY <1>m, <2>1, <2>2, <2>3, <2>4
<1>2. z \in 0 .. HswMod  BY <1>m, <1>1
<1>3. Rest(w, n) = IF n <= w THEN w - n ELSE IF n = HswMod /\ w = 0 THEN HswMod ELSE w - n + HswMod  BY RestIs
<1>4. Rest(w, z) = IF z <= w THEN w - z ELSE IF z = HswMod /\ w = 0 THEN HswMod ELSE w - z + HswMod  BY <1>2, RestIs
<1>. QED  BY <1>m, <1>1, <1>2, <1>3, <1>4

(* One clock further *)
LEMMA SinceStep ==
    ASSUME NEW x, CrtcOk(x), NEW y, CrtcOk(y), Ticked(x, y), HSteady(x), x.hcc <= x.reg[0]
    PROVE  /\ Since2(x) \in 0 .. x.reg[0] /\ Since2(y) = IF Since2(x) = x.reg[0] THEN 0 ELSE Since2(x) + 1
           /\ (x.hcc + 1) % HMod = x.reg[2] <=> Since2(x) = x.reg[0]
           /\ y.hcc <= x.reg[0]
<1>1. Numbers(x) /\ y.reg = x.reg  BY NumbersOk DEF Ticked
<1>2. PICK r0 \in Nat, r2 \in Nat, n \in Nat : /\ r0 = x.reg[0] /\ r2 = x.reg[2] /\ n = x.hcc
                                              /\ r2 >= 1 /\ r2 <= r0 /\ n <= r0 /\ r0 < HMod
  BY <1>1 DEF Numbers, HSteady
<1>3. Since2(x) = IF n >= r2 THEN n - r2 ELSE n - r2 + (r0 + 1)  BY <1>2 DEF Since2, PerLine
<1>4. Since2(y) = IF y.hcc >= r2 THEN y.hcc - r2 ELSE y.hcc - r2 + (r0 + 1)  BY <1>1, <1>2 DEF Since2, PerLine
<1>5. CASE n # r0
  <2>1. n + 1 \in 0 .. HMod - 1  BY <1>2, <1>5, Widths
  <2>2. (n + 1) % HMod = n + 1  BY <2>1, Widths, ModSmall
  <2>3. y.hcc = n + 1  BY <1>2, <1>5, <2>2 DEF Ticked, Along
  <2>. QED  BY <1>2, <1>3, <1>4, <1>5, <2>2, <2>3
<1>6. CASE n = r0
  <2>1. y.hcc = 0  BY <1>2, <1>6 DEF Ticked, Over
  <2>2. (n + 1) % HMod = IF r0 + 1 = HMod THEN 0 ELSE r0 + 1
    <3>1. CASE r0 + 1 = HMod
      <4>1. HMod % HMod = 0  BY Widths, ModSmall
      <4>. QED  BY <1>6, <3>1, <4>1
    <3>2. CASE r0 + 1 # HMod
      <4>1. n + 1 \in 0 .. HMod - 1  BY <1>2, <1>6, <3>2, Widths
      <4>2. (n + 1) % HMod = n + 1  BY <4>1, Widths, ModSmall
      <4>. QED  BY <1>6, <3>2, <4>2
    <3>. QED  BY <3>1, <3>2
  <2>. QED  BY <1>2, <1>3, <1>4, <1>6, <2>1, <2>2
<1>. QED  BY <1>5, <1>6

LEMMA HStep ==
    ASSUME NEW x, CrtcOk(x), NEW y, CrtcOk(y), Ticked(x, y), HSteady(x), x.hcc <= x.reg[0],
           NEW t \in Nat, NEW frames \in 0 .. 2, HAt(x, t, frames)
    PROVE  HAt(y, t + 1, frames)
<1>1. y.reg = x.reg /\ y.type = x.type /\ Pulse(x, y)  BY DEF Ticked
<1>2. PICK w \in 0 .. HswMod : w = Video!Hsw(x) /\ w = Video!Hsw(y)
  <2>1. RegsOk(x.reg)  BY DEF CrtcOk
  <2>. QED  BY <1>1, <2>1, HswRange DEF Video!Hsw
<1>3. PICK r0 \in Nat : r0 = x.reg[0] /\ w <= r0  BY <1>2, NumbersOk DEF Numbers, HSteady
<1>4. PICK e \in 0 .. r0 : e = Since2(x)  BY <1>3, SinceStep
<1>5. PICK d \in 0 .. r0 : d = Since2(y) /\ d = IF e = r0 THEN 0 ELSE e + 1  BY <1>3, <1>4, SinceStep
<1>6. PICK n \in 0 .. HswMod, m \in 0 .. HswMod : n = x.hsc /\ m = y.hsc  BY DEF CrtcOk
<1>7. x.hsync \in BOOLEAN /\ y.hsync \in BOOLEAN  BY DEF CrtcOk, Flags
<1>8. PICK starts \in BOOLEAN : starts <=> w # 0 /\ ~x.hsync /\ e = r0  OBVIOUS
<1>9. starts <=> (w # 0 /\ ~x.hsync /\ (x.hcc + 1) % HMod = x.reg[2])  BY <1>3, <1>4, <1>8, SinceStep
<1>10. PICK k \in 0 .. HswMod : k = IF starts THEN 0 ELSE n  BY Widths
<1>11. PICK clock : clock = IF w < HswMod THEN (k + 1) % HswMod ELSE k + 1  OBVIOUS
<1>12. IF ~x.hsync /\ ~starts THEN ~y.hsync
       ELSE (y.hsync <=> k # w) /\ m = IF k = w THEN k ELSE clock
  <2>1. CASE ~x.hsync /\ ~starts  BY <1>1, <1>2, <1>9, <2>1 DEF Pulse
  <2>2. CASE x.hsync \/ starts
    <3>1. y.hsync = ~(k = w) /\ y.hsc = IF k = w THEN k ELSE clock
      BY <1>1, <1>2, <1>6, <1>9, <1>10, <1>11, <2>2 DEF Pulse
    <3>. QED  BY <1>6, <2>2, <3>1
  <2>. QED  BY <2>1, <2>2
<1>13. k # w => clock \in 0 .. HswMod /\ Rest(w, clock) = Rest(w, k) - 1 /\ Rest(w, k) \in 1 .. HswMod
  BY <1>11, RestFalls
<1>14. HExact(x) <=> ((x.hsync <=> e < w) /\ (x.hsync => n = e + 1))  BY <1>2, <1>4, <1>6 DEF HExact
<1>15. HExact(y) <=> ((y.hsync <=> d < w) /\ (y.hsync => m = d + 1))  BY <1>2, <1>5, <1>6 DEF HExact
<1>16. CASE HExact(x)
  <2>1. CASE x.hsync
    <3>1. e < w /\ n = e + 1 /\ ~starts /\ k = n /\ d = e + 1  BY <1>3, <1>5, <1>8, <1>10, <1>14, <1>16, <2>1
    <3>2. n # w => clock = n + 1
      <4>. SUFFICES ASSUME n # w, w < HswMod PROVE clock = n + 1  BY <1>11, <3>1
      <4>1. n + 1 \in 0 .. HswMod - 1  BY <3>1, Widths
      <4>. QED  BY <1>11, <3>1, <4>1, Widths, ModSmall
    <3>. QED  BY <1>12, <1>15, <2>1, <3>1, <3>2 DEF HAt
  <2>2. CASE ~x.hsync /\ ~starts
    <3>1. e >= w /\ ~y.hsync  BY <1>12, <1>14, <1>16, <2>2
    <3>2. d >= w  BY <1>3, <1>5, <1>8, <2>2, <3>1
    <3>. QED  BY <1>15, <3>1, <3>2 DEF HAt
  <2>3. CASE starts
    <3>1. d = 0 /\ w # 0 /\ k = 0  BY <1>5, <1>8, <1>10, <2>3
    <3>2. clock = 1
      <4>. SUFFICES ASSUME w < HswMod PROVE clock = 1  BY <1>11, <3>1
      <4>1. 1 \in 0 .. HswMod - 1  BY <3>1, Widths
      <4>2. 1 % HswMod = 1  BY <4>1, Widths, ModSmall
      <4>. QED  BY <1>11, <3>1, <4>2
    <3>3. y.hsync /\ m = 1  BY <1>12, <2>3, <3>1, <3>2
    <3>. QED  BY <1>15, <3>1, <3>3 DEF HAt
  <2>. QED  BY <2>1, <2>2, <2>3
<1>17. CASE ~HExact(x)
  <2>1. /\ frames < 2 /\ (x.hsync => t + Rest(w, n) <= HswMod) /\ (~x.hsync => e < w /\ t - e <= HswMod + 1)
    BY <1>2, <1>4, <1>6, <1>17 DEF HAt
  <2>2. CASE x.hsync /\ n = w
    <3>1. ~y.hsync  BY <1>8, <1>10, <1>12, <2>2
    <3>2. Rest(w, n) = 0  BY <2>2 DEF Rest
    <3>3. t <= HswMod  BY <2>1, <2>2, <3>2
    <3>4. CASE d < w
      <4>1. t + 1 - d <= HswMod + 1  BY <3>3, Widths
      <4>. QED  BY <1>2, <1>5, <2>1, <3>1, <3>4, <4>1 DEF HAt
    <3>5. CASE d >= w  BY <1>15, <3>1, <3>5 DEF HAt
    <3>. QED  BY <3>4, <3>5
  <2>3. CASE x.hsync /\ n # w
    <3>1. k = n /\ y.hsync /\ m = clock  BY <1>8, <1>10, <1>12, <2>3
    <3>2. t + 1 + Rest(w, m) <= HswMod  BY <1>13, <2>1, <2>3, <3>1, Widths
    <3>. QED  BY <1>2, <1>6, <2>1, <3>1, <3>2 DEF HAt
  <2>4. CASE ~x.hsync
    <3>1. e < w /\ e < r0 /\ ~starts  BY <1>3, <1>8, <2>1, <2>4
    <3>2. ~y.hsync /\ d = e + 1  BY <1>5, <1>12, <2>4, <3>1
    <3>3. CASE d < w
      <4>1. t + 1 - d <= HswMod + 1  BY <2>1, <2>4, <3>2, Widths
      <4>. QED  BY <1>2, <1>5, <2>1, <3>2, <3>3, <4>1 DEF HAt
    <3>4. CASE d >= w  BY <1>15, <3>2, <3>4 DEF HAt
    <3>. QED  BY <3>3, <3>4
  <2>. QED  BY <2>2, <2>3, <2>4
<1>. QED  BY <1>16, <1>17
LEMMA HStart ==
    ASSUME NEW x, CrtcOk(x), HSteady(x), x.hcc <= x.reg[0]
    PROVE  HAt(x, 0, 0)
<1>1. PICK w \in 0 .. HswMod, n \in 0 .. HswMod : w = Video!Hsw(x) /\ n = x.hsc  BY HswRange DEF CrtcOk
<1>2. Rest(w, n) <= HswMod
  <2>1. Rest(w, n) = IF n <= w THEN w - n ELSE IF n = HswMod /\ w = 0 THEN HswMod ELSE w - n + HswMod
    BY RestIs
  <2>. QED  BY <2>1, Widths
<1>3. Since2(x) \in Nat
  <2>1. x.reg[2] \in Int /\ x.reg[2] <= x.reg[0] /\ x.reg[2] >= 1  BY DEF HSteady
  <2>2. x.hcc \in Nat /\ x.reg[0] \in Nat  BY NumbersOk DEF Numbers
  <2>. QED  BY <2>1, <2>2 DEF Since2, PerLine
<1>4. Rest(w, n) \in Int  BY RestIs, Widths
<1>5. x.hsync => 0 + Rest(Video!Hsw(x), x.hsc) <= HswMod  BY <1>1, <1>2, <1>4
<1>6. CASE x.hsync  BY <1>5, <1>6 DEF HAt
<1>7. CASE ~x.hsync
  <2>1. CASE Since2(x) < Video!Hsw(x)
    <3>1. 0 - Since2(x) <= HswMod + 1  BY <1>3, Widths
    <3>. QED  BY <1>7, <2>1, <3>1 DEF HAt
  <2>2. CASE ~(Since2(x) < Video!Hsw(x))  BY <1>7, <2>2 DEF HAt, HExact
  <2>. QED  BY <2>1, <2>2
<1>. QED  BY <1>6, <1>7

(* Two undisturbed frames outlast every odd pulse *)
LEMMA HLate ==
    ASSUME NEW x, CrtcOk(x), HSteady(x), x.hcc <= x.reg[0], NEW t \in Nat, NEW p \in Nat, p = Height(x) * PerLine(x),
           t >= p + p, NEW frames, HAt(x, t, frames)
    PROVE  HExact(x)
<1>. SUFFICES ASSUME ~HExact(x) PROVE FALSE  OBVIOUS
<1>1. PICK w \in 0 .. HswMod, n \in 0 .. HswMod : w = Video!Hsw(x) /\ n = x.hsc  BY HswRange DEF CrtcOk
<1>2. PICK r \in Nat : r = Rest(w, n)  BY RestIs, Widths
<1>3. PICK r0 \in Nat, r2 \in Nat, e \in Nat : r0 = x.reg[0] /\ r2 = x.reg[2] /\ e = x.hcc /\ w <= r0 /\ r2 <= r0 /\ e <= r0
  BY <1>1, NumbersOk DEF Numbers, HSteady
<1>4. p >= HswMod /\ p >= r0 + 1
  <2>1. PICK f \in Nat, l \in Nat : f = Height(x) /\ l = PerLine(x) /\ l = r0 + 1 /\ f >= 1
    <3>1. PICK r4 \in Nat, r5 \in Nat, r9 \in Nat : r4 = x.reg[4] /\ r5 = x.reg[5] /\ r9 = x.reg[9]
      BY NumbersOk DEF Numbers
    <3>2. (r4 + 1) * (r9 + 1) = r4 * (r9 + 1) + (r9 + 1) /\ r4 * (r9 + 1) \in Nat  BY NextTimes
    <3>3. Height(x) = r4 * (r9 + 1) + (r9 + 1) + r5  BY <3>1, <3>2 DEF Height, RasterLines
    <3>. QED  BY <1>3, <3>2, <3>3 DEF PerLine
  <2>2. 1 * l <= f * l  BY <2>1, TimesMonotone
  <2>. QED  BY <2>1, <2>2 DEF HSteady
<1>5. PICK s \in Int : s = Since2(x)  BY <1>3 DEF Since2, PerLine
<1>6. (x.hsync => t + r <= HswMod) /\ (~x.hsync => s < w /\ t - s <= HswMod + 1)
  BY <1>1, <1>2, <1>5 DEF HAt
<1>. QED  BY <1>3, <1>4, <1>6, Widths

LEMMA HTick ==
    ASSUME NEW x, CrtcOk(x), NEW y, CrtcOk(y), Ticked(x, y), NEW g, HistOk(g), NEW k, HistTick(x, y, g, k),
           FrameInv(x, g), HInv(x, g)
    PROVE  HInv(y, k)
<1>. SUFFICES ASSUME k.clean, k.loads = 0, HSteady(y)
     PROVE  HAt(y, k.pos + k.frames * (Height(y) * PerLine(y)), k.frames)
  BY DEF HInv
<1>1. /\ g.pos \in Nat /\ g.clean \in BOOLEAN /\ g.displayed \in BOOLEAN /\ g.frames \in 0 .. 2 /\ g.loads = 0
      /\ (k.clean <=> g.clean \/ y.newFrame) /\ k.pos = IF y.newFrame THEN 0 ELSE g.pos + 1
      /\ k.frames = IF ~y.newFrame THEN g.frames
                    ELSE IF g.clean THEN (IF g.frames < 2 THEN g.frames + 1 ELSE 2) ELSE 0
  BY DEF HistOk, HistTick
<1>2. y.reg = x.reg /\ y.type = x.type  BY DEF Ticked
<1>3. HSteady(x) /\ Height(y) = Height(x) /\ PerLine(y) = PerLine(x)
  BY <1>2 DEF HSteady, Height, RasterLines, PerLine, Video!Hsw
<1>4. PICK f \in Nat, l \in Nat : f = Height(x) /\ l = PerLine(x)
  <2>1. PICK r4 \in Nat, r5 \in Nat, r9 \in Nat, r0 \in Nat :
            r4 = x.reg[4] /\ r5 = x.reg[5] /\ r9 = x.reg[9] /\ r0 = x.reg[0]
    BY NumbersOk DEF Numbers
  <2>2. r4 * (r9 + 1) \in Nat /\ (r4 + 1) * (r9 + 1) = r4 * (r9 + 1) + (r9 + 1)  BY NextTimes
  <2>. QED  BY <2>1, <2>2 DEF Height, RasterLines, PerLine
<1>5. PICK p \in Nat : p = f * l  BY NextTimes
<1>6. y.hcc <= y.reg[0] /\ (g.clean => x.hcc <= x.reg[0])
  <2>1. g.clean => x.hcc <= x.reg[0]  BY DEF FrameInv, FrameAt
  <2>2. CASE y.newFrame
    <3>1. FrameAt(y, 0, TRUE)  BY <2>2, FrameBegins
    <3>. QED  BY <2>1, <3>1 DEF FrameAt
  <2>3. CASE ~y.newFrame
    <3>1. y.hcc <= x.reg[0]  BY <1>1, <1>3, <2>1, <2>3, SinceStep
    <3>. QED  BY <1>2, <2>1, <3>1
  <2>. QED  BY <2>2, <2>3
<1>7. CASE g.clean
  <2>1. PICK t \in Nat : t = g.pos + g.frames * p  BY <1>1, <1>5, NextTimes
  <2>2. HAt(x, t, g.frames)  BY <1>1, <1>3, <1>4, <1>5, <1>7, <2>1 DEF HInv
  <2>3. HAt(y, t + 1, g.frames)  BY <1>1, <1>3, <1>6, <1>7, <2>2, HStep
  <2>4. CASE ~y.newFrame
    <3>1. k.pos + k.frames * (Height(y) * PerLine(y)) = t + 1
      <4>1. g.frames * p \in Nat  BY <1>1, NextTimes
      <4>2. k.pos + k.frames * (Height(y) * PerLine(y)) = g.pos + 1 + g.frames * p  BY <1>1, <1>3, <1>4, <1>5, <2>4
      <4>. QED  BY <1>1, <2>1, <4>1, <4>2
    <3>. QED  BY <1>1, <2>3, <2>4, <3>1
  <2>5. CASE y.newFrame
    <3>1. g.pos + 1 = p
      <4>1. FrameAt(x, g.pos, g.displayed) /\ x.hcc = x.reg[0] /\ Finished(x)
        BY <1>7, <2>5, FrameBegins DEF FrameInv
      <4>2. LineRow(x) + 1 = f /\ LineRow(x) \in Nat  BY <1>4, <4>1, FinishedAt
      <4>3. PICK n \in Nat : n = LineRow(x) /\ f = n + 1  BY <4>2
      <4>4. g.pos = n * l + x.hcc /\ l = x.hcc + 1 /\ x.hcc \in Nat
        BY <1>4, <4>1, <4>3, NumbersOk DEF FrameAt, PerLine, Numbers
      <4>5. (n + 1) * l = n * l + l /\ n * l \in Nat  BY NextTimes
      <4>. QED  BY <1>5, <4>3, <4>4, <4>5
    <3>2. k.pos = 0 /\ k.frames = IF g.frames < 2 THEN g.frames + 1 ELSE 2  BY <1>1, <1>7, <2>5
    <3>3. CASE g.frames = 0
      <4>1. t + 1 = p /\ k.pos + k.frames * (Height(y) * PerLine(y)) = p  BY <1>1, <1>3, <1>4, <1>5, <2>1, <3>1, <3>2, <3>3
      <4>2. HAt(y, p, 0) /\ k.frames = 1  BY <2>3, <3>2, <3>3, <4>1
      <4>3. HAt(y, p, 1)  BY <4>2 DEF HAt
      <4>. QED  BY <4>1, <4>2, <4>3
    <3>4. CASE g.frames = 1
      <4>1. t + 1 = p + p  BY <1>1, <2>1, <3>1, <3>4
      <4>2. HExact(y)  BY <1>3, <1>4, <1>5, <1>6, <2>3, <4>1, HLate
      <4>. QED  BY <4>2 DEF HAt
    <3>5. CASE g.frames = 2
      <4>1. HExact(y)  BY <2>3, <3>5 DEF HAt
      <4>. QED  BY <4>1 DEF HAt
    <3>. QED  BY <1>1, <3>3, <3>4, <3>5
  <2>. QED  BY <2>4, <2>5
<1>8. CASE ~g.clean
  <2>1. k.frames = 0 /\ k.pos = 0  BY <1>1, <1>8
  <2>2. k.pos + k.frames * (Height(y) * PerLine(y)) = 0  BY <1>3, <1>4, <1>5, <2>1
  <2>3. HAt(y, 0, 0)  BY <1>6, HStart
  <2>. QED  BY <2>1, <2>2, <2>3
<1>. QED  BY <1>7, <1>8

(* Both pulses in their places *)
LEMMA SyncSound ==
    ASSUME CrtcOk(v1), HistOk(v2), FrameInv(v1, v2), VInv(v1, v2), HInv(v1, v2)
    PROVE  Video!SyncIsReference
<1>. SUFFICES ASSUME v2.frames = 2, v2.clean, v2.loads = 0
     PROVE  /\ (0 < v1.reg[4] /\ v1.reg[7] <= v1.reg[4] /\ v1.reg[0] >= MinVsyncHend /\ Video!Vsw(v1) < Video!FrameLines) =>
                  v1.vsync = ((Video!AtLine - v1.reg[7] * (v1.reg[9] + 1)) % Video!FrameLines < Video!Vsw(v1))
            /\ (v1.reg[2] \in 1 .. v1.reg[0] /\ Video!Hsw(v1) <= v1.reg[0] /\ HswMod <= Video!FrameLines * Video!Line) =>
                  v1.hsync = ((Video!AtChar - v1.reg[2]) % Video!Line < Video!Hsw(v1))
  BY Zenon DEF Video!SyncIsReference
<1>1. FrameAt(v1, v2.pos, v2.displayed)  BY DEF FrameInv
<1>2. Video!Line = PerLine(v1) /\ Video!FrameLines = Height(v1) /\ Video!AtLine = LineRow(v1) /\ Video!AtChar = v1.hcc /\ LineRow(v1) \in Nat
  BY <1>1, FramePlace, Zenon
<1>3. v1.vsync \in BOOLEAN /\ v1.hsync \in BOOLEAN  BY DEF CrtcOk, Flags
<1>4. ASSUME 0 < v1.reg[4], v1.reg[7] <= v1.reg[4], v1.reg[0] >= MinVsyncHend, Video!Vsw(v1) < Video!FrameLines
      PROVE  v1.vsync = ((Video!AtLine - v1.reg[7] * (v1.reg[9] + 1)) % Video!FrameLines < Video!Vsw(v1))
  <2>1. VSteady(v1)  BY <1>2, <1>4 DEF VSteady
  <2>2. PICK n \in Nat, s \in Nat, f \in Nat \ {0} : n = LineRow(v1) /\ s = Start7(v1) /\ f = Height(v1) /\ n < f /\ s < f
    <3>1. Height(v1) \in Nat \ {0}  BY <1>1, <2>1, VPlace
    <3>. QED  BY <1>1, <2>1, <3>1, VPlace
  <2>3. VAt(v1, n - s, f, 2)  BY <2>1, <2>2 DEF VInv
  <2>4. (n - s) % f = IF s <= n THEN n - s ELSE n - s + f
    <3>1. n \in 0 .. f - 1 /\ s \in 0 .. f - 1  BY <2>2
    <3>. QED  BY <3>1, LeftSteps
  <2>5. v1.vsync <=> (n - s) % f < Video!Vsw(v1)
    <3>1. CASE s <= n
      <4>1. VExact(v1, n - s)  BY <2>3, <3>1 DEF VAt
      <4>. QED  BY <2>4, <3>1, <4>1 DEF VExact
    <3>2. CASE ~(s <= n)
      <4>1. VExact(v1, n - s + f)  BY <2>3, <3>2 DEF VAt
      <4>. QED  BY <2>4, <3>2, <4>1 DEF VExact
    <3>. QED  BY <3>1, <3>2
  <2>6. v1.reg[7] * (v1.reg[9] + 1) = s  BY <2>2 DEF Start7, RasterLines
  <2>. QED  BY <1>2, <1>3, <2>2, <2>5, <2>6
<1>5. ASSUME v1.reg[2] \in 1 .. v1.reg[0], Video!Hsw(v1) <= v1.reg[0], HswMod <= Video!FrameLines * Video!Line
      PROVE  v1.hsync = ((Video!AtChar - v1.reg[2]) % Video!Line < Video!Hsw(v1))
  <2>1. HSteady(v1)  BY <1>2, <1>5 DEF HSteady
  <2>2. HExact(v1)  BY <2>1 DEF HInv, HAt
  <2>3. PICK l \in Nat \ {0} : l = PerLine(v1) /\ l = v1.reg[0] + 1
    <3>1. PerLine(v1) \in Nat \ {0} /\ PerLine(v1) = v1.reg[0] + 1  BY NumbersOk DEF Numbers, PerLine
    <3>. QED  BY <3>1, Zenon
  <2>4. PICK e \in 0 .. l - 1, r2 \in 0 .. l - 1 : e = v1.hcc /\ r2 = v1.reg[2]
    BY <1>1, <1>5, <2>3, NumbersOk DEF Numbers, FrameAt
  <2>5. (e - r2) % l = IF r2 <= e THEN e - r2 ELSE e - r2 + l  BY LeftSteps
  <2>6. Since2(v1) = (e - r2) % l  BY <2>3, <2>4, <2>5 DEF Since2
  <2>. QED  BY <1>2, <1>3, <2>2, <2>3, <2>4, <2>6 DEF HExact
<1>. QED  BY <1>4, <1>5
-----------------------------------------------------------------------------
(* The whole invariant, step by step *)
VideoInv(x, g) ==
    /\ CrtcOk(x) /\ HistOk(g)
    /\ ModeInv(x, g) /\ RankInv(x, g) /\ FrameInv(x, g) /\ VInv(x, g) /\ HInv(x, g)

LEMMA VideoInit ==
    ASSUME NEW type, v1 = Video!crtc_init(type),
           v2 = [writes |-> 0, loads |-> 0, pos |-> 0, clean |-> TRUE, frames |-> 0,
                displayed |-> TRUE, restored |-> FALSE, modes |-> 1]
    PROVE  VideoInv(v1, v2)
<1>1. /\ CrtcOk(v1) /\ Latched(v1)
      /\ v1.reg = PowerOn /\ v1.hcc = 0 /\ v1.vcc = 0 /\ v1.vlc = 0 /\ v1.vadjust = FALSE /\ v1.vac = 0
      /\ v1.row = Video!crtc_start_addr(v1) /\ v1.nextRow = v1.row /\ v1.ma = v1.row
      /\ v1.hDisplay = TRUE /\ v1.vDisplay = TRUE /\ v1.hsync = FALSE /\ v1.vsync = FALSE /\ v1.r7 = FALSE
  BY InitOk, Zenon
<1>2. HistOk(v2)  BY DEF HistOk, HistFields
<1>3. ModeInv(v1, v2)  BY <1>1 DEF ModeInv
<1>4. RankInv(v1, v2)
  <2>1. PICK n \in Nat, m \in Nat : n = ClocksLeft(v1) /\ m = Longest /\ n < m  BY <1>1, ClocksRange
  <2>2. v2.pos + n < (v2.writes + v2.loads + 1) * m  BY <2>1
  <2>. QED  BY <2>1, <2>2 DEF RankInv
<1>5. FrameAt(v1, 0, TRUE) /\ LineRow(v1) = 0
  <2>1. PowerOn[1] # 0 /\ PowerOn[6] # 0  BY VideoAssumption DEF Video!CrtcAssumption
  <2>. QED  BY <1>1, <2>1, FrameZero
<1>6. FrameInv(v1, v2)  BY <1>5 DEF FrameInv
<1>7. VInv(v1, v2)  BY <1>1, <1>5 DEF VInv, VAt
<1>8. HInv(v1, v2)
  <2>. SUFFICES ASSUME HSteady(v1) PROVE HAt(v1, v2.pos + v2.frames * (Height(v1) * PerLine(v1)), v2.frames)  BY DEF HInv
  <2>1. v2.pos + v2.frames * (Height(v1) * PerLine(v1)) = 0
    <3>1. PICK r4 \in Nat, r5 \in Nat, r9 \in Nat, r0 \in Nat :
              r4 = v1.reg[4] /\ r5 = v1.reg[5] /\ r9 = v1.reg[9] /\ r0 = v1.reg[0]
      BY <1>1, NumbersOk DEF Numbers
    <3>2. PICK p \in Nat : p = Height(v1) * PerLine(v1)
      <4>1. r4 * (r9 + 1) \in Nat /\ (r4 + 1) * (r9 + 1) = r4 * (r9 + 1) + (r9 + 1)  BY NextTimes
      <4>2. PICK f \in Nat, l \in Nat : f = Height(v1) /\ l = PerLine(v1)  BY <3>1, <4>1 DEF Height, RasterLines, PerLine
      <4>3. f * l \in Nat  BY NextTimes
      <4>. QED  BY <4>2, <4>3
    <3>. QED  BY <3>2
  <2>2. v1.hcc <= v1.reg[0]  BY <1>5 DEF FrameAt
  <2>. QED  BY <1>1, <2>1, <2>2, HStart
<1>. QED  BY <1>1, <1>2, <1>3, <1>4, <1>6, <1>7, <1>8 DEF VideoInv

LEMMA VideoTick ==
    ASSUME VideoInv(v1, v2), Video!Tick
    PROVE  VideoInv(v1, v2)'
<1>1. CrtcOk(v1) /\ HistOk(v2) /\ Bools(v1)  BY DEF VideoInv, CrtcOk, Bools
<1>2. v1' = Video!crtc_tick(v1)  BY DEF Video!Tick
<1>3. Ticked(v1, v1') /\ CrtcOk(v1') /\ Bools(v1')
  <2>1. Ticked(v1, v1')  BY <1>1, <1>2, Ticks
  <2>2. CrtcOk(v1')  BY <1>1, <1>2, TickOk
  <2>. QED  BY <2>1, <2>2 DEF Ticked
<1>4. HistTick(v1, v1', v2, v2')
  <2>1. PICK modes : modes = Counted1(v1, v1', v2)  OBVIOUS
  <2>2. v2' = [v2 EXCEPT !.pos = IF v1'.newFrame THEN 0 ELSE @ + 1,
                       !.clean = @ \/ v1'.newFrame,
                       !.frames = IF ~v1'.newFrame THEN @ ELSE IF v2.clean THEN (IF @ < 2 THEN @ + 1 ELSE 2) ELSE 0,
                       !.displayed = @ \/ v1'.newFrame, !.modes = modes,
                       !.restored = @ /\ ~Began(v1, v1')]
    BY <1>2, <2>1 DEF Video!Tick, Counted1, Began
  <2>. QED  BY <1>1, <1>3, <2>1, <2>2, TickHist
<1>5. ModeInv(v1', v2')  BY <1>1, <1>3, <1>4, ModeTick DEF VideoInv, Ticked
<1>6. RankInv(v1', v2')  BY <1>1, <1>3, <1>4, RankTick DEF VideoInv
<1>7. FrameInv(v1', v2')  BY <1>1, <1>3, <1>4, FrameTick DEF VideoInv
<1>8. VInv(v1', v2')  BY <1>1, <1>3, <1>4, VTick DEF VideoInv
<1>9. HInv(v1', v2')  BY <1>1, <1>3, <1>4, HTick DEF VideoInv
<1>10. HistOk(v2')  BY <1>4 DEF HistTick
<1>. QED  BY <1>3, <1>5, <1>6, <1>7, <1>8, <1>9, <1>10 DEF VideoInv

LEMMA VideoWrite ==
    ASSUME VideoInv(v1, v2), NEW w \in Writes, Video!Write(w[1], w[2])
    PROVE  VideoInv(v1, v2)'
<1>1. CrtcOk(v1) /\ HistOk(v2) /\ ModeInv(v1, v2) /\ RankInv(v1, v2)  BY DEF VideoInv
<1>2. w[1] \in Video!Regs /\ Video!Masked(w[1], w[2])  BY VideoAssumption DEF Video!CrtcAssumption
<1>3. v1' = Video!crtc_write(v1, w[1], w[2])  BY DEF Video!Write
<1>4. CrtcOk(v1') /\ v1'.hsync = v1.hsync /\ v1'.latched = v1.latched  BY <1>1, <1>2, <1>3, WriteOk
<1>5. /\ HistOk(v2') /\ v2'.writes = v2.writes + 1 /\ v2'.clean = FALSE /\ v2'.frames = 0 /\ v2'.pos = v2.pos
      /\ v2'.loads = v2.loads /\ v2'.modes = v2.modes /\ v2'.restored = v2.restored
  <2>1. v2' = [v2 EXCEPT !.writes = @ + 1, !.clean = FALSE, !.frames = 0]  BY DEF Video!Write
  <2>2. DOMAIN v2 = HistFields /\ v2.writes \in Nat  BY <1>1 DEF HistOk
  <2>3. /\ DOMAIN v2' = HistFields /\ v2'.writes = v2.writes + 1 /\ v2'.clean = FALSE /\ v2'.frames = 0 /\ v2'.pos = v2.pos
        /\ v2'.loads = v2.loads /\ v2'.modes = v2.modes /\ v2'.restored = v2.restored /\ v2'.displayed = v2.displayed
    BY <2>1, <2>2 DEF HistFields
  <2>t. /\ v2.writes \in Nat /\ v2.loads \in Nat /\ v2.pos \in Nat /\ v2.frames \in 0 .. 2 /\ v2.modes \in Nat
        /\ v2.writes + 1 \in Nat /\ v2.loads + 1 \in Nat
        /\ v2.clean \in BOOLEAN /\ v2.displayed \in BOOLEAN /\ v2.restored \in BOOLEAN
    BY <1>1 DEF HistOk
  <2>4. v2'.writes \in Nat /\ v2'.loads \in Nat /\ v2'.pos \in Nat /\ v2'.frames \in 0 .. 2 /\ v2'.modes \in Nat
    BY <2>3, <2>t
  <2>5. v2'.clean \in BOOLEAN /\ v2'.displayed \in BOOLEAN /\ v2'.restored \in BOOLEAN
    BY <2>3, <2>t, Zenon
  <2>o. HistOk(v2')  BY <2>3, <2>4, <2>5, Zenon DEF HistOk
  <2>. QED  BY <2>3, <2>o
<1>6. ModeInv(v1', v2')  BY <1>1, <1>4, <1>5 DEF ModeInv
<1>7. RankInv(v1', v2')
  <2>1. v2'.writes + v2'.loads = v2.writes + v2.loads + 1  BY <1>1, <1>5 DEF HistOk
  <2>. QED  BY <1>1, <1>4, <1>5, <2>1, RankMore
<1>. QED  BY <1>4, <1>5, <1>6, <1>7 DEF VideoInv, FrameInv, VInv, HInv

LEMMA VideoLoadV3 ==
    ASSUME VideoInv(v1, v2), NEW b \in BOOLEAN, Video!LoadV3(b)
    PROVE  VideoInv(v1, v2)'
<1>1. CrtcOk(v1) /\ HistOk(v2) /\ RankInv(v1, v2) /\ FrameInv(v1, v2)  BY DEF VideoInv
<1>2. v1' = Video!LoadedV3(v1, b)  BY DEF Video!LoadV3
<1>3. CrtcOk(v1')  BY <1>1, <1>2, LoadV3Ok
<1>4. /\ HistOk(v2') /\ v2'.loads = v2.loads + 1 /\ v2'.displayed = FALSE /\ v2'.restored = TRUE /\ v2'.pos = v2.pos
      /\ (v2'.clean => v2.clean) /\ v2'.writes = v2.writes
  <2>1. PICK clean \in BOOLEAN : clean <=> v2.clean /\ v2.pos # 0  OBVIOUS
  <2>2. v2' = [v2 EXCEPT !.loads = @ + 1, !.displayed = FALSE, !.restored = TRUE, !.clean = clean]
    BY <1>1, <2>1 DEF Video!LoadV3, HistOk
  <2>3. DOMAIN v2 = HistFields /\ v2.loads \in Nat  BY <1>1 DEF HistOk
  <2>4. /\ DOMAIN v2' = HistFields /\ v2'.loads = v2.loads + 1 /\ v2'.displayed = FALSE /\ v2'.restored = TRUE
        /\ v2'.pos = v2.pos /\ v2'.clean = clean /\ v2'.writes = v2.writes /\ v2'.frames = v2.frames /\ v2'.modes = v2.modes
    BY <2>2, <2>3 DEF HistFields
  <2>t. /\ v2.writes \in Nat /\ v2.loads \in Nat /\ v2.pos \in Nat /\ v2.frames \in 0 .. 2 /\ v2.modes \in Nat
        /\ v2.writes + 1 \in Nat /\ v2.loads + 1 \in Nat
        /\ v2.clean \in BOOLEAN /\ v2.displayed \in BOOLEAN /\ v2.restored \in BOOLEAN
    BY <1>1 DEF HistOk
  <2>o. HistOk(v2')  BY <2>1, <2>4, <2>t DEF HistOk
  <2>. QED  BY <2>1, <2>4, <2>o
<1>5. ModeInv(v1', v2')  BY <1>4 DEF ModeInv
<1>6. RankInv(v1', v2')
  <2>1. v2'.writes + v2'.loads = v2.writes + v2.loads + 1  BY <1>1, <1>4 DEF HistOk
  <2>. QED  BY <1>1, <1>3, <1>4, <2>1, RankMore
<1>7. FrameInv(v1', v2')
  <2>. SUFFICES ASSUME v2'.clean PROVE FrameAt(v1', v2'.pos, v2'.displayed)  BY DEF FrameInv
  <2>1. FrameAt(v1, v2.pos, v2.displayed)  BY <1>1, <1>4 DEF FrameInv
  <2>2. FrameAt(v1', v2.pos, FALSE)  BY <1>1, <1>2, <2>1, FrameLoaded
  <2>. QED  BY <1>4, <2>2
<1>8. v2'.loads # 0  BY <1>1, <1>4 DEF HistOk
<1>. QED  BY <1>3, <1>4, <1>5, <1>6, <1>7, <1>8 DEF VideoInv, VInv, HInv

LEMMA VideoLoadOld ==
    ASSUME VideoInv(v1, v2), Video!LoadOld
    PROVE  VideoInv(v1, v2)'
<1>1. CrtcOk(v1) /\ HistOk(v2) /\ ModeInv(v1, v2) /\ RankInv(v1, v2)  BY DEF VideoInv
<1>2. RegsOk(PowerOn)  BY VideoAssumption DEF Video!CrtcAssumption, RegsOk
<1>3. v1' = Video!LoadedOld(v1, PowerOn)  BY DEF Video!LoadOld
<1>4. CrtcOk(v1') /\ v1'.hsync = v1.hsync /\ v1'.latched = v1.latched  BY <1>1, <1>2, <1>3, LoadOldOk
<1>5. /\ HistOk(v2') /\ v2'.loads = v2.loads + 1 /\ v2'.clean = FALSE /\ v2'.frames = 0 /\ v2'.pos = v2.pos
      /\ v2'.writes = v2.writes /\ v2'.modes = v2.modes /\ v2'.restored = v2.restored
  <2>1. v2' = [v2 EXCEPT !.loads = @ + 1, !.displayed = FALSE, !.clean = FALSE, !.frames = 0]  BY DEF Video!LoadOld
  <2>2. DOMAIN v2 = HistFields /\ v2.loads \in Nat  BY <1>1 DEF HistOk
  <2>3. /\ DOMAIN v2' = HistFields /\ v2'.loads = v2.loads + 1 /\ v2'.clean = FALSE /\ v2'.frames = 0 /\ v2'.pos = v2.pos
        /\ v2'.writes = v2.writes /\ v2'.modes = v2.modes /\ v2'.restored = v2.restored /\ v2'.displayed = FALSE
    BY <2>1, <2>2 DEF HistFields
  <2>t. /\ v2.writes \in Nat /\ v2.loads \in Nat /\ v2.pos \in Nat /\ v2.frames \in 0 .. 2 /\ v2.modes \in Nat
        /\ v2.writes + 1 \in Nat /\ v2.loads + 1 \in Nat
        /\ v2.clean \in BOOLEAN /\ v2.displayed \in BOOLEAN /\ v2.restored \in BOOLEAN
    BY <1>1 DEF HistOk
  <2>4. v2'.writes \in Nat /\ v2'.loads \in Nat /\ v2'.pos \in Nat /\ v2'.frames \in 0 .. 2 /\ v2'.modes \in Nat
    BY <2>3, <2>t
  <2>5. v2'.clean \in BOOLEAN /\ v2'.displayed \in BOOLEAN /\ v2'.restored \in BOOLEAN
    BY <2>3, <2>t, Zenon
  <2>o. HistOk(v2')  BY <2>3, <2>4, <2>5, Zenon DEF HistOk
  <2>. QED  BY <2>3, <2>o
<1>6. ModeInv(v1', v2')  BY <1>1, <1>4, <1>5 DEF ModeInv
<1>7. RankInv(v1', v2')
  <2>1. v2'.writes + v2'.loads = v2.writes + v2.loads + 1  BY <1>1, <1>5 DEF HistOk
  <2>. QED  BY <1>1, <1>4, <1>5, <2>1, RankMore
<1>. QED  BY <1>4, <1>5, <1>6, <1>7 DEF VideoInv, FrameInv, VInv, HInv

LEMMA VideoStep ==
    ASSUME VideoInv(v1, v2), Video!Next
    PROVE  VideoInv(v1, v2)'
<1>1. CASE Video!Tick  BY <1>1, VideoTick
<1>2. CASE Video!LoadOld  BY <1>2, VideoLoadOld
<1>3. CASE \E w \in Writes : Video!Write(w[1], w[2])  BY <1>3, VideoWrite
<1>4. CASE \E b \in BOOLEAN : Video!LoadV3(b)  BY <1>4, VideoLoadV3
<1>. QED  BY <1>1, <1>2, <1>3, <1>4 DEF Video!Next

LEMMA VideoSound ==
    ASSUME VideoInv(v1, v2)
    PROVE  Video!CrtcSound
<1>1. CrtcOk(v1) /\ HistOk(v2) /\ ModeInv(v1, v2) /\ RankInv(v1, v2) /\ FrameInv(v1, v2) /\ VInv(v1, v2) /\ HInv(v1, v2)
  BY DEF VideoInv
<1>2. Video!FrameIsReference  BY <1>1, FrameSound
<1>3. Video!SyncIsReference  BY <1>1, SyncSound
<1>4. Video!FramesGoOn
  <2>1. PICK n \in Nat : n = ClocksLeft(v1)  BY <1>1, ClocksRange
  <2>2. PICK z \in Int : z = (v2.writes + v2.loads + 1) * Longest
    <3>1. PICK a \in Nat : a = v2.writes + v2.loads + 1  BY <1>1 DEF HistOk
    <3>2. PICK m \in Nat : m = Longest  BY <1>1, ClocksRange
    <3>3. a * m \in Nat  BY NextTimes
    <3>. QED  BY <3>1, <3>2, <3>3
  <2>3. v2.pos + n < z /\ v2.pos \in Nat  BY <1>1, <2>1, <2>2 DEF RankInv, HistOk
  <2>4. (v2.writes + v2.loads + 1) * HMod * RMod * (VMod + 1) = (v2.writes + v2.loads + 1) * Longest
    <3>1. PICK a \in Nat : a = v2.writes + v2.loads + 1  BY <1>1 DEF HistOk
    <3>2. a * HMod * RMod * (VMod + 1) = a * (HMod * RMod * (VMod + 1))  BY Widths
    <3>. QED  BY <3>1, <3>2 DEF Longest
  <2>. QED  BY <2>2, <2>3, <2>4 DEF Video!FramesGoOn
<1>5. Video!ModeOnce
  <2>1. v1.latched \in BOOLEAN /\ v1.hsync \in BOOLEAN  BY <1>1 DEF CrtcOk, Flags
  <2>. QED  BY <1>1, <2>1 DEF ModeInv, Video!ModeOnce
<1>. QED  BY <1>2, <1>3, <1>4, <1>5 DEF Video!CrtcSound
-----------------------------------------------------------------------------

(* Every step of the video controller keeps it sound *)
LEMMA VideoKeeps == VideoInv(v1, v2) /\ [Video!Next]_<<v1, v2>> => VideoInv(v1, v2)'
<1>1. VideoInv(v1, v2) /\ Video!Next => VideoInv(v1, v2)'  BY VideoStep
<1>2. VideoInv(v1, v2) /\ UNCHANGED <<v1, v2>> => VideoInv(v1, v2)'
  <2>. SUFFICES ASSUME VideoInv(v1, v2), v1' = v1, v2' = v2 PROVE VideoInv(v1', v2')  OBVIOUS
  <2>. QED  OBVIOUS
<1>. QED  BY <1>1, <1>2

VideoPart == part = "crtc" => VideoInv(v1, v2)

(* crtc_tick, crtc_write, snapshot_load: from any registers the controller *)
(* is switched on with, whatever is written to it at any clock and         *)
(* whatever snapshot is loaded, a frame that is left alone has its rows,   *)
(* addresses, display and pulses where a 6845 has them; whatever is done   *)
(* to it, the next frame comes within the full run of the counters that    *)
(* each write and load may start anew, and a pulse latches the mode once.  *)
THEOREM VideoHolds == MachineSpec => []CrtcSound
<1>1. MachineInit => VideoPart
  <2>. SUFFICES ASSUME Video!Init PROVE VideoInv(v1, v2)  BY DEF MachineInit, VideoPart
  <2>1. PICK type \in CrtcTypes :
          /\ v1 = Video!crtc_init(type)
          /\ v2 = [writes |-> 0, loads |-> 0, pos |-> 0, clean |-> TRUE, frames |-> 0,
                   displayed |-> TRUE, restored |-> FALSE, modes |-> 1]
    BY DEF Video!Init
  <2>. QED  BY <2>1, VideoInit
<1>2. VideoPart /\ [MachineNext]_allVars => VideoPart'
  <2>. SUFFICES ASSUME VideoPart, [MachineNext]_allVars, part' = "crtc" PROVE VideoInv(v1, v2)'
    BY DEF VideoPart
  <2>1. part' = part  BY DEF MachineNext, allVars
  <2>2. part = "crtc" /\ VideoInv(v1, v2)  BY <2>1 DEF VideoPart
  <2>3. [Video!Next]_<<v1, v2>>  BY <2>2 DEF MachineNext, allVars, Bounded, shared
  <2>. QED  BY <2>2, <2>3, VideoKeeps
<1>3. VideoPart => CrtcSound  BY VideoSound DEF VideoPart, CrtcSound
<1>. QED  BY <1>1, <1>2, <1>3, PTL DEF MachineSpec

-----------------------------------------------------------------------------
(* The monitor: the width of a line, and where the beam is on it *)

Hold == Monitor!MinHsync .. Monitor!MaxHsync
BeamFields == {"hpos", "hsync", "free", "start", "end", "peak", "startToPeak", "endToPeak", "hadPeak",
               "inHsync", "vline", "y", "completed"}

(* A monitor the picture can be followed with *)
MonOk(x) ==
    /\ DOMAIN x = BeamFields
    /\ x.hsync \in Hold /\ x.free \in Hold
    /\ x.hpos \in Int /\ 0 <= x.hpos + Monitor!Duration /\ x.hpos <= Monitor!MaxHsync + Monitor!Unit
    /\ x.start \in Int /\ x.end \in Int /\ x.peak \in Int /\ x.startToPeak \in Int
    /\ x.endToPeak \in Int /\ x.vline \in Nat

Watched == Settle + Watch
SourceOk == /\ DOMAIN v2 = {"of", "clock", "line"} /\ v2.clock \in Nat
            /\ DOMAIN v3 = {"changes", "lines", "pictures", "before", "began", "first"} /\ v3.lines \in Nat

(* A source is only exchanged at the end of a line: the hold is then what  *)
(* it was at the clock of the old one.                                     *)
BeamInv == /\ MonOk(v1) /\ SourceOk
           /\ v2.clock = 0 \/ v3.lines = Watched => v1.vline < MaxVsync

LEMMA HoldNumbers == MaxVsync \in Nat \ {0} /\ Settle \in Nat /\ Watch \in Nat /\ Phases \subseteq Nat
BY HoldAssumption DEF Monitor!BeamAssumption

LEMMA Reach == /\ Monitor!Unit = 256 /\ Monitor!Duration = 2560
               /\ Monitor!MinHsync = 13567 /\ Monitor!MaxHsync = 14081
BY DEF Monitor!Unit, Monitor!Duration, Monitor!MinHsync, Monitor!MaxHsync, Monitor!BaseHsync

LEMMA OnLine ==
    ASSUME NEW p \in Int, 0 <= p + Monitor!Duration, p <= Monitor!MaxHsync + Monitor!Unit
    PROVE  p \in -Monitor!Duration .. Monitor!MaxHsync + Monitor!Unit
<1>1. PICK d \in Nat, m \in Nat : d = Monitor!Duration /\ m = Monitor!MaxHsync + Monitor!Unit  BY Reach
<1>2. p \in -d .. m  BY <1>1
<1>. QED  BY <1>1, <1>2

(* A character clock moves the beam on, or back to the left of the screen. *)
LEMMA Advances ==
    ASSUME NEW x, MonOk(x)
    PROVE  MonOk(Monitor!cpc_monitor_advance(x))
<1>1. PICK y : y = [x EXCEPT !.start = @ + 256, !.end = @ + 256, !.peak = @ + 256, !.hpos = @ + 256]  OBVIOUS
<1>2. /\ DOMAIN x = BeamFields /\ x.hsync \in 13567 .. 14081 /\ x.free \in 13567 .. 14081
      /\ x.hpos \in Int /\ 0 <= x.hpos + 2560 /\ x.hpos <= 14337 /\ x.start \in Int /\ x.end \in Int /\ x.peak \in Int
      /\ x.startToPeak \in Int /\ x.endToPeak \in Int /\ x.vline \in Nat
  BY Reach DEF MonOk, Hold
<1>3. /\ DOMAIN y = BeamFields /\ y.hsync = x.hsync /\ y.free = x.free
      /\ y.hpos = x.hpos + 256 /\ y.start = x.start + 256 /\ y.end = x.end + 256 /\ y.peak = x.peak + 256
      /\ y.startToPeak = x.startToPeak /\ y.endToPeak = x.endToPeak /\ y.vline = x.vline
  BY <1>1, <1>2 DEF BeamFields
<1>4. PICK p \in Int : p = y.hpos - y.hsync
  <2>1. y.hpos \in Int /\ y.hsync \in Int  BY <1>2, <1>3
  <2>. QED  BY <2>1
<1>5. CASE y.hpos < y.hsync
  <2>1. Monitor!cpc_monitor_advance(x) = y  BY <1>1, <1>5, Reach DEF Monitor!cpc_monitor_advance
  <2>2. MonOk(y)  BY <1>2, <1>3, <1>5, Reach DEF MonOk, Hold
  <2>. QED  BY <2>1, <2>2
<1>6. CASE ~(y.hpos < y.hsync)
  <2>1. PICK z : z = [y EXCEPT !.hadPeak = TRUE, !.peak = p, !.startToPeak = y.start - p,
                               !.endToPeak = y.end - p, !.hpos = p - 2560, !.y = @ + 1, !.vline = @ + 1]
    OBVIOUS
  <2>2. Monitor!cpc_monitor_advance(x) = z  BY <1>1, <1>4, <1>6, <2>1, Reach DEF Monitor!cpc_monitor_advance
  <2>3. /\ DOMAIN z = BeamFields /\ z.hsync = y.hsync /\ z.free = y.free
        /\ z.hpos = p - 2560 /\ z.start = y.start /\ z.end = y.end /\ z.peak = p
        /\ z.startToPeak = y.start - p /\ z.endToPeak = y.end - p /\ z.vline = y.vline + 1
    BY <1>3, <2>1 DEF BeamFields
  <2>4. z.hpos \in Int /\ 0 <= z.hpos + 2560 /\ z.hpos <= 14337  BY <1>2, <1>3, <1>4, <1>6, <2>3
  <2>5. MonOk(z)  BY <1>2, <1>3, <1>4, <2>3, <2>4, Reach DEF MonOk, Hold
  <2>. QED  BY <2>2, <2>5
<1>. QED  BY <1>5, <1>6

(* The end of a pulse leaves a width the monitor can follow. *)
LEMMA Follows ==
    ASSUME NEW x, MonOk(x)
    PROVE  MonOk(Monitor!cpc_monitor_end_hsync(x)) /\ Monitor!cpc_monitor_end_hsync(x).vline = x.vline
<1>1. /\ DOMAIN x = BeamFields /\ x.hsync \in 13567 .. 14081 /\ x.free \in 13567 .. 14081
      /\ x.hpos \in Int /\ 0 <= x.hpos + 2560 /\ x.hpos <= 14337 /\ x.start \in Int /\ x.end \in Int /\ x.peak \in Int
      /\ x.startToPeak \in Int /\ x.endToPeak \in Int /\ x.vline \in Nat
  BY Reach DEF MonOk, Hold
<1>2. PICK f \in 13567 .. 14081 : f = Monitor!Freed(x)
  <2>1. PICK g \in 13567 .. 14081 : g = x.free  BY <1>1
  <2>2. PICK u \in Int : u = x.end - Monitor!Duration  BY <1>1, Reach
  <2>3. \/ Monitor!Freed(x) = g
        \/ Monitor!Freed(x) = g - 1 /\ g # 13567
        \/ Monitor!Freed(x) = g + 1 /\ g # 14081
    <3>1. CASE x.peak >= x.start /\ u < g  BY <1>1, <2>1, <2>2, <3>1, Reach DEF Monitor!Freed
    <3>2. CASE x.peak >= x.start /\ u > g  BY <1>1, <2>1, <2>2, <3>2, Reach DEF Monitor!Freed
    <3>3. CASE x.peak < x.start \/ u = g  BY <1>1, <2>1, <2>2, <3>3, Reach DEF Monitor!Freed
    <3>. QED  BY <1>1, <2>1, <2>2, <3>1, <3>2, <3>3
  <2>. QED  BY <2>1, <2>3
<1>3. PICK w \in 13567 .. 14081 : w = Monitor!Clamp(Monitor!Width(x, f))
  <2>1. \A e, t \in Int : Monitor!Step(e, t) \in Int  BY DEF Monitor!Step, Monitor!LesserOf, Monitor!SyncMax
  <2>2. PICK e \in Int : e = IF x.peak >= x.start THEN x.peak - x.endToPeak ELSE x.startToPeak - x.peak  BY <1>1
  <2>3. PICK a \in Int, b \in Int : a = Monitor!Step(-e, x.start) /\ b = Monitor!Step(e, x.start)
    <3>1. PICK d \in Int, t \in Int : d = -e /\ t = x.start  BY <1>1
    <3>2. Monitor!Step(d, t) \in Int /\ Monitor!Step(e, t) \in Int  BY <2>1
    <3>. QED  BY <3>1, <3>2
  <2>4. Monitor!Width(x, f) \in {f + a, f, f - b}  BY <2>2, <2>3 DEF Monitor!Width
  <2>5. Monitor!Width(x, f) \in Int  BY <2>4
  <2>. QED  BY <2>5, Reach DEF Monitor!Clamp
<1>4. PICK y, z : /\ y = [x EXCEPT !.inHsync = FALSE, !.end = 0]
                  /\ z = [x EXCEPT !.inHsync = FALSE, !.end = 0, !.hadPeak = FALSE, !.free = f, !.hsync = w]
  OBVIOUS
<1>5. Monitor!cpc_monitor_end_hsync(x) \in {x, y, z}
  BY <1>2, <1>3, <1>4 DEF Monitor!cpc_monitor_end_hsync
<1>6. MonOk(y) /\ y.vline = x.vline
  <2>1. /\ DOMAIN y = BeamFields /\ y.hsync = x.hsync /\ y.free = x.free /\ y.hpos = x.hpos /\ y.start = x.start
        /\ y.end = 0 /\ y.peak = x.peak /\ y.startToPeak = x.startToPeak /\ y.endToPeak = x.endToPeak
        /\ y.vline = x.vline
    BY <1>1, <1>4 DEF BeamFields
  <2>. QED  BY <1>1, <2>1, Reach DEF MonOk, Hold
<1>7. MonOk(z) /\ z.vline = x.vline
  <2>1. /\ DOMAIN z = BeamFields /\ z.hsync = w /\ z.free = f /\ z.hpos = x.hpos /\ z.start = x.start
        /\ z.end = 0 /\ z.peak = x.peak /\ z.startToPeak = x.startToPeak /\ z.endToPeak = x.endToPeak
        /\ z.vline = x.vline
    BY <1>1, <1>4 DEF BeamFields
  <2>. QED  BY <1>1, <2>1, Reach DEF MonOk, Hold
<1>. QED  BY <1>5, <1>6, <1>7

(* The vertical hold lets no line begin with more lines than it allows. *)
LEMMA Holds ==
    ASSUME NEW x, MonOk(x), NEW vsync
    PROVE  /\ MonOk(Monitor!cpc_monitor_finish_frame(x, vsync))
           /\ Monitor!cpc_monitor_finish_frame(x, vsync).vline < MaxVsync
<1>1. DOMAIN x = BeamFields /\ x.vline \in Nat  BY DEF MonOk
<1>2. PICK q : q = -((x.vline - MinVhold + 1) \div 2)  OBVIOUS
<1>3. PICK y, z : y = [x EXCEPT !.completed = FALSE] /\ z = [x EXCEPT !.y = q, !.vline = 0, !.completed = TRUE]
  OBVIOUS
<1>4. /\ DOMAIN y = BeamFields /\ y.hsync = x.hsync /\ y.free = x.free /\ y.hpos = x.hpos /\ y.start = x.start
      /\ y.end = x.end /\ y.peak = x.peak /\ y.startToPeak = x.startToPeak /\ y.endToPeak = x.endToPeak
      /\ y.vline = x.vline
  BY <1>1, <1>3 DEF BeamFields
<1>5. /\ DOMAIN z = BeamFields /\ z.hsync = x.hsync /\ z.free = x.free /\ z.hpos = x.hpos /\ z.start = x.start
      /\ z.end = x.end /\ z.peak = x.peak /\ z.startToPeak = x.startToPeak /\ z.endToPeak = x.endToPeak
      /\ z.vline = 0
  BY <1>1, <1>3 DEF BeamFields
<1>6. MonOk(y)  BY <1>4 DEF MonOk
<1>7. MonOk(z)  BY <1>5 DEF MonOk
<1>8. CASE (~vsync \/ x.vline <= MinVsync) /\ x.vline < MaxVsync
  <2>1. Monitor!cpc_monitor_finish_frame(x, vsync) = y  BY <1>3, <1>8 DEF Monitor!cpc_monitor_finish_frame
  <2>. QED  BY <1>4, <1>6, <1>8, <2>1
<1>9. CASE ~((~vsync \/ x.vline <= MinVsync) /\ x.vline < MaxVsync)
  <2>1. Monitor!cpc_monitor_finish_frame(x, vsync) = z
    BY <1>2, <1>3, <1>9 DEF Monitor!cpc_monitor_finish_frame
  <2>. QED  BY <1>5, <1>7, <2>1, HoldNumbers
<1>. QED  BY <1>8, <1>9

LEMMA Starts ==
    ASSUME NEW x, MonOk(x)
    PROVE  MonOk(Monitor!cpc_monitor_start_hsync(x)) /\ Monitor!cpc_monitor_start_hsync(x).vline = x.vline
<1>1. DOMAIN x = BeamFields  BY DEF MonOk
<1>2. PICK y : y = [x EXCEPT !.inHsync = TRUE, !.start = 0]  OBVIOUS
<1>3. /\ DOMAIN y = BeamFields /\ y.hsync = x.hsync /\ y.free = x.free /\ y.hpos = x.hpos /\ y.start = 0
      /\ y.end = x.end /\ y.peak = x.peak /\ y.startToPeak = x.startToPeak /\ y.endToPeak = x.endToPeak
      /\ y.vline = x.vline
  BY <1>1, <1>2 DEF BeamFields
<1>4. MonOk(y)  BY <1>3 DEF MonOk
<1>5. Monitor!cpc_monitor_start_hsync(x) \in {x, y}  BY <1>2 DEF Monitor!cpc_monitor_start_hsync
<1>. QED  BY <1>3, <1>4, <1>5

LEMMA MonitorInit == Monitor!Init => BeamInv
<1>. SUFFICES ASSUME Monitor!Init PROVE BeamInv  OBVIOUS
<1>1. PICK source \in LineSources :
        /\ v1 = Monitor!cpc_monitor_reset
        /\ v2 = [of |-> source, clock |-> 0, line |-> 0]
        /\ v3 = [changes |-> 0, lines |-> 0, pictures |-> 0, before |-> 0, began |-> 0, first |-> 0]
  BY DEF Monitor!Init
<1>2. SourceOk  BY <1>1 DEF SourceOk
<1>3. MonOk(v1) /\ v1.vline = 0
  BY <1>1, Reach DEF Monitor!cpc_monitor_reset, Monitor!BaseHsync, Monitor!Duration, MonOk, Hold, BeamFields
<1>. QED  BY <1>2, <1>3, HoldNumbers DEF BeamInv

LEMMA TickKeeps == BeamInv /\ Monitor!Tick => BeamInv'
<1>. SUFFICES ASSUME BeamInv, Monitor!Tick PROVE BeamInv'  OBVIOUS
<1>1. MonOk(v1) /\ SourceOk  BY DEF BeamInv
<1>2. PICK clock \in Nat, lines \in Nat : clock = v2.clock /\ lines = v3.lines  BY <1>1 DEF SourceOk
<1>3. PICK newLine \in BOOLEAN : newLine = (clock + 1 = v2.of.line)  OBVIOUS
<1>4. PICK line, next : /\ line = IF newLine THEN (v2.line + 1) % v2.of.lines ELSE v2.line
                        /\ next = IF newLine THEN 0 ELSE clock + 1
  OBVIOUS
<1>5. PICK a : a = Monitor!cpc_monitor_advance(v1)  OBVIOUS
<1>6. PICK b : b = IF newLine THEN Monitor!cpc_monitor_finish_frame(a, line < v2.of.sync)
                   ELSE [a EXCEPT !.completed = FALSE]
  OBVIOUS
<1>7. PICK d : d = IF next = v2.of.start THEN Monitor!cpc_monitor_start_hsync(b) ELSE b  OBVIOUS
<1>8. /\ lines < Watched
      /\ v1' = IF next = v2.of.end THEN Monitor!cpc_monitor_end_hsync(d) ELSE d
      /\ v2' = [v2 EXCEPT !.clock = next, !.line = line]
      /\ v3' = IF ~newLine THEN v3
               ELSE [v3 EXCEPT !.lines = @ + 1,
                               !.pictures = IF b.completed /\ @ < 3 THEN @ + 1 ELSE @,
                               !.before = v3.began, !.began = Monitor!cpc_monitor_px(b),
                               !.first = IF b.completed THEN line ELSE @]
  BY <1>2, <1>3, <1>4, <1>5, <1>6, <1>7 DEF Monitor!Tick, Watched
<1>9. MonOk(a)  BY <1>1, <1>5, Advances
<1>10. MonOk(b) /\ (newLine => b.vline < MaxVsync)
  <2>1. CASE newLine
    <3>1. b = Monitor!cpc_monitor_finish_frame(a, line < v2.of.sync)  BY <1>6, <2>1
    <3>. QED  BY <1>9, <3>1, Holds
  <2>2. CASE ~newLine
    <3>1. b = [a EXCEPT !.completed = FALSE]  BY <1>6, <2>2
    <3>2. /\ DOMAIN b = BeamFields /\ b.hsync = a.hsync /\ b.free = a.free /\ b.hpos = a.hpos /\ b.start = a.start
          /\ b.end = a.end /\ b.peak = a.peak /\ b.startToPeak = a.startToPeak /\ b.endToPeak = a.endToPeak
          /\ b.vline = a.vline
      BY <1>9, <3>1 DEF MonOk, BeamFields
    <3>. QED  BY <1>9, <2>2, <3>2 DEF MonOk
  <2>. QED  BY <2>1, <2>2
<1>11. MonOk(d) /\ d.vline = b.vline
  <2>1. MonOk(Monitor!cpc_monitor_start_hsync(b)) /\ Monitor!cpc_monitor_start_hsync(b).vline = b.vline
    BY <1>10, Starts
  <2>2. d \in {b, Monitor!cpc_monitor_start_hsync(b)}  BY <1>7
  <2>. QED  BY <1>10, <2>1, <2>2
<1>12. MonOk(v1') /\ v1'.vline = b.vline
  <2>1. MonOk(Monitor!cpc_monitor_end_hsync(d)) /\ Monitor!cpc_monitor_end_hsync(d).vline = d.vline
    BY <1>11, Follows
  <2>2. v1' \in {d, Monitor!cpc_monitor_end_hsync(d)}  BY <1>8
  <2>. QED  BY <1>11, <2>1, <2>2
<1>13. /\ DOMAIN v2' = {"of", "clock", "line"} /\ v2'.clock = next
       /\ DOMAIN v3' = {"changes", "lines", "pictures", "before", "began", "first"}
       /\ v3'.lines = IF newLine THEN lines + 1 ELSE lines
  BY <1>1, <1>2, <1>8 DEF SourceOk
<1>14. next \in Nat /\ (~newLine => next # 0)  BY <1>3, <1>4
<1>15. SourceOk'  BY <1>3, <1>13, <1>14 DEF SourceOk
<1>16. CASE newLine  BY <1>10, <1>12, <1>15, <1>16 DEF BeamInv
<1>17. CASE ~newLine
  <2>1. v2'.clock # 0 /\ v3'.lines # Watched  BY <1>8, <1>13, <1>14, <1>17, HoldNumbers DEF Watched
  <2>2. Watched' = Watched  BY DEF Watched
  <2>. QED  BY <1>12, <1>15, <2>1, <2>2 DEF BeamInv
<1>. QED  BY <1>3, <1>16, <1>17

LEMMA DisturbKeeps ==
    ASSUME BeamInv, NEW source \in LineSources, NEW clock \in Phases, Monitor!Disturb(source, clock)
    PROVE  BeamInv'
<1>1. /\ v3.lines = Watched /\ v1' = v1 /\ v2' = [of |-> source, clock |-> clock, line |-> 0]
      /\ v3' = [v3 EXCEPT !.changes = @ + 1, !.lines = 0, !.pictures = 0]
  BY DEF Monitor!Disturb, Watched
<1>2. MonOk(v1) /\ SourceOk /\ v1.vline < MaxVsync  BY <1>1 DEF BeamInv
<1>3. SourceOk'
  <2>1. clock \in Nat  BY HoldNumbers
  <2>. QED  BY <1>1, <1>2, <2>1 DEF SourceOk
<1>. QED  BY <1>1, <1>2, <1>3 DEF BeamInv

BeamPart == part = "beam" => BeamInv

(* cpc_monitor_*: whatever source of lines the monitor is given, and        *)
(* however it changes at the end of a line, the width of a line stays one   *)
(* the monitor can follow, the beam stays on a line, and no line begins     *)
(* with more lines in the picture than the vertical hold allows.            *)
THEOREM BeamHolds == MachineSpec => [](part = "beam" => Monitor!InRange /\ Monitor!HoldEnds)
<1>1. MachineInit => BeamPart  BY MonitorInit DEF MachineInit, BeamPart
<1>2. BeamPart /\ [MachineNext]_allVars => BeamPart'
  <2>. SUFFICES ASSUME BeamPart, [MachineNext]_allVars, part' = "beam" PROVE BeamInv'
    BY DEF BeamPart
  <2>1. part' = part  BY DEF MachineNext, allVars
  <2>2. part = "beam" /\ BeamInv  BY <2>1 DEF BeamPart
  <2>3. CASE Monitor!Next
    <3>1. CASE Monitor!Tick  BY <2>2, <3>1, TickKeeps
    <3>2. CASE \E source \in LineSources, clock \in Phases : Monitor!Disturb(source, clock)
      BY <2>2, <3>2, DisturbKeeps
    <3>. QED  BY <2>3, <3>1, <3>2 DEF Monitor!Next
  <2>4. CASE UNCHANGED <<v1, v2, v3>>
    BY <2>2, <2>4 DEF BeamInv, SourceOk, Watched
  <2>. QED  BY <2>2, <2>3, <2>4 DEF MachineNext, allVars, Bounded, shared
<1>3. BeamPart => (part = "beam" => Monitor!InRange /\ Monitor!HoldEnds)
  <2>. SUFFICES ASSUME BeamInv PROVE Monitor!InRange /\ Monitor!HoldEnds  BY DEF BeamPart
  <2>1. MonOk(v1)  BY DEF BeamInv
  <2>2. Monitor!InRange
    <3>1. v1.hpos \in -Monitor!Duration .. Monitor!MaxHsync + Monitor!Unit  BY <2>1, OnLine DEF MonOk
    <3>2. v1.hsync \in Hold /\ v1.free \in Hold  BY <2>1 DEF MonOk
    <3>. QED  BY <3>1, <3>2, Zenon DEF Monitor!InRange, Hold
  <2>3. Monitor!HoldEnds  BY DEF BeamInv, Monitor!HoldEnds
  <2>. QED  BY <2>2, <2>3
<1>. QED  BY <1>1, <1>2, <1>3, PTL DEF MachineSpec
=============================================================================
