----------------------------- MODULE MCControl ------------------------------
(* The serial boards, and run control.                                     *)
EXTENDS HostParts, Integers, Sequences

(* As in Serial and RunControl *)
CONSTANTS Room, ReplySize, LineMax, Faulty, MaxBytes
CONSTANTS Addrs, Views, CyclesPerFrame, Times, FrameLen, PageRows, MaxItems, MaxEvents

Serials == INSTANCE Serial WITH u <- v1, p <- v2, line <- v3, hist <- v4

Runs == INSTANCE RunControl WITH cpu <- v1, loop <- v2, bps <- v3, ui <- v4

ASSUME RunsAssumption == Runs!RunControlAssumption
ASSUME SerialsAssumption == Serials!SerialAssumption

-----------------------------------------------------------------------------
(* The steps of these two parts; the others are free. *)
ControlInit == \/ part \notin {"serial", "run"}
               \/ part = "serial" /\ Serials!Init
               \/ part = "run" /\ Runs!Init

ControlNext == \/ part \notin {"serial", "run"}
               \/ part = "serial" /\ Serials!Next
               \/ part = "run" /\ Runs!Next

ControlSpec == ControlInit /\ [][part' = part /\ ControlNext]_hostVars

(* usifac.c, perryfi.c: what the host sends reaches the guest in order and *)
(* once, and no byte taken from the socket is lost; what the guest sends   *)
(* leaves in order, but for bytes that met a full ring, a failed write or  *)
(* the escape; the modem is on line only while it has a connection.        *)
SerialExact == part = "serial" => Serials!SerialExact
(* cpc.c, monitor.c, main.c: no instruction under an armed breakpoint runs *)
(* before the machine stopped there; every call of cpc_frame ends with one *)
(* picture; a card that was edited boots cold before the guest runs again. *)
RunControlSound == part = "run" => Runs!RunControlSound
=============================================================================
