----------------------------- MODULE MCN4cLink ------------------------------
(* The experiments run on N4cLink. *)
EXTENDS N4cLink

Plain == [opener |-> "guest", guestBytes |-> 0, peerBytes |-> 0,
          finWaits |-> TRUE, mayDie |-> FALSE, arpStable |-> TRUE, faults |-> {}]
Openers(t) == {[t EXCEPT !.opener = o] : o \in {"guest", "peer"}}

AllFaults == {"lose", "dup", "reorder"}

(* one direction at a time over every fault; both over a wire that loses,  *)
(* with a next hop that comes and goes                                     *)
SafetyTrials ==
    {[Plain EXCEPT !.guestBytes = 2, !.faults = AllFaults],
     [Plain EXCEPT !.peerBytes = 2, !.opener = "peer", !.faults = AllFaults]}
    \cup Openers([Plain EXCEPT !.guestBytes = 1, !.peerBytes = 1,
                               !.arpStable = FALSE, !.faults = {"lose"}])

(* a wire that delivers, and one that loses with a peer that may die       *)
LiveTrials ==
    {[Plain EXCEPT !.guestBytes = 2],
     [Plain EXCEPT !.guestBytes = 1, !.mayDie = TRUE, !.faults = {"lose"}]}

FinTrials == {[Plain EXCEPT !.peerBytes = 2, !.finWaits = FALSE, !.faults = {"lose"}]}
ArpTrials == {[Plain EXCEPT !.arpStable = FALSE]}
=============================================================================
