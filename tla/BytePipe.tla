------------------------------ MODULE BytePipe ------------------------------
(***************************************************************************)
(* What one direction of a TCP connection promises its two applications:   *)
(* a pipe.  The writer adds bytes, the reader takes them out in order,     *)
(* each once.  Bytes are their positions in the stream.                    *)
(***************************************************************************)
EXTENDS Integers, Sequences

VARIABLES
    written,     \* number of bytes written
    delivered    \* bytes taken out

Init == written = 0 /\ delivered = <<>>

Write == /\ written' \in Nat
         /\ written' > written
         /\ UNCHANGED delivered

Deliver == /\ Len(delivered') \in Len(delivered) + 1 .. written
           /\ delivered' = [i \in 1 .. Len(delivered') |-> i]
           /\ UNCHANGED written

Next == Write \/ Deliver

Spec == Init /\ [][Next]_<<written, delivered>>
=============================================================================
