------------------------------ MODULE MCN4cTcp ------------------------------
(* One socket against an open network: any segment of a small alphabet.    *)
(* Sequence numbers the stack reads in no state are fixed at 0.            *)
EXTENDS N4cTcp

MCSegments ==
    [seq : SeqNum, ack : {0}, flags : {{"SYN"}}, data : {<<>>}]
    \cup [seq : SeqNum, ack : SeqNum, flags : {{"SYN", "ACK"}}, data : {<<>>}]
    \cup [seq : {0}, ack : SeqNum, flags : {{"ACK"}, {"FIN", "ACK"}}, data : {<<>>}]
    \cup [seq : SeqNum, ack : SeqNum, flags : {{"FIN", "ACK"}}, data : {<<1, 2>>}]
    \cup [seq : {0}, ack : {0}, flags : {{"RST"}}, data : {<<>>}]
=============================================================================
