----------------------------- MODULE HostParts ------------------------------
(* The parts that answer to the host share four variables and run one at a *)
(* time: part says which.                                                  *)

VARIABLES part, v1, v2, v3, v4

hostVars == <<part, v1, v2, v3, v4>>
=============================================================================
