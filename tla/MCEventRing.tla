------------------------------ MODULE MCEventRing ------------------------------
(* A ring of three slots, pushed past its size several times.               *)
EXTENDS EventRing

CONSTANTS e1, e2
=============================================================================
