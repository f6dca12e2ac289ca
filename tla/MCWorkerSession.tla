---------------------------- MODULE MCWorkerSession ----------------------------
(* Three calls of ready() and two of invoke(), with fewer identifiers than    *)
(* calls.                                                                     *)
EXTENDS WorkerSession, TLC

CONSTANTS r1, r2, r3, i1, i2, a, b, c

MCReadyCalls == {r1, r2, r3}
MCCalls == MCReadyCalls \cup {i1, i2}
MCIds == {a, b, c}
================================================================================
