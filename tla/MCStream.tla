------------------------------ MODULE MCStream ------------------------------
(* Instances of AdbStream for TLC.                                         *)
EXTENDS AdbStreamProps

SendOneWay == [p \in Procs |-> IF p = "host" THEN 2 ELSE 0]
SendBoth   == [p \in Procs |-> IF p = "host" THEN 3 ELSE 1]
SendHost   == [p \in Procs |-> IF p = "host" THEN 1 ELSE 0]
FromHost   == {"host"}
FromBoth   == Procs
=============================================================================
