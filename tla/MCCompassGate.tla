--------------------------- MODULE MCCompassGate ---------------------------
(* A bus that works or is cut, the shortest periods that keep their order, *)
(* and heartbeats rarer than the fallback.                                 *)
EXTENDS CompassGate

MCPeriod ==
  [heartbeat |-> 2, fifo |-> 1, event |-> 2, fallback |-> 1, reinit |-> 1, mag |-> 1, baro |-> 1]
=============================================================================
