--------------------------- MODULE MCSensorHubApp ---------------------------
(* The order of the periods is kept: fallback < FIFO < event timeout <     *)
(* re-initialisation.  A heartbeat in every poll keeps its phase out of    *)
(* the state; nothing the hub decides depends on it.                       *)
EXTENDS SensorHubApp

MCPeriod ==
  [heartbeat |-> 1, fifo |-> 2, event |-> 4, fallback |-> 1, reinit |-> 6]
=============================================================================
