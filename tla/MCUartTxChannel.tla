-------------------------- MODULE MCUartTxChannel --------------------------
(* A four-slot ring: frames of one to three bytes wrap it at every offset. *)
EXTENDS UartTxChannel

MCCapacity == 4
MCLengths  == 1..3
MCMaxBytes == 9
MCMaxDrops == 2
=============================================================================
