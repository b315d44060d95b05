---------------------------- MODULE MCUartRxRing ----------------------------
(* Three slots hold two bytes: six bytes fill, overflow and wrap the ring. *)
EXTENDS UartRxRing

MCRxSize == 3
MCMaxBytes == 6
=============================================================================
