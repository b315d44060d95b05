--------------------------- MODULE MCImuTimeline ---------------------------
(* Batches of up to three packets, two ticks each, on a tick of 24 values: *)
(* every read time is met with every phase of the timeline.                *)
EXTENDS ImuTimeline

MCTickModulus == 24
MCSamplePeriod == 2
MCMaxBatch == 3
MCMaxGap == 8
MCMaximumSampleAge == 8
=============================================================================
