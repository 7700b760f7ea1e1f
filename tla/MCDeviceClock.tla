--------------------------- MODULE MCDeviceClock ---------------------------
(* Two devices with unrelated wall clocks, for TLC.                         *)
EXTENDS DeviceClock

MCDevice == {1, 2}
MCReadings == {0, 2}
=============================================================================
