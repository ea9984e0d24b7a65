------------------------------ MODULE MCWindow ------------------------------
(***************************************************************************)
(* Instances of Window: two of everything is the least at which an old     *)
(* playback, recording or dialog meets a new one.                          *)
(***************************************************************************)
EXTENDS Window

Two == 1 .. 2
Harmless == {"recorder", "stop", "play", "focus", "restore"}
NoFaults == {}
=============================================================================
