--------------------------- MODULE MCTelemetryLog ---------------------------
(* Two files are rotated (three with the base), two lines fill a file.      *)
EXTENDS TelemetryLog

AllFaults == {"remove", "rename", "kill", "clear"}
=============================================================================
