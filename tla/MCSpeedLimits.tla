--------------------------- MODULE MCSpeedLimits ---------------------------
(* Instances of SpeedLimits for TLC: both connections come from one client. *)
EXTENDS SpeedLimits

CONSTANT Client

MCSource == [c \in Conns |-> Client]

(* A schedule for the day's last minute, up to midnight.                   *)
MCSchedules == {<<[start |-> Day - 1, end |-> 0, speed |-> 2]>>}
MCGlobal == <<>>
=============================================================================
