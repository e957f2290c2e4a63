---------------------------- MODULE MotionCommands ----------------------------
(***************************************************************************)
(* The methods of MotionCamera, the requests they send, and the strings    *)
(* they return, told apart by the words their callers look for.            *)
(***************************************************************************)

Detection == { "ACTIVE", "PAUSED" }
Commands  == { "start", "pause", "snapshot" }

\* The first request of each method; only toggleDetection sends a second one.
FirstRequest ==
  [ getStatus |-> "status", toggleDetection |-> "status", snapshot |-> "snapshot",
    startDetection |-> "start", pauseDetection |-> "pause" ]

Methods == DOMAIN FirstRequest

\* What toggleDetection does on a status: an unreadable one starts detection.
CommandSwapped(s) == IF s = "PAUSED" THEN "pause" ELSE "start"  \* faulty variant
Command(s) == IF s = "ACTIVE" THEN "pause" ELSE "start"

\* What a command that succeeded is reported as; "Failed" stands for every string
\* that reports no success.
Success == [ start |-> "Started", pause |-> "Paused", snapshot |-> "Taken" ]

Results == Detection \cup { "Started", "Paused", "Taken", "Failed" }

\* The detection state that command r leaves a camera in.
Effect(r, d) ==
  CASE r = "start" -> "ACTIVE"
    [] r = "pause" -> "PAUSED"
    [] OTHER -> d

=============================================================================
