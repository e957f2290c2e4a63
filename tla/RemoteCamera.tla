----------------------------- MODULE RemoteCamera -----------------------------
(***************************************************************************)
(* What a call of a MotionCamera method promises the thread that makes it, *)
(* whatever becomes of its requests:                                       *)
(*   - a status it returns was the camera's at some moment of the call;    *)
(*   - all commands of one call are the same one, that of its method, or,  *)
(*     for toggleDetection, the opposite of the status it was told;        *)
(*   - it reports success only if Motion carried that command out.         *)
(* It does not promise that a failure it reports means that Motion did     *)
(* nothing.                                                                *)
(***************************************************************************)
EXTENDS MotionCommands

CONSTANTS
  Clients,  \* threads, each with a MotionCamera object
  Cameras   \* cameras that Motion serves

VARIABLES
  detection,  \* whether each camera detects
  camera,     \* the camera each client calls or has called last
  method,     \* the method each client is in, "none" if in none
  told,       \* the status a call was told
  done,       \* whether Motion has carried out its command
  result      \* what the last call returned

remoteVars == << detection, camera, method, told, done, result >>

TypeOK ==
  /\ detection \in [Cameras -> Detection]
  /\ camera \in [Clients -> Cameras]
  /\ method \in [Clients -> Methods \cup { "none" }]
  /\ told \in [Clients -> Detection \cup { "nothing" }]
  /\ done \in [Clients -> BOOLEAN]
  /\ result \in [Clients -> Results \cup { "none" }]

Init ==
  /\ detection \in [Cameras -> Detection]
  /\ camera \in [Clients -> Cameras]
  /\ method = [c \in Clients |-> "none"]
  /\ told = [c \in Clients |-> "nothing"]
  /\ done = [c \in Clients |-> FALSE]
  /\ result = [c \in Clients |-> "none"]

Call(c, k, m) ==
  /\ method[c] = "none"
  /\ camera' = [camera EXCEPT ![c] = k]
  /\ method' = [method EXCEPT ![c] = m]
  /\ result' = [result EXCEPT ![c] = "none"]
  /\ UNCHANGED << detection, told, done >>

\* The status arrives, or it does not.
Look(c) ==
  /\ method[c] \in { "getStatus", "toggleDetection" } /\ ~done[c]
  /\ \E s \in { detection[camera[c]], "nothing" } : told' = [told EXCEPT ![c] = s]
  /\ UNCHANGED << detection, camera, method, done, result >>

\* The command of c's call.
Asked(c) ==
  IF method[c] = "toggleDetection" THEN Command(told[c]) ELSE FirstRequest[method[c]]

Act(c) ==
  /\ method[c] \notin { "none", "getStatus" }
  /\ detection' = [detection EXCEPT ![camera[c]] = Effect(Asked(c), @)]
  /\ done' = [done EXCEPT ![c] = TRUE]
  /\ UNCHANGED << camera, method, told, result >>

Reports(c) ==
  { "Failed" } \cup (IF method[c] = "getStatus" THEN { told[c] } \ { "nothing" }
                     ELSE IF done[c] THEN { Success[Asked(c)] } ELSE { })

Return(c) ==
  /\ method[c] # "none"
  /\ \E s \in Reports(c) : result' = [result EXCEPT ![c] = s]
  /\ method' = [method EXCEPT ![c] = "none"]
  /\ told' = [told EXCEPT ![c] = "nothing"]
  /\ done' = [done EXCEPT ![c] = FALSE]
  /\ UNCHANGED << detection, camera >>

\* The caller has used the result.
Taken(c) ==
  /\ method[c] = "none"
  /\ result' = [result EXCEPT ![c] = "none"]
  /\ UNCHANGED << detection, camera, method, told, done >>

Step(c) == Look(c) \/ Act(c) \/ Return(c) \/ Taken(c)

\* Another client of Motion, its web interface for one.
Elsewhere(k) ==
  /\ \E d \in Detection : detection' = [detection EXCEPT ![k] = d]
  /\ UNCHANGED << camera, method, told, done, result >>

\* The process is killed, and with it every thread that is in a call.
Killed ==
  /\ method' = [c \in Clients |-> "none"]
  /\ told' = [c \in Clients |-> "nothing"]
  /\ done' = [c \in Clients |-> FALSE]
  /\ UNCHANGED << detection, camera, result >>

Next ==
  \/ Killed
  \/ \E c \in Clients :
       \/ \E k \in Cameras, m \in Methods : Call(c, k, m)
       \/ Step(c)
  \/ \E k \in Cameras : Elsewhere(k)

Spec == Init /\ [][Next]_remoteVars

=============================================================================
