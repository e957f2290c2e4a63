----------------------------- MODULE MotionCamera -----------------------------
(***************************************************************************)
(* MotionCamera objects, which send commands to Motion over HTTP, and the  *)
(* detection state of the cameras at the other end.                        *)
(*                                                                         *)
(* A method sends one request, or two (toggleDetection asks for the status *)
(* first), each to the external address and, if that refuses the           *)
(* connection, to the internal one.  Any other failure, a timeout included,*)
(* ends the request.  Motion may carry a command out although its answer   *)
(* never arrives, and it has other clients than this app.  The HTTP library*)
(* sends a request again by itself if Motion closes the connection without *)
(* an answer.                                                              *)
(*                                                                         *)
(* Every thread of the app that talks to Motion has an object of its own.  *)
(***************************************************************************)
EXTENDS Naturals, MotionCommands

CONSTANTS
  Clients,  \* threads, each with its MotionCamera object
  Cameras,  \* cameras that Motion serves
  MaxResends  \* how often the library sends the requests of one call again

ASSUME ResendsAssumption == MaxResends \in Nat

VARIABLES
  detection,  \* at Motion: whether each camera detects
  camera,     \* the camera of each object
  method,     \* the method each client is in, "none" if in none
  request,    \* what its last request asks for
  address,    \* where that request goes
  wire,       \* how far it has got: the answer of a status request says the
              \* detection state, that of a command that it was carried out
  status,     \* toggleDetection's local variable
  result,     \* what the last method returned
  resends,    \* how often the library has sent one again in this call
  acts,       \* history: how often Motion carried out a command of this call
  before,     \* history: the detection state at this call
  meddled     \* history: somebody else has changed it since

cameraVars == << detection, camera, method, request, address, wire, status,
                 result, resends, acts, before, meddled >>

TypeOK ==
  /\ detection \in [Cameras -> Detection]
  /\ camera \in [Clients -> Cameras]
  /\ method \in [Clients -> Methods \cup { "none" }]
  /\ request \in [Clients -> Commands \cup { "status" }]
  /\ address \in [Clients -> { "external", "internal" }]
  /\ wire \in [Clients -> Detection \cup { "none", "connecting", "declined", "acted" }]
  /\ status \in [Clients -> Results \cup { "none" }]
  /\ result \in [Clients -> Results \cup { "none" }]
  /\ resends \in [Clients -> 0 .. MaxResends]
  /\ acts \in [Clients -> Nat]
  /\ before \in [Clients -> Detection]
  /\ meddled \in [Clients -> BOOLEAN]
  /\ \A c \in Clients : wire[c] = "none" <=> method[c] = "none"
  /\ \A c \in Clients : wire[c] = "acted" => request[c] # "status"

Init ==
  /\ detection \in [Cameras -> Detection]
  /\ camera \in [Clients -> Cameras]
  /\ method = [c \in Clients |-> "none"]
  /\ request = [c \in Clients |-> "status"]
  /\ address = [c \in Clients |-> "external"]
  /\ wire = [c \in Clients |-> "none"]
  /\ status = [c \in Clients |-> "none"]
  /\ result = [c \in Clients |-> "none"]
  /\ resends = [c \in Clients |-> 0]
  /\ acts = [c \in Clients |-> 0]
  /\ before = [c \in Clients |-> detection[camera[c]]]
  /\ meddled = [c \in Clients |-> FALSE]

-----------------------------------------------------------------------------
(* Calls and requests                                                      *)

\* A request starts at the external address.
Send(c, r) ==
  /\ request' = [request EXCEPT ![c] = r]
  /\ address' = [address EXCEPT ![c] = "external"]
  /\ wire' = [wire EXCEPT ![c] = "connecting"]

\* Client c calls method m of a new object for camera k.
Call(c, k, m) ==
  /\ method[c] = "none"
  /\ camera' = [camera EXCEPT ![c] = k]
  /\ method' = [method EXCEPT ![c] = m]
  /\ Send(c, FirstRequest[m])
  /\ status' = [status EXCEPT ![c] = "none"]
  /\ result' = [result EXCEPT ![c] = "none"]
  /\ resends' = [resends EXCEPT ![c] = 0]
  /\ acts' = [acts EXCEPT ![c] = 0]
  /\ before' = [before EXCEPT ![c] = detection[k]]
  /\ meddled' = [meddled EXCEPT ![c] = FALSE]
  /\ UNCHANGED detection

\* The request of c returns s: toggleDetection goes on, any other method returns.
Return(c, s) ==
  \/ /\ method[c] = "toggleDetection" /\ request[c] = "status"
     /\ status' = [status EXCEPT ![c] = s]
     /\ Send(c, Command(s))
     /\ UNCHANGED << method, result >>
  \/ /\ ~(method[c] = "toggleDetection" /\ request[c] = "status")
     /\ result' = [result EXCEPT ![c] = s]
     /\ method' = [method EXCEPT ![c] = "none"]
     /\ address' = [address EXCEPT ![c] = "external"]
     /\ wire' = [wire EXCEPT ![c] = "none"]
     /\ UNCHANGED << request, status >>

atMotion == << detection, camera, acts, before, meddled >>

\* HttpHostConnectException: the other address, or none is left.
ConnectionRefused(c) ==
  /\ wire[c] = "connecting"
  /\ \/ /\ address[c] = "external"
        /\ address' = [address EXCEPT ![c] = "internal"]
        /\ UNCHANGED << method, request, wire, status, result >>
     \/ /\ address[c] = "internal"
        /\ Return(c, "Failed")
  /\ UNCHANGED << resends, atMotion >>

\* Any other exception before the request arrives: a timeout, an unknown host.
ConnectionFails(c) ==
  /\ wire[c] = "connecting"
  /\ Return(c, "Failed")
  /\ UNCHANGED << resends, atMotion >>

\* Motion carries the request out; its answer has status 200.
SetDetection(k, d, by) ==
  /\ detection' = [detection EXCEPT ![k] = d]
  /\ meddled' = [o \in Clients |->
       meddled[o] \/ (o \notin by /\ camera[o] = k /\ detection[k] # d)]

MotionActs(c) ==
  /\ wire[c] = "connecting"
  /\ wire' = [wire EXCEPT ![c] =
       IF request[c] = "status" THEN detection[camera[c]] ELSE "acted"]
  /\ SetDetection(camera[c], Effect(request[c], detection[camera[c]]), { c })
  /\ acts' = [acts EXCEPT ![c] = IF request[c] \in Commands THEN @ + 1 ELSE @]
  /\ UNCHANGED << camera, method, request, address, status, result, resends, before >>

\* Motion refuses the request: 401, or another status.
MotionDeclines(c) ==
  /\ wire[c] = "connecting"
  /\ wire' = [wire EXCEPT ![c] = "declined"]
  /\ UNCHANGED << method, request, address, status, result, resends, atMotion >>

Answered(c) == wire[c] \in Detection \cup { "acted", "declined" }

\* Motion closes the connection without an answer: the library sends the request
\* again, to the same address.
SendAgain(c) ==
  /\ Answered(c) /\ resends[c] < MaxResends
  /\ wire' = [wire EXCEPT ![c] = "connecting"]
  /\ resends' = [resends EXCEPT ![c] = @ + 1]
  /\ UNCHANGED << method, request, address, status, result, atMotion >>

\* Faulty variant: the status code of the answer to a command is not looked at.
OutcomeUnchecked(c) ==
  CASE request[c] # "status" -> Success[request[c]]
    [] wire[c] \in Detection -> wire[c]
    [] OTHER -> "Failed"

\* What the answer is turned into.
Outcome(c) ==
  CASE wire[c] \in Detection -> wire[c]
    [] wire[c] = "acted" -> Success[request[c]]
    [] OTHER -> "Failed"

Answer(c) ==
  /\ Answered(c)
  /\ Return(c, Outcome(c))
  /\ UNCHANGED << resends, atMotion >>

\* Faulty variant: every IOException leads to the second address.
AnswerLostRetries(c) ==
  /\ Answered(c)
  /\ \/ /\ address[c] = "external"
        /\ address' = [address EXCEPT ![c] = "internal"]
        /\ wire' = [wire EXCEPT ![c] = "connecting"]
        /\ UNCHANGED << method, request, status, result >>
     \/ /\ address[c] = "internal"
        /\ Return(c, "Failed")
  /\ UNCHANGED << resends, atMotion >>

\* The connection breaks before the answer is read, or the first line of a status
\* says neither PAUSE nor ACTIVE.
AnswerLost(c) ==
  /\ Answered(c)
  /\ Return(c, "Failed")
  /\ UNCHANGED << resends, atMotion >>

Step(c) ==
  \/ ConnectionRefused(c) \/ ConnectionFails(c)
  \/ MotionActs(c) \/ MotionDeclines(c) \/ SendAgain(c)
  \/ Answer(c) \/ AnswerLost(c)

\* Another client of Motion, its web interface for one.
Elsewhere(k) ==
  /\ \E d \in Detection : SetDetection(k, d, {})
  /\ UNCHANGED << camera, method, request, address, wire, status, result,
                  resends, acts, before >>

\* The process is killed, and with it every thread that is in a call.
Killed ==
  /\ method' = [c \in Clients |-> "none"]
  /\ address' = [c \in Clients |-> "external"]
  /\ wire' = [c \in Clients |-> "none"]
  /\ UNCHANGED << request, status, result, resends, atMotion >>

Next ==
  \/ Killed
  \/ \E c \in Clients :
       \/ \E k \in Cameras, m \in Methods : Call(c, k, m)
       \/ Step(c)
  \/ \E k \in Cameras : Elsewhere(k)

Spec == Init /\ [][Next]_cameraVars

-----------------------------------------------------------------------------
(* Properties                                                              *)

\* Motion carries out the command of a call once at most, although it may be sent
\* to two addresses and its answer may be lost; more often only as the library
\* sends it again.
ActsOnce == \A c \in Clients : acts[c] <= 1 + resends[c]

\* Motion did carry out what a call reports as done.
Reported ==
  \A c \in Clients :
    result[c] \in { "Started", "Paused", "Taken" } =>
      acts[c] > 0 /\ result[c] = Success[request[c]]

\* A toggle that could read the status and reports success has changed the
\* detection state it was called in, unless somebody else changed that too.
\* Not so one that could not read it: that starts detection whatever it was.
ToggleFlips ==
  \A c \in Clients :
    /\ ~meddled[c]
    /\ status[c] \in Detection
    /\ result[c] \in { "Started", "Paused" }
    => detection[camera[c]] # before[c]

-----------------------------------------------------------------------------
(* What a call promises, and what it was told and has done so far          *)

\* An answered status request is what a call was told until it returns, a toggle
\* keeps it in its local variable.
Told(c) ==
  LET seen == IF request[c] = "status" THEN wire[c] ELSE status[c] IN
  IF method[c] \in { "getStatus", "toggleDetection" } /\ seen \in Detection
  THEN seen ELSE "nothing"

Done(c) == method[c] # "none" /\ acts[c] > 0

told == [c \in Clients |-> Told(c)]
done == [c \in Clients |-> Done(c)]

Remote == INSTANCE RemoteCamera

\* MotionCamera keeps the promises of RemoteCamera.
ImplementsRemote == Remote!Spec

-----------------------------------------------------------------------------
(* Why all of this holds                                                   *)

\* The command of a call is carried out by the request that is answered with 200,
\* and no request follows that one but the same again.
Once(c) ==
  /\ wire[c] = "connecting" \/ wire[c] = "declined" => acts[c] <= resends[c]
  /\ acts[c] <= 1 + resends[c]
  /\ request[c] = "status" => acts[c] = 0
  /\ wire[c] = "acted" => acts[c] > 0
  /\ wire[c] \in Detection => request[c] = "status"
  /\ result[c] \in { "Started", "Paused", "Taken" } =>
       acts[c] > 0 /\ result[c] = Success[request[c]]

\* Which request a call is at.
Asks(c) ==
  method[c] # "none" =>
    \/ request[c] = FirstRequest[method[c]] /\ status[c] = "none"
    \/ /\ method[c] = "toggleDetection" /\ status[c] # "none"
       /\ request[c] = Command(status[c])

\* What is known of the camera as long as nobody meddles.
Undisturbed(c) ==
  /\ acts[c] = 0 => detection[camera[c]] = before[c]
  /\ acts[c] > 0 /\ request[c] = "start" => detection[camera[c]] = "ACTIVE"
  /\ acts[c] > 0 /\ request[c] = "pause" => detection[camera[c]] = "PAUSED"
  /\ wire[c] \in Detection => wire[c] = before[c]
  /\ status[c] \in Detection => status[c] = before[c] /\ request[c] = Command(status[c])

\* The inductive invariant.
Underway ==
  \A c \in Clients : Once(c) /\ Asks(c) /\ (~meddled[c] => Undisturbed(c))

=============================================================================
