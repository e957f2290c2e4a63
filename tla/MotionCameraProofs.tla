-------------------------- MODULE MotionCameraProofs --------------------------
(***************************************************************************)
(* Theorems about MotionCamera, for any number of clients and cameras.     *)
(***************************************************************************)
EXTENDS MotionCamera, TLAPS

\* Returning from a request keeps the types of what it changes.
LEMMA ReturnType ==
  ASSUME TypeOK, NEW c \in Clients, NEW s \in Results, wire[c] # "none", Return(c, s)
  PROVE  /\ method' \in [Clients -> Methods \cup { "none" }]
         /\ request' \in [Clients -> Commands \cup { "status" }]
         /\ address' \in [Clients -> { "external", "internal" }]
         /\ wire' \in [Clients -> Detection \cup { "none", "connecting", "declined", "acted" }]
         /\ status' \in [Clients -> Results \cup { "none" }]
         /\ result' \in [Clients -> Results \cup { "none" }]
         /\ \A o \in Clients : wire'[o] = "none" <=> method'[o] = "none"
         /\ \A o \in Clients : wire'[o] = "acted" => request'[o] # "status"
BY DEF TypeOK, Return, Send, Command, Commands, Detection

\* What an answer is turned into is one of the strings.
LEMMA OutcomeType ==
  ASSUME TypeOK, NEW c \in Clients
  PROVE  Outcome(c) \in Results
BY DEF TypeOK, Outcome, Results, Success, Commands, Detection

\* Every variable keeps its type, and a client is in a method just as long as
\* its request is under way.
THEOREM TypeCorrect == Spec => []TypeOK
<1>1. Init => TypeOK
  BY ResendsAssumption DEF Init, TypeOK, Detection
<1>2. TypeOK /\ [Next]_cameraVars => TypeOK'
  <2> SUFFICES ASSUME TypeOK, [Next]_cameraVars  PROVE TypeOK'
    OBVIOUS
  <2> USE DEF TypeOK
  <2>1. ASSUME NEW c \in Clients, NEW k \in Cameras, NEW m \in Methods, Call(c, k, m)
        PROVE  TypeOK'
    <3>1. FirstRequest[m] \in Commands \cup { "status" } /\ m # "none"
      BY DEF Methods, FirstRequest, Commands
    <3> QED  BY <2>1, <3>1, ResendsAssumption DEF Call, Send, Detection
  <2>2. ASSUME NEW c \in Clients, Step(c)
        PROVE  TypeOK'
    <3>0. "Failed" \in Results
      BY DEF Results
    <3>1. CASE ConnectionRefused(c)
      <4>1. CASE Return(c, "Failed")
        BY <3>1, <4>1, <3>0, ReturnType DEF ConnectionRefused, atMotion
      <4> QED  BY <3>1, <4>1 DEF ConnectionRefused, atMotion
    <3>2. CASE ConnectionFails(c)
      BY <3>2, <3>0, ReturnType DEF ConnectionFails, atMotion
    <3>3. CASE MotionActs(c)
      <4>1. detection' \in [Cameras -> Detection] /\ meddled' \in [Clients -> BOOLEAN]
        BY <3>3 DEF MotionActs, SetDetection, Detection, Effect
      <4>2. acts' \in [Clients -> Nat]
        BY <3>3 DEF MotionActs
      <4>3. wire' \in [Clients -> Detection \cup { "none", "connecting", "declined", "acted" }]
        BY <3>3 DEF MotionActs
      <4>4. /\ wire'[c] # "none" /\ wire[c] # "none"
            /\ wire'[c] = "acted" => request[c] # "status"
        BY <3>3 DEF MotionActs, Detection
      <4> QED  BY <3>3, <4>1, <4>2, <4>3, <4>4 DEF MotionActs
    <3>4. CASE MotionDeclines(c)
      BY <3>4 DEF MotionDeclines, atMotion
    <3>5. CASE Answer(c)
      BY <3>5, ReturnType, OutcomeType DEF Answer, Answered, atMotion, Detection
    <3>6. CASE SendAgain(c)
      BY <3>6, ResendsAssumption DEF SendAgain, Answered, atMotion, Detection
    <3>7. CASE AnswerLost(c)
      BY <3>7, <3>0, ReturnType DEF AnswerLost, Answered, atMotion, Detection
    <3> QED  BY <2>2, <3>1, <3>2, <3>3, <3>4, <3>5, <3>6, <3>7 DEF Step
  <2>3. ASSUME NEW k \in Cameras, Elsewhere(k)
        PROVE  TypeOK'
    BY <2>3 DEF Elsewhere, SetDetection
  <2>4. CASE Killed
    BY <2>4 DEF Killed, atMotion
  <2>5. CASE UNCHANGED cameraVars
    BY <2>5 DEF cameraVars
  <2> QED  BY <2>1, <2>2, <2>3, <2>4, <2>5 DEF Next
<1> QED  BY <1>1, <1>2, PTL DEF Spec

-----------------------------------------------------------------------------
\* What a request returns decides nothing but the result, and the command of a
\* toggle; s stands for what the request may return.
LEMMA ReturnUnderway ==
  ASSUME TypeOK, Underway, NEW c \in Clients, NEW s \in Results,
         wire[c] # "none", Return(c, s), UNCHANGED << resends, atMotion >>,
         s \in { "Started", "Paused", "Taken" } =>
           acts[c] > 0 /\ s = Success[request[c]],
         s \in Detection /\ request[c] = "status" => s = wire[c]
  PROVE  Underway'
<1> SUFFICES ASSUME NEW o \in Clients
             PROVE  Once(o)' /\ Asks(o)' /\ (~meddled'[o] => Undisturbed(o)')
  BY DEF Underway
<1>1. CASE o # c
  BY <1>1 DEF TypeOK, Underway, Once, Asks, Undisturbed, Return, Send, atMotion
<1>2. CASE o = c /\ method[c] = "toggleDetection" /\ request[c] = "status"
  <2>1. /\ method'[c] = "toggleDetection" /\ status'[c] = s /\ s # "none"
        /\ request'[c] = Command(s) /\ request'[c] \in { "start", "pause" }
        /\ wire'[c] = "connecting" /\ wire'[c] \notin Detection
        /\ acts'[c] = 0 /\ resends'[c] \in Nat
        /\ UNCHANGED << detection, camera, before, meddled, result >>
        /\ result[c] \notin { "Started", "Paused", "Taken" }
    BY <1>2, ResendsAssumption
    DEF TypeOK, Underway, Once, Return, Send, Command, Results, Detection, atMotion
  <2>2. Once(c)'
    BY <2>1 DEF Once
  <2>3. Asks(c)'
    BY <2>1 DEF Asks
  <2>4. ASSUME ~meddled'[c]  PROVE Undisturbed(c)'
    BY <1>2, <2>1, <2>4 DEF Underway, Once, Undisturbed, atMotion
  <2> QED  BY <1>2, <2>2, <2>3, <2>4
<1>3. CASE o = c /\ ~(method[c] = "toggleDetection" /\ request[c] = "status")
  <2>1. /\ method'[c] = "none" /\ wire'[c] = "none" /\ wire'[c] \notin Detection
        /\ result'[c] = s /\ UNCHANGED << request, status >>
    BY <1>3 DEF TypeOK, Return, Detection
  <2>2. Once(c)'
    BY <1>3, <2>1 DEF Underway, Once, atMotion
  <2>3. Asks(c)'
    BY <2>1 DEF Asks
  <2>4. ASSUME ~meddled'[c]  PROVE Undisturbed(c)'
    BY <1>3, <2>1, <2>4 DEF Underway, Undisturbed, atMotion
  <2> QED  BY <1>3, <2>2, <2>3, <2>4
<1> QED  BY <1>1, <1>2, <1>3

\* A camera's detection state changes under everybody else's nose only if they
\* are marked as meddled with.
LEMMA ActsUnderway ==
  ASSUME TypeOK, Underway, NEW c \in Clients, MotionActs(c)
  PROVE  Underway'
<1> SUFFICES ASSUME NEW o \in Clients
             PROVE  Once(o)' /\ Asks(o)' /\ (~meddled'[o] => Undisturbed(o)')
  BY DEF Underway
<1>1. CASE o # c
  <2>1. Once(o)' /\ Asks(o)'
    BY <1>1 DEF TypeOK, Underway, Once, Asks, MotionActs
  <2>2. ASSUME ~meddled'[o]
        PROVE  ~meddled[o] /\ detection'[camera[o]] = detection[camera[o]]
    BY <1>1, <2>2 DEF TypeOK, MotionActs, SetDetection
  <2> QED  BY <1>1, <2>1, <2>2 DEF TypeOK, Underway, Undisturbed, MotionActs
<1>2. CASE o = c
  <2>1. acts[c] <= resends[c] /\ acts[c] \in Nat /\ resends[c] \in Nat
    BY ResendsAssumption DEF TypeOK, Underway, Once, MotionActs
  <2>2. /\ UNCHANGED << camera, method, request, status, result, resends, before >>
        /\ meddled'[c] <=> meddled[c]
    BY DEF TypeOK, MotionActs, SetDetection
  <2>3. detection'[camera[c]] = Effect(request[c], detection[camera[c]])
    BY DEF TypeOK, MotionActs, SetDetection
  <2>4. wire'[c] = IF request[c] = "status" THEN detection[camera[c]] ELSE "acted"
    BY DEF TypeOK, MotionActs
  <2>5. acts'[c] = IF request[c] = "status" THEN acts[c] ELSE acts[c] + 1
    BY DEF TypeOK, MotionActs, Commands
  <2>6. detection[camera[c]] \in Detection
    BY DEF TypeOK
  <2>7. Once(c)'
    BY <2>1, <2>2, <2>4, <2>5, <2>6 DEF Underway, Once, Detection
  <2>8. Asks(c)'
    BY <2>2 DEF Underway, Asks
  <2>9. ASSUME ~meddled'[c]  PROVE Undisturbed(c)'
    <3>1. Undisturbed(c) /\ Once(c)
      BY <2>2, <2>9 DEF Underway
    <3>2. CASE request[c] = "status"
      BY <2>2, <2>3, <2>4, <2>5, <3>1, <3>2 DEF Undisturbed, Once, Effect
    <3>3. CASE request[c] # "status"
      BY <2>1, <2>2, <2>3, <2>4, <2>5, <3>1, <3>3 DEF Undisturbed, Effect, Detection
    <3> QED  BY <3>2, <3>3
  <2> QED  BY <1>2, <2>7, <2>8, <2>9
<1> QED  BY <1>1, <1>2

\* One request of a call carries its command out, and as long as nobody meddles
\* the camera is in the state that follows from that.
THEOREM UnderwayHolds == Spec => []Underway
<1>1. Init => Underway
  <2> SUFFICES ASSUME Init, NEW c \in Clients
               PROVE  Once(c) /\ Asks(c) /\ Undisturbed(c)
    BY DEF Underway
  <2>1. Once(c)
    BY DEF Init, Once, Detection
  <2>2. Undisturbed(c)
    BY DEF Init, Undisturbed, Detection
  <2> QED  BY <2>1, <2>2 DEF Init, Asks
<1>2. TypeOK /\ Underway /\ [Next]_cameraVars => Underway'
  <2> SUFFICES ASSUME TypeOK, Underway, [Next]_cameraVars  PROVE Underway'
    OBVIOUS
  <2>1. ASSUME NEW c \in Clients, NEW k \in Cameras, NEW m \in Methods, Call(c, k, m)
        PROVE  Underway'
    <3>1. ASSUME NEW o \in Clients, o # c
          PROVE  Once(o)' /\ Asks(o)' /\ (~meddled'[o] => Undisturbed(o)')
      BY <2>1, <3>1 DEF TypeOK, Underway, Once, Asks, Undisturbed, Call, Send
    <3>2. Once(c)' /\ Asks(c)' /\ Undisturbed(c)'
      BY <2>1 DEF TypeOK, Once, Asks, Undisturbed, Call, Send, Detection
    <3> QED  BY <3>1, <3>2 DEF Underway
  <2>2. ASSUME NEW c \in Clients, Step(c)
        PROVE  Underway'
    <3>0. "Failed" \in Results /\ "Failed" \notin Detection
      BY DEF Results, Detection
    <3>1. CASE ConnectionRefused(c)
      <4>1. CASE Return(c, "Failed")
        BY <3>1, <4>1, <3>0, ReturnUnderway DEF ConnectionRefused
      <4>2. CASE ~Return(c, "Failed")
        BY <3>1, <4>2 DEF ConnectionRefused, atMotion, Underway, Once, Asks, Undisturbed
      <4> QED  BY <4>1, <4>2
    <3>2. CASE ConnectionFails(c)
      BY <3>2, <3>0, ReturnUnderway DEF ConnectionFails
    <3>3. CASE MotionActs(c)
      BY <3>3, ActsUnderway
    <3>4. CASE MotionDeclines(c)
      BY <3>4 DEF TypeOK, MotionDeclines, atMotion, Underway, Once, Asks, Undisturbed, Detection
    <3>5. CASE Answer(c)
      <4>1. Outcome(c) \in Results
        BY OutcomeType
      <4>2. Outcome(c) \in { "Started", "Paused", "Taken" } =>
              acts[c] > 0 /\ Outcome(c) = Success[request[c]]
        BY <3>5 DEF TypeOK, Outcome, Underway, Once, Detection
      <4>3. Outcome(c) \in Detection /\ request[c] = "status" => Outcome(c) = wire[c]
        BY DEF Outcome, Underway, Once, Detection
      <4> QED  BY <3>5, <4>1, <4>2, <4>3, ReturnUnderway DEF Answer, Answered, Detection
    <3>6. CASE SendAgain(c)
      <4>1. acts[c] <= resends'[c]
        BY <3>6, ResendsAssumption DEF TypeOK, SendAgain, Underway, Once, atMotion
      <4>2. ASSUME NEW o \in Clients, o # c
            PROVE  Once(o)' /\ Asks(o)' /\ (~meddled'[o] => Undisturbed(o)')
        BY <3>6, <4>2 DEF TypeOK, SendAgain, atMotion, Underway, Once, Asks, Undisturbed
      <4>3. Once(c)'
        BY <3>6, <4>1, ResendsAssumption
        DEF TypeOK, SendAgain, atMotion, Underway, Once, Detection
      <4>4. Asks(c)' /\ (~meddled'[c] => Undisturbed(c)')
        BY <3>6 DEF TypeOK, SendAgain, atMotion, Underway, Asks, Undisturbed, Detection
      <4> QED  BY <4>2, <4>3, <4>4 DEF Underway
    <3>7. CASE AnswerLost(c)
      BY <3>7, <3>0, ReturnUnderway DEF AnswerLost, Answered, Detection
    <3> QED  BY <2>2, <3>1, <3>2, <3>3, <3>4, <3>5, <3>6, <3>7 DEF Step
  <2>3. ASSUME NEW k \in Cameras, Elsewhere(k)
        PROVE  Underway'
    <3>1. ASSUME NEW o \in Clients, ~meddled'[o]
          PROVE  ~meddled[o] /\ detection'[camera[o]] = detection[camera[o]]
      <4> PICK d \in Detection : SetDetection(k, d, {})
        BY <2>3 DEF Elsewhere
      <4>1. meddled'[o] <=> meddled[o] \/ (camera[o] = k /\ detection[k] # d)
        BY DEF SetDetection
      <4>2. camera[o] = k => detection[k] = d
        BY <3>1, <4>1
      <4> QED  BY <3>1, <4>1, <4>2 DEF TypeOK, SetDetection
    <3> QED  BY <2>3, <3>1 DEF Elsewhere, Underway, Once, Asks, Undisturbed
  <2>4. CASE Killed
    BY <2>4 DEF TypeOK, Killed, atMotion, Underway, Once, Asks, Undisturbed, Detection
  <2>5. CASE UNCHANGED cameraVars
    BY <2>5 DEF cameraVars, Underway, Once, Asks, Undisturbed
  <2> QED  BY <2>1, <2>2, <2>3, <2>4, <2>5 DEF Next
<1> QED  BY <1>1, <1>2, TypeCorrect, PTL DEF Spec

-----------------------------------------------------------------------------
\* Motion carries a command out once, but for what the library sends again;
THEOREM ActsOnceHolds == Spec => []ActsOnce
<1>1. Underway => ActsOnce
  BY DEF Underway, Once, ActsOnce
<1> QED  BY <1>1, UnderwayHolds, PTL

\* what a call reports as done was done;
THEOREM ReportedHolds == Spec => []Reported
<1>1. Underway => Reported
  BY DEF Underway, Once, Reported
<1> QED  BY <1>1, UnderwayHolds, PTL

\* and a toggle that knew the state it toggled did toggle it.
THEOREM ToggleFlipsHolds == Spec => []ToggleFlips
<1>1. TypeOK /\ Underway => ToggleFlips
  <2> SUFFICES ASSUME TypeOK, Underway, NEW c \in Clients, ~meddled[c],
                      status[c] \in Detection, result[c] \in { "Started", "Paused" }
               PROVE  detection[camera[c]] # before[c]
    BY DEF ToggleFlips
  <2>1. acts[c] > 0 /\ request[c] = Command(status[c]) /\ status[c] = before[c]
    BY DEF Underway, Once, Undisturbed
  <2>2. CASE status[c] = "ACTIVE"
    BY <2>1, <2>2 DEF Command, Underway, Undisturbed
  <2>3. CASE status[c] = "PAUSED"
    BY <2>1, <2>3 DEF Command, Underway, Undisturbed
  <2> QED  BY <2>2, <2>3 DEF Detection
<1> QED  BY <1>1, UnderwayHolds, TypeCorrect, PTL

-----------------------------------------------------------------------------
(* MotionCamera keeps the promises of RemoteCamera                         *)

\* The step of one client changes only its own part of that state.
LEMMA OthersSame ==
  ASSUME NEW c \in Clients, NEW t, NEW d, Told(c)' = t, Done(c)' = d,
         \A o \in Clients \ { c } :
           /\ method'[o] = method[o] /\ request'[o] = request[o] /\ wire'[o] = wire[o]
           /\ status'[o] = status[o] /\ acts'[o] = acts[o]
  PROVE  /\ told' = [told EXCEPT ![c] = t]
         /\ done' = [done EXCEPT ![c] = d]
<1>1. ASSUME NEW o \in Clients \ { c }
      PROVE  Told(o)' = Told(o) /\ Done(o)' = Done(o)
  BY <1>1 DEF Told, Done
<1> QED  BY <1>1 DEF told, done

\* A call past its status asks for the command that follows from what it was told.
LEMMA AsksWhatItWasTold ==
  ASSUME TypeOK, Underway, NEW c \in Clients, method[c] # "none", request[c] # "status"
  PROVE  /\ Remote!Asked(c) = request[c]
         /\ method[c] \notin { "none", "getStatus" }
<1> USE DEF Remote!Asked, Remote!FirstRequest, Remote!Command
<1>1. Asks(c)
  BY DEF Underway
<1>2. CASE method[c] = "toggleDetection"
  <2>1. status[c] # "none" /\ request[c] = Command(status[c])
    BY <1>1, <1>2 DEF Asks, FirstRequest
  <2>2. told[c] = IF status[c] \in Detection THEN status[c] ELSE "nothing"
    BY <1>2 DEF Told, told
  <2> QED  BY <1>2, <2>1, <2>2 DEF Command, Detection
<1>3. CASE method[c] # "toggleDetection"
  <2>1. request[c] = FirstRequest[method[c]]
    BY <1>1, <1>3 DEF Asks
  <2> QED  BY <1>3, <2>1 DEF FirstRequest
<1> QED  BY <1>2, <1>3

\* A request that returns is either a status that toggleDetection keeps, which
\* RemoteCamera has seen already or never will, or the end of the call.
LEMMA ReturnRefines ==
  ASSUME TypeOK, Underway, NEW c \in Clients, NEW s \in Results,
         wire[c] # "none", Return(c, s), UNCHANGED << resends, atMotion >>,
         s = "Failed" \/ (Answered(c) /\ s = Outcome(c))
  PROVE  [Remote!Next]_(Remote!remoteVars)
<1>1. CASE method[c] = "toggleDetection" /\ request[c] = "status"
  <2>1. Told(c)' \in { Told(c), "nothing" }
    BY <1>1
    DEF TypeOK, Return, Send, Told, Command, Results, Underway, Once, Answered, Outcome, Detection
  <2>2. Done(c) = FALSE /\ Done(c)' = FALSE
    BY <1>1 DEF TypeOK, Underway, Once, Return, Done, atMotion
  <2>3. told' = [told EXCEPT ![c] = Told(c)'] /\ done' = [done EXCEPT ![c] = Done(c)']
    BY <1>1, OthersSame DEF TypeOK, Return, Send, atMotion
  <2>4. done' = done
    BY <2>2, <2>3 DEF done
  <2>5. CASE Told(c)' = Told(c)
    BY <1>1, <2>3, <2>4, <2>5 DEF Return, atMotion, told, Remote!remoteVars
  <2>6. CASE Told(c)' = "nothing"
    <3>1. Remote!Look(c)
      BY <1>1, <2>2, <2>3, <2>4, <2>6 DEF Return, atMotion, done, Remote!Look
    <3> QED  BY <3>1 DEF Remote!Next, Remote!Step
  <2> QED  BY <2>1, <2>5, <2>6
<1>2. CASE ~(method[c] = "toggleDetection" /\ request[c] = "status")
  <2>1. /\ method' = [method EXCEPT ![c] = "none"] /\ result' = [result EXCEPT ![c] = s]
    BY <1>2 DEF Return
  <2>2. method'[c] = "none"
    BY <2>1 DEF TypeOK
  <2>3. Told(c)' = "nothing" /\ Done(c)' = FALSE
    <3>1. Told(c)' = "nothing"
      BY <2>2 DEF Told
    <3>2. Done(c)' = FALSE
      BY <2>2 DEF Done
    <3> QED  BY <3>1, <3>2
  <2>4. /\ told' = [told EXCEPT ![c] = "nothing"] /\ done' = [done EXCEPT ![c] = FALSE]
    BY <1>2, <2>1, <2>3, OthersSame DEF TypeOK, Return, atMotion
  <2>5. method[c] # "none"
    BY DEF TypeOK
  <2>6. s \in Remote!Reports(c)
    <3>1. CASE s = "Failed"
      BY <3>1 DEF Remote!Reports
    <3>2. CASE s # "Failed" /\ request[c] = "status"
      <4>1. s = wire[c] /\ wire[c] \in Detection
        BY <3>2 DEF TypeOK, Answered, Outcome
      <4>2. method[c] = "getStatus"
        BY <1>2, <2>5, <3>2
        DEF TypeOK, Underway, Asks, FirstRequest, Methods, Command
      <4>3. told[c] = s
        BY <3>2, <4>1, <4>2 DEF told, Told
      <4> QED  BY <4>1, <4>2, <4>3 DEF Remote!Reports, Detection
    <3>3. CASE s # "Failed" /\ request[c] # "status"
      <4>1. wire[c] = "acted" /\ s = Success[request[c]]
        BY <3>3 DEF TypeOK, Answered, Outcome, Underway, Once
      <4>2. done[c]
        BY <2>5, <4>1 DEF Underway, Once, done, Done
      <4>3. Remote!Asked(c) = request[c] /\ method[c] # "getStatus"
        BY <2>5, <3>3, AsksWhatItWasTold
      <4> QED  BY <4>1, <4>2, <4>3 DEF Remote!Reports, Remote!Success, Success
    <3> QED  BY <3>1, <3>2, <3>3
  <2>7. Remote!Return(c)
    BY <2>1, <2>4, <2>5, <2>6 DEF atMotion, Remote!Return
  <2> QED  BY <2>7 DEF Remote!Next, Remote!Step
<1> QED  BY <1>1, <1>2

\* Motion's steps are seen as the status that arrives, or the command's effect.
LEMMA ActsRefines ==
  ASSUME TypeOK, Underway, NEW c \in Clients, MotionActs(c)
  PROVE  [Remote!Next]_(Remote!remoteVars)
<1>1. /\ method[c] # "none" /\ wire[c] = "connecting"
      /\ UNCHANGED << camera, method, result >>
      /\ detection' = [detection EXCEPT ![camera[c]] = Effect(request[c], detection[camera[c]])]
  BY DEF TypeOK, MotionActs, SetDetection
<1>2. told' = [told EXCEPT ![c] = Told(c)'] /\ done' = [done EXCEPT ![c] = Done(c)']
  BY OthersSame DEF TypeOK, MotionActs
<1>3. CASE request[c] = "status"
  <2>1. detection' = detection
    BY <1>1, <1>3 DEF TypeOK, Effect
  <2>2. method[c] \in { "getStatus", "toggleDetection" }
    BY <1>1, <1>3 DEF TypeOK, Underway, Asks, FirstRequest, Methods, Command
  <2>3. Told(c)' = detection[camera[c]]
    <3>1. wire'[c] = detection[camera[c]] /\ wire'[c] \in Detection /\ request'[c] = "status"
      BY <1>3 DEF TypeOK, MotionActs
    <3> QED  BY <1>1, <2>2, <3>1 DEF Told
  <2>4. Done(c) = FALSE /\ Done(c)' = FALSE
    BY <1>3 DEF TypeOK, Underway, Once, MotionActs, Done, Commands
  <2>5. done' = done
    BY <1>2, <2>4 DEF done
  <2>6. Remote!Look(c)
    BY <1>1, <1>2, <2>1, <2>2, <2>3, <2>4, <2>5 DEF Remote!Look, done
  <2> QED  BY <2>6 DEF Remote!Next, Remote!Step
<1>4. CASE request[c] # "status"
  <2>1. Remote!Asked(c) = request[c] /\ method[c] \notin { "none", "getStatus" }
    BY <1>1, <1>4, AsksWhatItWasTold
  <2>2. Told(c)' = Told(c)
    BY <1>4 DEF MotionActs, Told
  <2>3. Done(c)' = TRUE
    BY <1>1, <1>4 DEF TypeOK, MotionActs, Done, Commands
  <2>4. told' = told
    BY <1>2, <2>2 DEF told
  <2>5. Remote!Effect(request[c], detection[camera[c]]) = Effect(request[c], detection[camera[c]])
    BY DEF Remote!Effect, Effect
  <2>6. Remote!Act(c)
    BY <1>1, <1>2, <2>1, <2>3, <2>4, <2>5 DEF Remote!Act
  <2> QED  BY <2>6 DEF Remote!Next, Remote!Step
<1> QED  BY <1>3, <1>4

\* MotionCamera keeps the promises of RemoteCamera: a status it returns was the
\* camera's during the call, success is reported of what was done, and all
\* commands of a call are the one its method and the status it was told ask for.
THEOREM RefinesRemote == Spec => ImplementsRemote
<1>1. Init => Remote!Init
  <2> SUFFICES ASSUME Init  PROVE Remote!Init
    OBVIOUS
  <2>1. told = [c \in Clients |-> "nothing"]
    BY DEF Init, told, Told
  <2>2. done = [c \in Clients |-> FALSE]
    BY DEF Init, done, Done
  <2> QED  BY <2>1, <2>2 DEF Init, Remote!Init, Remote!Detection, Detection
<1>2. TypeOK /\ TypeOK' /\ Underway /\ [Next]_cameraVars => [Remote!Next]_(Remote!remoteVars)
  <2> SUFFICES ASSUME TypeOK, TypeOK', Underway, [Next]_cameraVars
               PROVE  [Remote!Next]_(Remote!remoteVars)
    OBVIOUS
  <2>1. ASSUME NEW c \in Clients, NEW k \in Cameras, NEW m \in Methods, Call(c, k, m)
        PROVE  Remote!Call(c, k, m)
    <3>1. method[c] = "none" /\ method'[c] = m /\ wire'[c] = "connecting"
          /\ status'[c] = "none" /\ acts'[c] = 0
      BY <2>1 DEF TypeOK, Call, Send
    <3>2. Told(c) = "nothing" /\ Told(c)' = "nothing"
      BY <3>1 DEF Told, Detection
    <3>3. Done(c) = FALSE /\ Done(c)' = FALSE
      BY <3>1 DEF Done
    <3>4. told' = [told EXCEPT ![c] = Told(c)'] /\ done' = [done EXCEPT ![c] = Done(c)']
      BY <2>1, OthersSame DEF TypeOK, Call, Send
    <3>5. told' = told /\ done' = done
      BY <3>2, <3>3, <3>4 DEF told, done
    <3> QED  BY <2>1, <3>5 DEF Call, Remote!Call
  <2>2. ASSUME NEW c \in Clients, Step(c)
        PROVE  [Remote!Next]_(Remote!remoteVars)
    <3>0. "Failed" \in Results
      BY DEF Results
    <3>1. ASSUME UNCHANGED << method, request, status, result, atMotion >>,
                 wire' = [wire EXCEPT ![c] = wire'[c]], Told(c)' \in { Told(c), "nothing" },
                 Done(c) => Told(c)' = Told(c)
          PROVE  [Remote!Next]_(Remote!remoteVars)
      <4>1. Done(c)' = Done(c)
        BY <3>1 DEF Done, atMotion
      <4>2. told' = [told EXCEPT ![c] = Told(c)'] /\ done' = [done EXCEPT ![c] = Done(c)']
        BY <3>1, OthersSame DEF TypeOK, atMotion
      <4>3. done' = done
        BY <4>1, <4>2 DEF done
      <4>4. CASE Told(c)' = Told(c)
        BY <3>1, <4>2, <4>3, <4>4 DEF atMotion, told, Remote!remoteVars
      <4>5. CASE Told(c)' # Told(c)
        <5>1. method[c] \in { "getStatus", "toggleDetection" }
          BY <3>1, <4>5 DEF Told
        <5>2. done[c] = FALSE
          BY <3>1, <4>5 DEF done, Done
        <5>3. told' = [told EXCEPT ![c] = "nothing"]
          BY <3>1, <4>2, <4>5
        <5>4. Remote!Look(c)
          BY <3>1, <4>3, <5>1, <5>2, <5>3 DEF Remote!Look, atMotion
        <5> QED  BY <5>4 DEF Remote!Next, Remote!Step
      <4> QED  BY <4>4, <4>5
    <3>2. CASE ConnectionRefused(c)
      <4>1. CASE Return(c, "Failed")
        BY <3>2, <4>1, <3>0, ReturnRefines DEF ConnectionRefused
      <4>2. CASE ~Return(c, "Failed")
        BY <3>1, <3>2, <4>2 DEF ConnectionRefused, Told, TypeOK
      <4> QED  BY <4>1, <4>2
    <3>3. CASE ConnectionFails(c)
      BY <3>3, <3>0, ReturnRefines DEF ConnectionFails
    <3>4. CASE MotionActs(c)
      BY <3>4, ActsRefines
    <3>5. CASE MotionDeclines(c)
      BY <3>1, <3>5 DEF MotionDeclines, Told, TypeOK, Detection
    <3>6. CASE Answer(c)
      BY <3>6, OutcomeType, ReturnRefines DEF Answer, Answered, Detection
    <3>7. CASE SendAgain(c)
      <4>1. Done(c) => request[c] # "status"
        BY DEF Underway, Once, Done
      <4>2. Told(c)' \in { Told(c), "nothing" } /\ (request[c] # "status" => Told(c)' = Told(c))
        BY <3>7 DEF SendAgain, Told, TypeOK, Detection
      <4> QED  BY <3>1, <3>7, <4>1, <4>2 DEF SendAgain, TypeOK
    <3>8. CASE AnswerLost(c)
      BY <3>8, <3>0, ReturnRefines DEF AnswerLost, Answered, Detection
    <3> QED  BY <2>2, <3>2, <3>3, <3>4, <3>5, <3>6, <3>7, <3>8 DEF Step
  <2>3. ASSUME NEW k \in Cameras, Elsewhere(k)
        PROVE  Remote!Elsewhere(k)
    <3>1. told' = told /\ done' = done
      BY <2>3 DEF Elsewhere, told, done, Told, Done
    <3> QED  BY <2>3, <3>1 DEF Elsewhere, SetDetection, Remote!Elsewhere, Remote!Detection, Detection
  <2>4. CASE Killed
    <3>1. told' = [c \in Clients |-> "nothing"]
      BY <2>4 DEF Killed, told, Told
    <3>2. done' = [c \in Clients |-> FALSE]
      BY <2>4 DEF Killed, done, Done
    <3>3. Remote!Killed
      BY <2>4, <3>1, <3>2 DEF Killed, atMotion, Remote!Killed
    <3> QED  BY <3>3 DEF Remote!Next
  <2>5. CASE UNCHANGED cameraVars
    <3>1. told' = told /\ done' = done
      BY <2>5 DEF cameraVars, told, done, Told, Done
    <3> QED  BY <2>5, <3>1 DEF cameraVars, Remote!remoteVars
  <2>6. Methods = Remote!Methods
    BY DEF Methods, FirstRequest, Remote!Methods, Remote!FirstRequest
  <2> QED  BY <2>1, <2>2, <2>3, <2>4, <2>5, <2>6 DEF Next, Remote!Next
<1> QED  BY <1>1, <1>2, TypeCorrect, UnderwayHolds, PTL DEF Spec, ImplementsRemote, Remote!Spec

=============================================================================
