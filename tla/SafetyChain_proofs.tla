------------------------ MODULE SafetyChain_proofs ------------------------
(***************************************************************************)
(* Proofs about SafetyChain: the time-outs add up as the run says, for any *)
(* number of streams and for all values of the time-outs and of the delay; *)
(* and about the arithmetic of TrackMotion, for all speeds and limits.     *)
(***************************************************************************)
EXTENDS SafetyChain, TrackMotion, TLAPS

(* What the controller follows now it follows since now.                   *)
FollowedNow == \A s \in Sources : Target = s => since[s] = 0

(* A command is no older than the permission it was sent with, on its way, *)
(* at the guard, and at the wheels.                                        *)
CommandsAreRecent ==
    \A s \in Sources :
        /\ wire.source = s => since[s] <= wire.age
        /\ command.source = s /\ command.age <= GuardTimeout => since[s] <= MaxDelay + command.age
        /\ drive = s => since[s] <= MaxDelay + GuardTimeout + idle

(* Sensors that count as ready were heard before the summary was.          *)
ReadyMeansHeard ==
    Current("sensors") => \A s \in Streams : streamAge[s] <= StaleAfter + age["sensors"]

(* Streams have aged no more than navigation's permission has.             *)
PermittedMeansHeard ==
    since["navigation"] <= Latency =>
        \A s \in Streams :
            streamAge[s] <= StaleAfter + Timeout["sensors"] + since["navigation"]

(* How far the stop is cleared shows in the latch and in the enable flag.  *)
HoldShows ==
    /\ hold = "stopped" => latched /\ ~enabled
    /\ hold = "reset" => ~enabled

ChainInv ==
    /\ TypeOK
    /\ FollowedNow
    /\ CommandsAreRecent
    /\ ReadyMeansHeard
    /\ PermittedMeansHeard
    /\ HoldShows

Assumptions == MonitorAssumption /\ TimeoutAssumption /\ GuardAssumption

(* Every age is a number of units.                                         *)
LEMMA ConstantTypes ==
    /\ StaleAfter \in Nat /\ MaxAge \in Nat
    /\ GuardTimeout \in Nat /\ GuardPeriod \in Nat \ {0} /\ MaxDelay \in Nat
    /\ Latency \in Nat /\ Latency = MaxDelay + GuardTimeout + GuardPeriod
    /\ \A i \in Inputs : Timeout[i] \in Nat
BY MonitorAssumption, TimeoutAssumption, GuardAssumption DEF Latency

(* A count that ends at its limit never passes it.                         *)
LEMMA OlderType ==
    ASSUME NEW limit \in Nat, NEW n \in 0..limit
    PROVE  /\ Older(n, limit) \in 0..limit
           /\ Older(n, limit) <= n + 1
           /\ Older(n, limit) < limit => Older(n, limit) = n + 1
BY DEF Older

(* The controller follows navigation only while its sensors count.         *)
LEMMA NavigationNeedsSensors == Target = "navigation" => Current("sensors")
BY DEF Target, Inputs

(* An emergency stop, or motion that is off, is a target of its own.       *)
LEMMA StoppedTarget == Stopped => Target = "stop"
BY DEF Target

(* The ages of the inputs, however the controller is told of one.          *)
LEMMA HearType ==
    ASSUME ControllerTypeOK, NEW i \in Inputs, NEW good \in BOOLEAN, Hear(i, good)
    PROVE  /\ ControllerTypeOK'
           /\ good => age'[i] = 0
           /\ Current(i)' => good
           /\ \A j \in Inputs \ {i} : age'[j] = age[j]
<1> USE ConstantTypes
<1>1. \A j \in Inputs : age'[j] = IF j = i THEN (IF good THEN 0 ELSE Timeout[i] + 1) ELSE age[j]
  BY DEF Hear, Worthless, ControllerTypeOK
<1>2. age' \in [Inputs -> Nat]
  BY <1>1 DEF Hear, Worthless, ControllerTypeOK
<1>3. \A j \in Inputs : age'[j] <= Timeout[j] + 1
  BY <1>1 DEF ControllerTypeOK
<1> QED
  BY <1>1, <1>2, <1>3 DEF Hear, Current, ControllerTypeOK

(* A unit of time for the inputs: what is not current does not become so.  *)
LEMMA AgesType ==
    ASSUME ControllerTypeOK, ControllerAges, UNCHANGED <<physical, latched, enabled>>
    PROVE  /\ ControllerTypeOK'
           /\ \A i \in Inputs : Current(i)' => Current(i) /\ age'[i] = age[i] + 1
<1> USE ConstantTypes
<1>1. \A i \in Inputs : age'[i] = IF age[i] <= Timeout[i] THEN age[i] + 1 ELSE age[i]
  BY DEF ControllerAges, Current
<1>2. \A i \in Inputs : age[i] \in Nat /\ age[i] <= Timeout[i] + 1
  BY DEF ControllerTypeOK
<1>3. age' \in [Inputs -> Nat]
  BY <1>1, <1>2 DEF ControllerAges, Current
<1>4. \A i \in Inputs : age'[i] <= Timeout[i] + 1
  BY <1>1, <1>2
<1> QED
  BY <1>1, <1>2, <1>3, <1>4 DEF Current, ControllerTypeOK

-----------------------------------------------------------------------------
(* The initial states.                                                     *)
LEMMA ChainInit == Init => ChainInv
<1> SUFFICES ASSUME Init PROVE ChainInv
  OBVIOUS
<1> USE ConstantTypes
<1>1. TypeOK
  <2>1. MonitorTypeOK
    BY DEF Init, MonitorInit, MonitorTypeOK
  <2>2. ControllerTypeOK
    <3>1. \A i \in Inputs : age[i] = Timeout[i] + 1
      BY DEF Init, ControllerInit, Worthless
    <3>2. age \in [Inputs -> Nat]
      BY DEF Init, ControllerInit, Worthless
    <3>3. \A i \in Inputs : age[i] <= Timeout[i] + 1
      BY <3>1
    <3>4. physical \in BOOLEAN /\ latched \in BOOLEAN /\ enabled \in BOOLEAN
      BY DEF Init, ControllerInit
    <3>5. QED
      BY <3>2, <3>3, <3>4 DEF ControllerTypeOK
  <2>3. GuardTypeOK(Commands)
    BY DEF Init, GuardInit, GuardTypeOK, Commands
  <2>4. QED
    BY <2>1, <2>2, <2>3 DEF Init, TypeOK, Holds
<1>2. Target = "stop"
  BY StoppedTarget DEF Init, ControllerInit, Stopped
<1>3. ~Current("sensors")
  BY DEF Init, ControllerInit, Current, Worthless, Inputs
<1> QED
  BY <1>1, <1>2, <1>3 DEF Init, GuardInit, NoCommand, ChainInv, FollowedNow, CommandsAreRecent,
     ReadyMeansHeard, PermittedMeansHeard, HoldShows, Sources

(* The controller's permission, when a step gives it anew.                 *)
LEMMA PermitKeeps ==
    ASSUME NEW past \in [Sources -> 0..Latency + 1], Permit(past)
    PROVE  /\ since' \in [Sources -> 0..Latency + 1]
           /\ FollowedNow'
           /\ \A s \in Sources : since'[s] <= past[s]
           /\ \/ since'["navigation"] = past["navigation"]
              \/ since'["navigation"] = 0 /\ Current("sensors")'
<1> USE ConstantTypes
<1>1. Target' = "navigation" => Current("sensors")'
  BY DEF Target, Inputs
<1>2. \A s \in Sources : since'[s] = IF s = Target' THEN 0 ELSE past[s]
  BY DEF Permit
<1>3. since' \in [Sources -> 0..Latency + 1]
  BY <1>2 DEF Permit
<1>4. \A s \in Sources : past[s] \in 0..Latency + 1
  OBVIOUS
<1>5. "navigation" \in Sources
  BY DEF Sources
<1> QED
  BY <1>1, <1>2, <1>3, <1>4, <1>5 DEF FollowedNow

-----------------------------------------------------------------------------
(* What a step of the controller leaves of the invariant, when it keeps    *)
(* the types, does not make the sensors' word younger than the sensors,    *)
(* and does not touch the stop.                                            *)
LEMMA ControllerStepKeeps ==
    ASSUME ChainInv, ControllerStep, UNCHANGED monitorVars,
           ControllerTypeOK', ReadyMeansHeard', HoldShows', hold' \in Holds
    PROVE  ChainInv'
<1> USE ConstantTypes
<1>1. since \in [Sources -> 0..Latency + 1] /\ Permit(since) /\ UNCHANGED guardVars
  BY DEF ControllerStep, ChainInv, TypeOK
<1>2. /\ since' \in [Sources -> 0..Latency + 1]
      /\ FollowedNow'
      /\ \A s \in Sources : since'[s] <= since[s]
      /\ \/ since'["navigation"] = since["navigation"]
         \/ since'["navigation"] = 0 /\ Current("sensors")'
  BY <1>1, PermitKeeps
<1>3. TypeOK'
  BY <1>1, <1>2 DEF ChainInv, TypeOK, guardVars, monitorVars, GuardTypeOK, MonitorTypeOK
<1>4. \A s \in Sources : since[s] \in 0..Latency + 1 /\ since'[s] \in 0..Latency + 1
  BY <1>1, <1>2
<1>5. CommandsAreRecent'
  <2>1. TypeOK /\ CommandsAreRecent
    BY DEF ChainInv
  <2>2. wire.age \in Nat /\ command.age \in Nat /\ idle \in Nat
    BY <2>1 DEF TypeOK, GuardTypeOK, NoCommand
  <2>3. QED
    BY <1>1, <1>2, <1>4, <2>1, <2>2 DEF CommandsAreRecent, guardVars
<1>6. PermittedMeansHeard'
  <2>1. "sensors" \in Inputs /\ "navigation" \in Sources
    BY DEF Inputs, Sources
  <2>2. \A s \in Streams : streamAge'[s] = streamAge[s] /\ streamAge[s] \in Nat
    BY DEF monitorVars, ChainInv, TypeOK, MonitorTypeOK
  <2>3. CASE since'["navigation"] = since["navigation"]
    BY <2>2, <2>3 DEF ChainInv, PermittedMeansHeard
  <2>4. CASE since'["navigation"] = 0 /\ Current("sensors")'
    <3>1. age'["sensors"] \in Nat /\ age'["sensors"] <= Timeout["sensors"]
      BY <2>1, <2>4 DEF ControllerTypeOK, Current
    <3>2. \A s \in Streams : streamAge'[s] <= StaleAfter + age'["sensors"]
      BY <2>4 DEF ReadyMeansHeard
    <3>3. QED
      BY <2>1, <2>2, <2>4, <3>1, <3>2 DEF PermittedMeansHeard
  <2>5. QED
    BY <1>2, <2>3, <2>4
<1> QED
  BY <1>2, <1>3, <1>5, <1>6 DEF ChainInv

LEMMA ChainStep == ChainInv /\ [Next]_vars => ChainInv'
<1> SUFFICES ASSUME ChainInv, [Next]_vars PROVE ChainInv'
  OBVIOUS
<1> USE ConstantTypes
<1>types. TypeOK /\ MonitorTypeOK /\ ControllerTypeOK /\ GuardTypeOK(Commands)
  BY DEF ChainInv, TypeOK
<1>inputs. "sensors" \in Inputs /\ "navigation" \in Sources /\ Sources \subseteq Inputs
           /\ "localization" \in Inputs
  BY DEF Inputs, Sources
<1>ages. /\ \A s \in Streams : streamAge[s] \in 0..MaxAge
         /\ age["sensors"] \in Nat
         /\ \A s \in Sources : since[s] \in 0..Latency + 1
         /\ command.age \in Nat /\ idle \in Nat
         /\ wire.age \in Nat
  BY <1>types, <1>inputs DEF MonitorTypeOK, ControllerTypeOK, GuardTypeOK, TypeOK, NoCommand
<1>1. CASE Sense
  <2>1. PICK s \in Streams, rolledBack \in BOOLEAN : Observe(s, rolledBack)
    BY <1>1 DEF Sense
  <2>2. \A r \in Streams : streamAge'[r] = IF r = s THEN 0 ELSE streamAge[r]
    BY <2>1, <1>types DEF Observe, MonitorTypeOK
  <2>3. MonitorTypeOK'
    BY <2>1, <1>types DEF Observe, MonitorTypeOK
  <2>4. UNCHANGED <<physical, latched, enabled, age, wire, command, drive, idle, since, hold>>
    BY <1>1 DEF Sense, controllerVars, guardVars
  <2>5. Target' = Target /\ (Current("sensors")' <=> Current("sensors"))
    BY <2>4 DEF Target, Stopped, Current
  <2>6. TypeOK' /\ FollowedNow' /\ CommandsAreRecent' /\ HoldShows'
    BY <2>3, <2>4, <2>5 DEF ChainInv, TypeOK, ControllerTypeOK, GuardTypeOK, FollowedNow,
       CommandsAreRecent, HoldShows
  <2>7. ReadyMeansHeard' /\ PermittedMeansHeard'
    BY <2>2, <2>4, <2>5, <1>ages, <1>inputs DEF ChainInv, ReadyMeansHeard, PermittedMeansHeard
  <2>8. QED
    BY <2>6, <2>7 DEF ChainInv
<1>2. CASE PublishDiagnostics
  <2>1. PICK ready \in Summaries : Hear("sensors", ready)
    BY <1>2 DEF PublishDiagnostics, SensorDiagnosticsCallback
  <2>2. /\ ready \in BOOLEAN
        /\ ready => \A s \in Streams : streamAge[s] <= StaleAfter
    BY <2>1 DEF Summaries
  <2>3. ControllerTypeOK' /\ (ready => age'["sensors"] = 0) /\ (Current("sensors")' => ready)
    BY <2>1, <2>2, <1>types, <1>inputs, HearType
  <2>4. ControllerStep /\ UNCHANGED <<streamAge, monotonic, latched, enabled, hold>>
    BY <2>1, <1>2 DEF PublishDiagnostics, monitorVars, Hear
  <2>5. ReadyMeansHeard'
    BY <2>2, <2>3, <2>4 DEF ReadyMeansHeard
  <2>6. HoldShows' /\ hold' \in Holds
    BY <2>4, <1>types DEF ChainInv, HoldShows, TypeOK
  <2>7. QED
    BY <2>3, <2>4, <2>5, <2>6, ControllerStepKeeps DEF monitorVars
<1>3. CASE HearCommand \/ HearLocalization
  <2>1. PICK i \in Inputs \ {"sensors"}, good \in BOOLEAN : Hear(i, good)
    BY <1>3, <1>inputs DEF HearCommand, HearLocalization, CommandCallback, LocalizationCallback, Sources
  <2>2. ControllerTypeOK' /\ age'["sensors"] = age["sensors"]
    BY <2>1, <1>types, <1>inputs, HearType
  <2>3. ControllerStep /\ UNCHANGED <<streamAge, monotonic, latched, enabled, hold>>
    BY <2>1, <1>3 DEF HearCommand, HearLocalization, monitorVars, Hear
  <2>4. ReadyMeansHeard' /\ HoldShows' /\ hold' \in Holds
    BY <2>2, <2>3, <1>types DEF ChainInv, ReadyMeansHeard, HoldShows, TypeOK, Current
  <2>5. QED
    BY <2>2, <2>3, <2>4, ControllerStepKeeps DEF monitorVars
<1>4. CASE EmergencyStop \/ Reset \/ Enable
  <2>1. age' = age /\ ControllerStep /\ UNCHANGED <<streamAge, monotonic>>
    BY <1>4 DEF EmergencyStop, Reset, Enable, EstopCallback, ResetEstop, SetMotionEnabled, monitorVars
  <2>2. ControllerTypeOK'
    BY <1>4, <1>types DEF EmergencyStop, Reset, Enable, EstopCallback, ResetEstop, ResetSucceeds,
       SetMotionEnabled, EnableSucceeds, ControllerTypeOK
  <2>3. ReadyMeansHeard'
    BY <2>1 DEF ChainInv, ReadyMeansHeard, Current
  <2>4. HoldShows /\ hold \in Holds
    BY <1>types DEF ChainInv, TypeOK
  <2>5. HoldShows' /\ hold' \in Holds
    <3>1. CASE EmergencyStop
      BY <3>1, <2>4, <1>types DEF EmergencyStop, EstopCallback, ControllerTypeOK, HoldShows, Holds
    <3>2. CASE Reset
      BY <3>2, <2>4, <1>types DEF Reset, ResetEstop, ResetSucceeds, ControllerTypeOK, HoldShows, Holds
    <3>3. CASE Enable
      BY <3>3, <2>4, <1>types DEF Enable, SetMotionEnabled, EnableSucceeds, ControllerTypeOK, HoldShows, Holds
    <3>4. QED
      BY <1>4, <3>1, <3>2, <3>3
  <2>6. QED
    BY <2>1, <2>2, <2>3, <2>5, ControllerStepKeeps DEF monitorVars
<1>5. CASE Tick
  <2>1. /\ wire' = [source |-> Target, age |-> 0]
        /\ UNCHANGED <<command, drive, idle, streamAge, monotonic, physical, latched, enabled, age, since, hold>>
    BY <1>5 DEF Tick, Send, monitorVars, controllerVars
  <2>2. Target \in Commands /\ 0 \in 0..MaxDelay
    BY DEF Target, Commands, Sources
  <2>3. GuardTypeOK(Commands)'
    BY <2>1, <2>2, <1>types DEF GuardTypeOK
  <2>4. Target' = Target /\ (Current("sensors")' <=> Current("sensors"))
    BY <2>1 DEF Target, Stopped, Current
  <2>5. TypeOK' /\ FollowedNow' /\ HoldShows' /\ ReadyMeansHeard' /\ PermittedMeansHeard'
    BY <2>1, <2>3, <2>4 DEF ChainInv, TypeOK, ControllerTypeOK, MonitorTypeOK, FollowedNow,
       HoldShows, ReadyMeansHeard, PermittedMeansHeard
  <2>6. CommandsAreRecent'
    <3>1. CommandsAreRecent /\ FollowedNow
      BY DEF ChainInv
    <3>2. wire'.source = Target /\ wire'.age = 0
      BY <2>1
    <3>3. QED
      BY <2>1, <3>1, <3>2 DEF CommandsAreRecent, FollowedNow
  <2>7. QED
    BY <2>5, <2>6 DEF ChainInv
<1>6. CASE Guard
  <2>1. /\ Lose \/ GuardCallback \/ GuardTick
        /\ UNCHANGED <<streamAge, monotonic, physical, latched, enabled, age, since, hold>>
    BY <1>6 DEF Guard, monitorVars, controllerVars
  <2>2. Target' = Target /\ (Current("sensors")' <=> Current("sensors"))
    BY <2>1 DEF Target, Stopped, Current
  <2>3. FollowedNow' /\ HoldShows' /\ ReadyMeansHeard' /\ PermittedMeansHeard'
    BY <2>1, <2>2 DEF ChainInv, FollowedNow, HoldShows, ReadyMeansHeard, PermittedMeansHeard
  <2>4. CommandsAreRecent
    BY DEF ChainInv
  <2>5. GuardTypeOK(Commands)' /\ CommandsAreRecent'
    <3>1. CASE Lose
      <4>1. wire' = NoCommand /\ UNCHANGED <<command, drive, idle>>
        BY <3>1 DEF Lose
      <4>2. wire'.source \notin Sources
        BY <4>1 DEF NoCommand, Sources
      <4>3. QED
        BY <4>1, <4>2, <2>1, <2>4, <1>types DEF GuardTypeOK, CommandsAreRecent
    <3>2. CASE GuardCallback
      <4>1. /\ wire \in [source : Commands, age : 0..MaxDelay]
            /\ command' = [source |-> wire.source, age |-> 0]
            /\ wire' = NoCommand /\ UNCHANGED <<drive, idle>>
        BY <3>2, <1>types DEF GuardCallback, GuardTypeOK
      <4>2. wire'.source \notin Sources
        BY <4>1 DEF NoCommand, Sources
      <4>3. command' \in [source : Commands, age : 0..GuardTimeout + 1]
        BY <4>1
      <4>4. command'.source = wire.source /\ command'.age = 0 /\ wire.age <= MaxDelay
        BY <4>1
      <4>5. GuardTypeOK(Commands)'
        BY <4>1, <4>3, <1>types DEF GuardTypeOK
      <4>6. CommandsAreRecent'
        BY <4>1, <4>2, <4>4, <2>1, <2>4, <1>ages DEF CommandsAreRecent
      <4>7. QED
        BY <4>5, <4>6
    <3>3. CASE GuardTick
      <4>1. /\ drive' = IF command.age <= GuardTimeout THEN command.source ELSE "stop"
            /\ idle' = 0 /\ UNCHANGED <<wire, command>>
        BY <3>3 DEF GuardTick
      <4>2. drive' \in Commands
        BY <4>1, <1>types DEF GuardTypeOK, Commands
      <4>3. GuardTypeOK(Commands)'
        BY <4>1, <4>2, <1>types DEF GuardTypeOK
      <4>4. \A s \in Sources : s # "stop"
        BY DEF Sources
      <4>5. CommandsAreRecent'
        BY <4>1, <4>4, <2>1, <2>4, <1>ages DEF CommandsAreRecent
      <4>6. QED
        BY <4>3, <4>5
    <3>4. QED
      BY <2>1, <3>1, <3>2, <3>3
  <2>6. TypeOK'
    BY <2>1, <2>5 DEF ChainInv, TypeOK, ControllerTypeOK, MonitorTypeOK
  <2>7. QED
    BY <2>3, <2>5, <2>6 DEF ChainInv
<1>7. CASE Pass
  <2> DEFINE past == [s \in Sources |-> Older(since[s], Latency + 1)]
  <2>1. /\ MonitorAges /\ ControllerAges /\ GuardAges /\ Permit(past)
        /\ UNCHANGED <<monotonic, physical, latched, enabled, hold>>
    BY <1>7 DEF Pass
  <2>2. /\ ControllerTypeOK'
        /\ Current("sensors")' => Current("sensors") /\ age'["sensors"] = age["sensors"] + 1
    BY <2>1, <1>types, <1>inputs, AgesType
  <2>3. /\ MonitorTypeOK'
        /\ \A s \in Streams : streamAge'[s] \in 0..MaxAge /\ streamAge'[s] <= streamAge[s] + 1
    BY <2>1, <1>types, <1>ages, OlderType DEF MonitorAges, MonitorTypeOK
  <2>4. /\ past \in [Sources -> 0..Latency + 1]
        /\ \A s \in Sources :
              /\ past[s] \in 0..Latency + 1
              /\ past[s] <= since[s] + 1
              /\ past[s] <= Latency => past[s] = since[s] + 1
    <3>1. Latency + 1 \in Nat
      OBVIOUS
    <3>2. \A s \in Sources :
             /\ Older(since[s], Latency + 1) \in 0..Latency + 1
             /\ Older(since[s], Latency + 1) <= since[s] + 1
             /\ Older(since[s], Latency + 1) < Latency + 1 => Older(since[s], Latency + 1) = since[s] + 1
      BY <3>1, <1>ages, OlderType
    <3>3. QED
      BY <3>2
  <2> HIDE DEF past
  <2>5. /\ since' \in [Sources -> 0..Latency + 1]
        /\ FollowedNow'
        /\ \A s \in Sources : since'[s] <= past[s]
        /\ \/ since'["navigation"] = past["navigation"]
           \/ since'["navigation"] = 0 /\ Current("sensors")'
    BY <2>1, <2>4, PermitKeeps
  <2>6. \A s \in Sources : since'[s] \in 0..Latency + 1
    BY <2>5
  <2>7. ReadyMeansHeard'
    BY <2>2, <2>3, <1>ages DEF ChainInv, ReadyMeansHeard
  <2>8. PermittedMeansHeard'
    <3>1. CASE since'["navigation"] = past["navigation"]
      BY <3>1, <2>3, <2>4, <2>6, <1>ages, <1>inputs DEF ChainInv, PermittedMeansHeard
    <3>2. CASE since'["navigation"] = 0 /\ Current("sensors")'
      <4>1. age'["sensors"] \in Nat /\ age'["sensors"] <= Timeout["sensors"]
        BY <2>2, <3>2, <1>inputs DEF ControllerTypeOK, Current
      <4>2. QED
        BY <3>2, <4>1, <2>3, <2>7, <1>inputs DEF PermittedMeansHeard, ReadyMeansHeard
    <3>3. QED
      BY <2>5, <3>1, <3>2
  <2>9. GuardTypeOK(Commands)' /\ CommandsAreRecent'
    <3>1. /\ idle < GuardPeriod /\ idle' = idle + 1 /\ drive' = drive
          /\ wire # NoCommand => wire.age < MaxDelay
          /\ wire' = IF wire = NoCommand THEN wire ELSE [wire EXCEPT !.age = @ + 1]
          /\ command' = IF command.age <= GuardTimeout THEN [command EXCEPT !.age = @ + 1] ELSE command
      BY <2>1 DEF GuardAges
    <3>2. /\ wire' \in [source : Commands, age : 0..MaxDelay] \cup {NoCommand}
          /\ wire'.source = wire.source
          /\ wire.source \in Sources => wire'.age = wire.age + 1
      <4>1. CASE wire = NoCommand
        BY <4>1, <3>1, <1>types DEF GuardTypeOK, NoCommand, Sources
      <4>2. CASE wire # NoCommand
        <5>1. wire \in [source : Commands, age : 0..MaxDelay] /\ wire.age < MaxDelay
          BY <4>2, <3>1, <1>types DEF GuardTypeOK
        <5>2. wire' = [wire EXCEPT !.age = @ + 1]
          BY <4>2, <3>1
        <5>3. QED
          BY <5>1, <5>2
      <4>3. QED
        BY <4>1, <4>2
    <3>3. /\ command' \in [source : Commands, age : 0..GuardTimeout + 1]
          /\ command'.source = command.source
          /\ command'.age <= GuardTimeout => command.age <= GuardTimeout /\ command'.age = command.age + 1
      BY <3>1, <1>types DEF GuardTypeOK
    <3>4. GuardTypeOK(Commands)'
      BY <3>1, <3>2, <3>3, <1>types DEF GuardTypeOK
    <3>5. CommandsAreRecent
      BY DEF ChainInv
    <3>6. \A s \in Sources : since'[s] <= since[s] + 1
      BY <2>4, <2>5, <2>6, <1>ages
    <3>7. CommandsAreRecent'
      BY <3>1, <3>2, <3>3, <3>5, <3>6, <2>6, <1>ages DEF CommandsAreRecent
    <3>8. QED
      BY <3>4, <3>7
  <2>10. TypeOK' /\ HoldShows'
    BY <2>1, <2>2, <2>3, <2>5, <2>9, <1>types DEF ChainInv, TypeOK, HoldShows
  <2>11. QED
    BY <2>5, <2>7, <2>8, <2>9, <2>10 DEF ChainInv
<1>8. CASE UNCHANGED vars
  <2>1. UNCHANGED <<streamAge, monotonic, physical, latched, enabled, age, wire, command, drive, idle,
                    since, hold>>
    BY <1>8 DEF vars, monitorVars, controllerVars, guardVars
  <2>2. Target' = Target /\ (Current("sensors")' <=> Current("sensors"))
    BY <2>1 DEF Target, Stopped, Current
  <2>3. QED
    BY <2>1, <2>2 DEF ChainInv, TypeOK, MonitorTypeOK, ControllerTypeOK, GuardTypeOK, FollowedNow,
       CommandsAreRecent, ReadyMeansHeard, PermittedMeansHeard, HoldShows
<1> QED
  BY <1>1, <1>2, <1>3, <1>4, <1>5, <1>6, <1>7, <1>8 DEF Next

(* The invariant holds of every reachable state.                           *)
LEMMA ChainInvariant == Spec => []ChainInv
BY ChainInit, ChainStep, PTL DEF Spec

-----------------------------------------------------------------------------
(* Every age, command and flag keeps its type, whatever the time-outs.     *)
THEOREM ChainTypeCorrect == Spec => []TypeOK
<1>1. ChainInv => TypeOK
  BY DEF ChainInv
<1> QED
  BY <1>1, ChainInvariant, PTL

(* The wheels follow a source at most MaxDelay + GuardTimeout +            *)
(* GuardPeriod after the controller would have: tracked_safety_controller  *)
(* and chassis_command_guard together.                                     *)
THEOREM DriveIsPermitted == Spec => []DriveWasPermitted
<1>1. ChainInv => DriveWasPermitted
  <2> SUFFICES ASSUME ChainInv, NEW s \in Sources, drive = s PROVE since[s] <= Latency
    BY DEF DriveWasPermitted
  <2>1. since[s] \in Nat /\ idle \in 0..GuardPeriod
    BY DEF ChainInv, TypeOK, GuardTypeOK
  <2>2. since[s] <= MaxDelay + GuardTimeout + idle
    BY DEF ChainInv, CommandsAreRecent
  <2>3. QED
    BY <2>1, <2>2, ConstantTypes
<1> QED
  BY <1>1, ChainInvariant, PTL

(* Navigation drives only on streams that were alive at most the sum of    *)
(* all time-outs of monitor, controller and guard ago.                     *)
THEOREM NavigationIsSighted == Spec => []NavigationSees
<1>1. ChainInv => NavigationSees
  <2> SUFFICES ASSUME ChainInv, drive = "navigation", NEW s \in Streams
               PROVE  streamAge[s] <= StaleAfter + Timeout["sensors"] + Latency
    BY DEF NavigationSees
  <2>1. "navigation" \in Sources /\ "sensors" \in Inputs
    BY DEF Sources, Inputs
  <2>2. since["navigation"] \in Nat /\ idle \in 0..GuardPeriod /\ streamAge[s] \in Nat
    BY <2>1, ConstantTypes DEF ChainInv, TypeOK, GuardTypeOK, MonitorTypeOK
  <2>3. since["navigation"] <= MaxDelay + GuardTimeout + idle
    BY <2>1 DEF ChainInv, CommandsAreRecent
  <2>4. since["navigation"] <= Latency
    BY <2>2, <2>3, ConstantTypes
  <2>5. streamAge[s] <= StaleAfter + Timeout["sensors"] + since["navigation"]
    BY <2>4 DEF ChainInv, PermittedMeansHeard
  <2>6. QED
    BY <2>1, <2>2, <2>4, <2>5, ConstantTypes
<1> QED
  BY <1>1, ChainInvariant, PTL

(* After an emergency stop nothing is followed until the latch was reset   *)
(* and motion enabled again, in this order, however the two services and   *)
(* the emergency-stop topic interleave.                                    *)
THEOREM StopHolds == Spec => []EmergencyHolds
<1>1. ChainInv => EmergencyHolds
  BY StoppedTarget DEF ChainInv, TypeOK, Holds, HoldShows, EmergencyHolds, Stopped
<1> QED
  BY <1>1, ChainInvariant, PTL

-----------------------------------------------------------------------------
(* The arithmetic of the tracks, for all speeds, limits and rates.         *)

(* The faster track runs at the sum of the two magnitudes.                 *)
LEMMA TracksAddUp ==
    ASSUME NEW linear \in Int, NEW turn \in Int, NEW limit \in Nat
    PROVE  WithinTracks(linear, turn, limit) <=> Magnitude(linear) + Magnitude(turn) <= limit
BY DEF WithinTracks, Magnitude

(* One tick of one axis: it goes up by no more than it may, on the way to  *)
(* a greater target; or it goes down by all it may, or is as slow as its   *)
(* target.                                                                 *)
LEMMA SlewAxis ==
    ASSUME NEW current \in Int, NEW target \in Int, NEW rise \in Nat, NEW fall \in Nat
    PROVE  LET next == Slew(current, target, rise, fall)
           IN  /\ next \in Int
               /\ \/ /\ Magnitude(target) > Magnitude(current)
                     /\ Magnitude(next) <= Magnitude(target)
                     /\ Magnitude(next) <= Magnitude(current) + rise
                  \/ /\ Magnitude(target) <= Magnitude(current)
                     /\ \/ Magnitude(next) <= Magnitude(target)
                        \/ Magnitude(next) <= Magnitude(current) - fall
BY DEF Slew, Clamp, Magnitude

(* slew approaches the two speeds of a target independently; a target and  *)
(* an output that the tracks can follow still give an output that they can *)
(* follow, in every tick of the robot's controller.                        *)
THEOREM SlewKeepsTrackLimit ==
    ASSUME NEW limit \in Nat,
           NEW linear \in Int, NEW turn \in Int, NEW toLinear \in Int, NEW toTurn \in Int,
           WithinTracks(linear, turn, limit), WithinTracks(toLinear, toTurn, limit)
    PROVE  WithinTracks(Slew(linear, toLinear, LinearRise, LinearFall),
                        Slew(turn, toTurn, TurnRise, TurnFall), limit)
<1> DEFINE l == Slew(linear, toLinear, LinearRise, LinearFall)
           t == Slew(turn, toTurn, TurnRise, TurnFall)
<1>1. /\ LinearRise \in Nat /\ LinearFall \in Nat /\ TurnRise \in Nat /\ TurnFall \in Nat
      /\ LinearFall >= TurnRise /\ TurnFall >= LinearRise
  BY RatesAssumption
<1>2. /\ l \in Int
      /\ \/ /\ Magnitude(toLinear) > Magnitude(linear)
            /\ Magnitude(l) <= Magnitude(toLinear)
            /\ Magnitude(l) <= Magnitude(linear) + LinearRise
         \/ /\ Magnitude(toLinear) <= Magnitude(linear)
            /\ \/ Magnitude(l) <= Magnitude(toLinear)
               \/ Magnitude(l) <= Magnitude(linear) - LinearFall
  BY <1>1, SlewAxis
<1>3. /\ t \in Int
      /\ \/ /\ Magnitude(toTurn) > Magnitude(turn)
            /\ Magnitude(t) <= Magnitude(toTurn)
            /\ Magnitude(t) <= Magnitude(turn) + TurnRise
         \/ /\ Magnitude(toTurn) <= Magnitude(turn)
            /\ \/ Magnitude(t) <= Magnitude(toTurn)
               \/ Magnitude(t) <= Magnitude(turn) - TurnFall
  BY <1>1, SlewAxis
<1> HIDE DEF l, t
<1>4. \A x \in {linear, turn, toLinear, toTurn, l, t} : Magnitude(x) \in Nat
  BY <1>2, <1>3 DEF Magnitude
<1>5. /\ Magnitude(linear) + Magnitude(turn) <= limit
      /\ Magnitude(toLinear) + Magnitude(toTurn) <= limit
  BY TracksAddUp
<1>6. Magnitude(l) + Magnitude(t) <= limit
  BY <1>1, <1>2, <1>3, <1>4, <1>5
<1>7. WithinTracks(l, t, limit)
  BY <1>2, <1>3, <1>6, TracksAddUp
<1> QED
  BY <1>7 DEF l, t

(* The hard limits of the chassis command guard cut each axis by itself:   *)
(* what the tracks could follow they still can.                            *)
THEOREM GuardKeepsTrackLimit ==
    ASSUME NEW limit \in Nat, NEW maxLinear \in Nat, NEW maxTurn \in Nat,
           NEW linear \in Int, NEW turn \in Int, WithinTracks(linear, turn, limit)
    PROVE  WithinTracks(Clamp(linear, -maxLinear, maxLinear), Clamp(turn, -maxTurn, maxTurn), limit)
BY DEF WithinTracks, Magnitude, Clamp
=============================================================================
