-------------------------- MODULE PlacementProofs --------------------------
(***************************************************************************)
(* Theorems about the two programs that load models into the Ollama        *)
(* server: Preflight, for every sequence of models, timeout and overrun,   *)
(* and Placement, for every number of questions.                           *)
(***************************************************************************)
EXTENDS Preflight, Placement, TLAPS

USE AbsentIsNoCopy, PreflightConstants DEF AbsentIsNoCopy, PreflightConstants

-----------------------------------------------------------------------------
(* Preflight: type correctness                                             *)

\* The stages of the script are positions of a sequence that is not empty.
LEMMA StagesExist ==
  /\ Len(Stages) \in Nat /\ 1 \in 1..Len(Stages)
  /\ \A i \in 1..Len(Stages) : Stages[i] \in Models
  /\ \A m \in Models : \E i \in 1..Len(Stages) : Stages[i] = m
<1>1. Len(Stages) \in Nat /\ DOMAIN Stages = 1..Len(Stages)
  OBVIOUS
<1>2. Len(Stages) # 0
  OBVIOUS
<1>3. QED BY <1>1, <1>2

\* Loading a model leaves one copy of it, with the placement it had if any.
LEMMA LoadedType ==
  ASSUME PreflightTypeOK, NEW m \in Models, NEW device \in Devices,
         NEW origin \in {"earlier", "own", "late"}
  PROVE  Loaded(m, device, origin) \in [Models -> Copy \cup {Absent}]
<1>1. [device |-> device, origin |-> origin] \in Copy
  BY DEF Copy
<1>2. QED BY <1>1 DEF Loaded, PreflightTypeOK, ServerTypeOK

LEMMA InitPreflightTypeOK == PreflightInit => PreflightTypeOK
<1> SUFFICES ASSUME PreflightInit PROVE PreflightTypeOK
  OBVIOUS
<1>1. resident \in [Models -> Copy \cup {Absent}]
  <2>1. {Absent} \cup [device : Devices, origin : {"earlier"}] \subseteq Copy \cup {Absent}
    BY DEF Copy
  <2>2. QED BY <2>1 DEF PreflightInit, ServerInit
<1>2. QED BY <1>1, StagesExist DEF PreflightInit, ServerInit, PreflightTypeOK, ServerTypeOK

LEMMA NextPreflightTypeOK == PreflightTypeOK /\ [PreflightNext]_preflight_vars => PreflightTypeOK'
<1> SUFFICES ASSUME PreflightTypeOK, [PreflightNext]_preflight_vars PROVE PreflightTypeOK'
  OBVIOUS
<1>a. Model \in Models
  BY StagesExist DEF PreflightTypeOK, ServerTypeOK, Model
<1>b. 0 \in 0..(Timeout + Overrun)
  OBVIOUS
<1>c. \A answered \in BOOLEAN : \A x \in NextAnswer(answered) : x \in 0..(Timeout + Overrun)
  BY DEF NextAnswer, PreflightTypeOK, ServerTypeOK
<1>d. ~LastStage => stage + 1 \in 1..Len(Stages)
  BY StagesExist DEF LastStage, PreflightTypeOK, ServerTypeOK
<1>e. \A m \in Models : Evicting(m) \subseteq Models
  BY DEF Evicting, PreflightTypeOK, ServerTypeOK
<1>f. ASSUME NEW r \in {"none", "pass", "fail"}, Finish(r)
      PROVE  /\ outcome' \in {"none", "pass", "fail"} /\ step' = "cleanup"
             /\ stage' \in 1..Len(Stages) /\ elapsed' \in 0..(Timeout + Overrun)
  BY <1>b, <1>f, StagesExist DEF Finish
<1>1. CASE EvictStage
  BY <1>1, <1>a, <1>e, <1>f DEF EvictStage, PreflightTypeOK, ServerTypeOK
<1>2. ASSUME NEW answered \in BOOLEAN, PollStage(answered) PROVE PreflightTypeOK'
  BY <1>2, <1>c, <1>f DEF PollStage, PollAgain, GaveUp, PreflightTypeOK, ServerTypeOK, server
<1>3. ASSUME NEW device \in Devices, Load(device) PROVE PreflightTypeOK'
  <2>1. ServerTypeOK'
    <3>1. Loaded(Model, device, "own") \in [Models -> Copy \cup {Absent}]
      BY <1>a, LoadedType
    <3>2. resident' \in {resident, Loaded(Model, device, "own")}
      BY <1>3 DEF Load
    <3>3. unloading' = unloading /\ abandoned' \subseteq abandoned \cup {Model}
      BY <1>3 DEF Load
    <3>4. QED BY <1>a, <3>1, <3>2, <3>3 DEF PreflightTypeOK, ServerTypeOK
  <2>2. QED BY <1>3, <1>f, <2>1 DEF Load, PreflightTypeOK
<1>4. ASSUME NEW reported \in BOOLEAN, ObserveStage(reported) PROVE PreflightTypeOK'
  <2>1. Confirm(reported) =>
          confirmed \cup {[model |-> Model, copy |-> resident[Model]]}
            \subseteq [model : Models, copy : Copy]
    BY <1>a DEF Confirm, PreflightTypeOK, ServerTypeOK
  <2>2. QED BY <1>4, <1>d, <1>f, <2>1 DEF ObserveStage, PreflightTypeOK, ServerTypeOK, server
<1>5. CASE Interrupt
  BY <1>5, <1>a, <1>f DEF Interrupt, PreflightTypeOK, ServerTypeOK
<1>6. CASE CleanUp
  BY <1>6, <1>a, <1>d, <1>e DEF CleanUp, PreflightTypeOK, ServerTypeOK
<1>7. ASSUME NEW answered \in BOOLEAN, PollExit(answered) PROVE PreflightTypeOK'
  <2>1. \A cleared \in BOOLEAN : outcome # "none" =>
          Written(cleared) \in [result : {"pass", "fail"}, cleanExit : BOOLEAN]
    BY DEF Written, PreflightTypeOK, ServerTypeOK
  <2>2. ASSUME NEW cleared \in BOOLEAN, Exit(cleared)
        PROVE  /\ step' = "done" /\ elapsed' = elapsed
               /\ report' \in {NoReport} \cup [result : {"pass", "fail"}, cleanExit : BOOLEAN]
    BY <2>1, <2>2 DEF Exit
  <2>3. QED BY <1>7, <1>c, <2>2 DEF PollExit, PollAgain, PreflightTypeOK, ServerTypeOK, server
<1>8. ASSUME NEW m \in Models, Unload(m) \/ Expire(m), UNCHANGED script PROVE PreflightTypeOK'
  BY <1>8 DEF Unload, Expire, Drop, script, PreflightTypeOK, ServerTypeOK
<1>9. ASSUME NEW m \in Models, NEW device \in Devices, LateLoad(m, device), UNCHANGED script
      PROVE  PreflightTypeOK'
  BY <1>9, LoadedType DEF LateLoad, script, PreflightTypeOK, ServerTypeOK
<1>10. CASE UNCHANGED preflight_vars
  BY <1>10 DEF preflight_vars, server, script, PreflightTypeOK, ServerTypeOK
<1>11. QED
  BY <1>1, <1>2, <1>3, <1>4, <1>5, <1>6, <1>7, <1>8, <1>9, <1>10 
  DEF PreflightNext, PreflightProcess, ServerStep

\* Every reachable state of a preflight is well typed.
THEOREM PreflightTypeCorrect == PreflightSpec => []PreflightTypeOK
  BY InitPreflightTypeOK, NextPreflightTypeOK, PTL DEF PreflightSpec

-----------------------------------------------------------------------------
(* Preflight: the inductive invariant                                      *)

Body == {"evict", "wait", "load", "observe"}

\* While the checks run no load was given up on, so what is in memory is from
\* before or from one of its own calls; a wait that cleared left nothing in memory
\* for the call to find; and each earlier model was confirmed.
Checking ==
  step \in Body =>
    /\ abandoned = {}
    /\ report = NoReport
    /\ \A i \in 1..(stage - 1) : \E c \in confirmed : c.model = Stages[i]
    /\ step = "load" => resident[Model] = Absent
    /\ step = "observe" /\ resident[Model] # Absent => resident[Model].origin = "own"

\* What the script reports before and after its exit: a pass rests on every
\* confirmation and on no call that was given up; after a clean exit only such a
\* call can load anything.
Reporting ==
  /\ step \in {"cleanup", "exit"} => report = NoReport
  /\ step \notin Body /\ outcome = "pass" =>
       /\ abandoned = {}
       /\ \A m \in Models : \E c \in confirmed : c.model = m
  /\ report # NoReport =>
       /\ report.result = "pass" => outcome = "pass" /\ report.cleanExit
       /\ report.cleanExit =>
            \A m \in Models : resident[m] # Absent =>
              resident[m].origin = "late" /\ outcome # "pass"

Reported == ConfirmedCopiesAreFresh /\ Checking /\ Reporting

LEMMA InitReported == PreflightInit => Reported
<1> SUFFICES ASSUME PreflightInit PROVE Reported
  OBVIOUS
<1>1. ConfirmedCopiesAreFresh
  BY DEF PreflightInit, ConfirmedCopiesAreFresh
<1>2. Checking /\ Reporting
  BY DEF PreflightInit, ServerInit, Checking, Reporting, Body
<1>3. QED BY <1>1, <1>2 DEF Reported

\* A check that ends without a result, or with a failure, leaves nothing to show.
LEMMA FinishReported ==
  ASSUME Reported, NEW r \in {"none", "fail"}, Finish(r), step \in Body,
         confirmed' = confirmed, placement' = placement, report' = report
  PROVE  Reported'
<1>1. step' \notin Body /\ outcome' # "pass" /\ report' = NoReport
  BY DEF Finish, Body, Reported, Checking
<1>2. ConfirmedCopiesAreFresh'
  BY DEF Reported, ConfirmedCopiesAreFresh, Expected
<1>3. Checking' /\ Reporting'
  BY <1>1 DEF Checking, Reporting
<1>4. QED BY <1>2, <1>3 DEF Reported

LEMMA NextReported == PreflightTypeOK /\ PreflightTypeOK' /\ Reported /\ [PreflightNext]_preflight_vars => Reported'
<1> SUFFICES ASSUME PreflightTypeOK, PreflightTypeOK', Reported, [PreflightNext]_preflight_vars PROVE Reported'
  OBVIOUS
<1>a. Model \in Models
  BY StagesExist DEF PreflightTypeOK, ServerTypeOK, Model
<1>b. confirmed' = confirmed /\ placement' = placement => ConfirmedCopiesAreFresh'
  BY DEF Reported, ConfirmedCopiesAreFresh, Expected
<1>1. CASE EvictStage
  <2>1. CASE unloading' = Evicting(Model) /\ step' = "wait" /\ UNCHANGED <<stage, outcome>>
    <3>1. Checking' /\ Reporting'
      BY <1>1, <2>1 DEF EvictStage, Reported, Checking, Reporting, Body
    <3>2. QED BY <1>1, <1>b, <3>1 DEF EvictStage, Reported
  <2>2. CASE Finish("fail")
    BY <1>1, <2>2, FinishReported DEF EvictStage, Body
  <2>3. QED BY <1>1, <2>1, <2>2 DEF EvictStage
<1>2. ASSUME NEW answered \in BOOLEAN, PollStage(answered) PROVE Reported'
  <2>1. CASE Cleared({Model}, answered) /\ step' = "load" /\ UNCHANGED <<stage, outcome>>
    <3>1. Checking' /\ Reporting'
      BY <1>2, <2>1 DEF PollStage, Reported, Checking, Reporting, Body, Cleared, Model, server
    <3>2. QED BY <1>2, <1>b, <3>1 DEF PollStage, Reported
  <2>2. CASE UNCHANGED <<step, stage, outcome>>
    <3>1. Checking' /\ Reporting'
      BY <1>2, <2>2 DEF PollStage, Reported, Checking, Reporting, Body, server
    <3>2. QED BY <1>2, <1>b, <3>1 DEF PollStage, Reported
  <2>3. CASE Finish("fail")
    BY <1>2, <2>3, FinishReported DEF PollStage, Body
  <2>4. QED BY <1>2, <2>1, <2>2, <2>3 DEF PollStage
<1>3. ASSUME NEW device \in Devices, Load(device) PROVE Reported'
  <2>1. CASE /\ resident' = Loaded(Model, device, "own")
             /\ step' = "observe" /\ UNCHANGED <<abandoned, stage, outcome>>
    <3>1. resident'[Model].origin = "own"
      BY <1>3, <1>a, <2>1 DEF Load, Loaded, Reported, Checking, Body, PreflightTypeOK, ServerTypeOK
    <3>2. Checking' /\ Reporting'
      BY <1>3, <2>1, <3>1 DEF Load, Reported, Checking, Reporting, Body, Model
    <3>3. QED BY <1>3, <1>b, <3>2 DEF Load, Reported
  <2>2. CASE Finish("fail")
    BY <1>3, <2>2, FinishReported DEF Load, Body
  <2>3. QED BY <1>3, <2>1, <2>2 DEF Load
<1>4. ASSUME NEW reported \in BOOLEAN, ObserveStage(reported) PROVE Reported'
  <2>1. CASE ~Confirm(reported)
    BY <1>4, <2>1, FinishReported DEF ObserveStage, Body
  <2>2. CASE Confirm(reported)
    <3> DEFINE new == [model |-> Model, copy |-> resident[Model]]
    <3>1. confirmed' = confirmed \cup {new}
      BY <1>4, <2>2 DEF ObserveStage
    <3>2. new.copy.origin = "own" /\ new.copy.device = Expected(new.model)
      BY <1>4, <2>2 DEF ObserveStage, Confirm, Reported, Checking, Body
    <3>3. ConfirmedCopiesAreFresh'
      <4>1. \A c \in confirmed' : c.copy.origin = "own" /\ c.copy.device = Expected(c.model)
        BY <3>1, <3>2 DEF Reported, ConfirmedCopiesAreFresh
      <4>2. QED BY <1>4, <4>1 DEF ObserveStage, ConfirmedCopiesAreFresh, Expected
    <3>4. \A i \in 1..stage : \E c \in confirmed' : c.model = Stages[i]
      <4> SUFFICES ASSUME NEW i \in 1..stage PROVE \E c \in confirmed' : c.model = Stages[i]
        OBVIOUS
      <4>1. CASE i = stage
        <5>1. new \in confirmed' /\ new.model = Stages[stage]
          BY <3>1 DEF Model
        <5>2. QED BY <4>1, <5>1
      <4>2. CASE i # stage
        <5>1. i \in 1..(stage - 1)
          BY <4>2, StagesExist DEF PreflightTypeOK, ServerTypeOK
        <5>2. QED BY <1>4, <3>1, <5>1 DEF ObserveStage, Reported, Checking, Body
      <4>3. QED BY <4>1, <4>2
    <3>5. Checking' /\ Reporting'
      <4> HIDE DEF new
      <4>1. CASE LastStage
        <5>1. \A m \in Models : \E c \in confirmed' : c.model = m
          BY <3>4, <4>1, StagesExist DEF LastStage
        <5>2. QED
          BY <1>4, <2>2, <4>1, <5>1
          DEF ObserveStage, Finish, Reported, Checking, Reporting, Body, server
      <4>2. CASE ~LastStage
        <5>1. stage' = stage + 1 /\ stage' - 1 = stage /\ step' = "evict" /\ outcome' = outcome
          BY <1>4, <2>2, <4>2, StagesExist DEF ObserveStage, PreflightTypeOK, ServerTypeOK
        <5>2. QED
          BY <1>4, <3>4, <5>1 DEF ObserveStage, Reported, Checking, Reporting, Body, server
      <4>3. QED BY <4>1, <4>2
    <3>6. QED BY <3>3, <3>5 DEF Reported
  <2>3. QED BY <2>1, <2>2
<1>5. CASE Interrupt
  BY <1>5, FinishReported DEF Interrupt, Body
<1>6. CASE CleanUp
  <2>1. Checking' /\ Reporting'
    BY <1>6 DEF CleanUp, Reported, Checking, Reporting, Body
  <2>2. QED BY <1>6, <1>b, <2>1 DEF CleanUp, Reported
<1>7. ASSUME NEW answered \in BOOLEAN, PollExit(answered) PROVE Reported'
  <2>1. CASE Cleared(Models, answered) /\ Exit(TRUE)
    <3>1. \A m \in Models : resident'[m] = Absent
      BY <1>7, <2>1 DEF PollExit, Cleared, server
    <3>2. Checking' /\ Reporting'
      BY <1>7, <2>1, <3>1
      DEF PollExit, Exit, Written, Reported, Checking, Reporting, Body, server
    <3>3. QED BY <1>7, <1>b, <3>2 DEF PollExit, Reported
  <2>2. CASE UNCHANGED <<step, report>>
    <3>1. Checking' /\ Reporting'
      BY <1>7, <2>2 DEF PollExit, Reported, Checking, Reporting, Body, server
    <3>2. QED BY <1>7, <1>b, <3>1 DEF PollExit, Reported
  <2>3. CASE Exit(FALSE)
    <3>1. Checking' /\ Reporting'
      BY <1>7, <2>3 DEF PollExit, Exit, Written, Reported, Checking, Reporting, Body, server
    <3>2. QED BY <1>7, <1>b, <3>1 DEF PollExit, Reported
  <2>4. QED BY <1>7, <2>1, <2>2, <2>3 DEF PollExit
<1>8. ASSUME NEW m \in Models, Unload(m) \/ Expire(m), UNCHANGED script PROVE Reported'
  <2>1. \A n \in Models : resident'[n] \in {resident[n], Absent}
    BY <1>8 DEF Unload, Expire, Drop, PreflightTypeOK, ServerTypeOK
  <2>2. UNCHANGED <<abandoned, placement, step, stage, confirmed, outcome, report>>
    BY <1>8 DEF Unload, Expire, script
  <2>3. Checking' /\ Reporting'
    BY <1>a, <2>1, <2>2 DEF Reported, Checking, Reporting, Body, Model
  <2>4. QED BY <1>b, <2>2, <2>3 DEF Reported
<1>9. ASSUME NEW m \in Models, NEW device \in Devices, LateLoad(m, device), UNCHANGED script
      PROVE  Reported'
  <2>1. abandoned # {} /\ abandoned' \subseteq abandoned
    BY <1>9 DEF LateLoad
  <2>2. UNCHANGED <<placement, step, stage, confirmed, outcome, report>>
    BY <1>9 DEF LateLoad, script
  <2>3. \A n \in Models : resident'[n] = resident[n] \/ resident'[n].origin = "late"
    BY <1>9 DEF LateLoad, Loaded, PreflightTypeOK, ServerTypeOK
  <2>4. step \notin Body /\ outcome # "pass"
    BY <2>1 DEF Reported, Checking, Reporting
  <2>5. Checking' /\ Reporting'
    BY <2>2, <2>3, <2>4 DEF Reported, Checking, Reporting
  <2>6. QED BY <1>b, <2>2, <2>5 DEF Reported
<1>10. CASE UNCHANGED preflight_vars
  <2>1. Checking' /\ Reporting'
    BY <1>10 DEF preflight_vars, server, script, Reported, Checking, Reporting, Model
  <2>2. QED BY <1>10, <1>b, <2>1 DEF preflight_vars, script, Reported
<1>11. QED
  BY <1>1, <1>2, <1>3, <1>4, <1>5, <1>6, <1>7, <1>8, <1>9, <1>10 
  DEF PreflightNext, PreflightProcess, ServerStep

LEMMA ReportedInvariant == PreflightSpec => []Reported
<1>1. PreflightTypeOK /\ PreflightTypeOK' /\ Reported /\ [PreflightNext]_preflight_vars => Reported'
  BY NextReported
<1>2. QED BY <1>1, InitReported, PreflightTypeCorrect, PTL DEF PreflightSpec

-----------------------------------------------------------------------------
(* What a preflight proves                                                 *)

\* The placement confirmed is that of the preflight's own call, on the expected
\* device, whatever the server does.
THEOREM Fresh == PreflightSpec => []ConfirmedCopiesAreFresh
<1>1. Reported => ConfirmedCopiesAreFresh
  BY DEF Reported
<1>2. QED BY <1>1, ReportedInvariant, PTL

\* A preflight that passes confirmed every model and left none in memory.
THEOREM Pass == PreflightSpec => []PassIsProven
<1>1. PreflightTypeOK /\ Reported => PassIsProven
  <2> SUFFICES ASSUME PreflightTypeOK, Reported, report # NoReport, report.result = "pass"
               PROVE  /\ {c.model : c \in confirmed} = Models
                      /\ \A m \in Models : resident[m] = Absent
    BY DEF PassIsProven
  <2>1. outcome = "pass" /\ report.cleanExit /\ step \notin Body
    BY DEF Reported, Checking, Reporting
  <2>2. \A m \in Models : \E c \in confirmed : c.model = m
    BY <2>1 DEF Reported, Reporting
  <2>3. \A c \in confirmed : c.model \in Models
    BY DEF PreflightTypeOK, ServerTypeOK
  <2>4. \A m \in Models : resident[m] = Absent
    BY <2>1 DEF Reported, Reporting
  <2>5. QED BY <2>2, <2>3, <2>4
<1>2. QED BY <1>1, ReportedInvariant, PreflightTypeCorrect, PTL

\* A clean exit on record is one, of a failed preflight too.
THEOREM CleanExit == PreflightSpec => []CleanExitIsTrue
<1>1. Reported => CleanExitIsTrue
  BY DEF Reported, Reporting, CleanExitIsTrue
<1>2. QED BY <1>1, ReportedInvariant, PTL

HIDE PreflightConstants DEF PreflightConstants
USE PlacementConstants DEF PlacementConstants

-----------------------------------------------------------------------------
(* Placement: type correctness                                             *)

\* PlacementTypeOK bounds the two counters only together with where the run is.
Progress ==
  /\ pc = "evict" => evicted < Len(ToEvict) /\ arm = "B" /\ calls = 0
  /\ pc = "call" => calls < CallsPerArm[arm]

Typed == PlacementTypeOK /\ Progress

LEMMA ToEvictType == Len(ToEvict) = 3 /\ \A i \in 1..3 : ToEvict[i] \in Models
  BY DEF ToEvict

LEMMA CallsPerArmType ==
  \A a \in Arms : CallsPerArm[a] \in Nat /\ 0 < CallsPerArm[a]
  BY DEF Arms, CallsPerArm

\* Every call is for one of the three models.
LEMMA CalleeType == PlacementTypeOK => Callee \in Models
<1> SUFFICES ASSUME PlacementTypeOK PROVE Callee \in Models
  OBVIOUS
<1>1. calls \in Nat
  BY CallsPerArmType DEF PlacementTypeOK
<1>2. calls % 2 = 0 \/ calls % 2 = 1
  BY <1>1
<1>3. arm = "B" \/ arm = "D"
  BY DEF PlacementTypeOK, Arms
<1>4. QED BY <1>2, <1>3 DEF Callee

\* A call finds a copy in memory or makes one.
LEMMA CallType ==
  ASSUME PlacementTypeOK, NEW device \in Devices, Call(device)
  PROVE  /\ Callee \in Models
         /\ device \in LoadDevices(Callee)
         /\ resident' = [resident EXCEPT ![Callee] = resident'[Callee]]
         /\ resident'[Callee] \in Copy
         /\ \/ resident'[Callee] = resident[Callee]
            \/ resident'[Callee] = [device |-> device, origin |-> "own"]
<1>1. Callee \in Models
  BY CalleeType
<1>2. resident \in [Models -> Copy \cup {Absent}]
  BY DEF PlacementTypeOK, ServerTypeOK
<1>3. [device |-> device, origin |-> "own"] \in Copy
  BY DEF Copy
<1>4. CASE resident[Callee] = Absent
  BY <1>1, <1>2, <1>3, <1>4 DEF Call, Loaded
<1>5. CASE resident[Callee] # Absent
  BY <1>1, <1>2, <1>5 DEF Call, Loaded
<1>6. QED BY <1>4, <1>5

LEMMA InitTyped == PlacementInit => Typed
<1> SUFFICES ASSUME PlacementInit PROVE Typed
  OBVIOUS
<1>1. {Absent} \cup [device : Devices, origin : {"earlier"}] \subseteq Copy \cup {Absent}
  BY DEF Copy
<1>2. ServerTypeOK
  BY <1>1 DEF PlacementInit, ServerInit, ServerTypeOK
<1>3. QED BY <1>2, ToEvictType, CallsPerArmType DEF PlacementInit, Typed, PlacementTypeOK, Progress, Arms

\* The server's own steps keep what is in memory well typed.
LEMMA ServerTyped == ServerTypeOK /\ ServerStep => ServerTypeOK'
<1> SUFFICES ASSUME ServerTypeOK, ServerStep PROVE ServerTypeOK'
  OBVIOUS
<1>1. ASSUME NEW m \in Models, Unload(m) \/ Expire(m) PROVE ServerTypeOK'
  BY <1>1 DEF Unload, Expire, Drop, ServerTypeOK
<1>2. ASSUME NEW m \in Models, NEW device \in Devices, LateLoad(m, device)
      PROVE  ServerTypeOK'
  <2>1. [device |-> device, origin |-> "late"] \in Copy
    BY DEF Copy
  <2>2. QED BY <1>2, <2>1 DEF LateLoad, Loaded, ServerTypeOK
<1>3. QED BY <1>1, <1>2 DEF ServerStep

LEMMA NextTyped == Typed /\ [PlacementNext]_placement_vars => Typed'
<1> SUFFICES ASSUME Typed, [PlacementNext]_placement_vars PROVE Typed'
  OBVIOUS
<1> USE ToEvictType, CallsPerArmType DEF Typed
<1>1. CASE Evict
  <2>1. evicted + 1 \in 1..3 /\ ToEvict[evicted + 1] \in Models
    BY <1>1 DEF Evict, PlacementTypeOK, Progress
  <2>2. \A m \in Models : Evicting(m) \subseteq Models
    BY DEF Evicting, PlacementTypeOK, ServerTypeOK
  <2>3. ServerTypeOK'
    BY <1>1, <2>1, <2>2 DEF Evict, PlacementTypeOK, ServerTypeOK
  <2>4. QED BY <1>1, <2>1, <2>3 DEF Evict, Reject, PlacementTypeOK, Progress
<1>2. ASSUME NEW device \in Devices, Call(device) PROVE Typed'
  <2>1. calls + 1 \in 0..CallsPerArm[arm] /\ (~LastCall => calls + 1 < CallsPerArm[arm])
    BY <1>2 DEF Call, PlacementTypeOK, Progress, LastCall
  <2>2. ServerTypeOK'
    BY <1>2, CallType DEF Call, PlacementTypeOK, ServerTypeOK
  <2>3. timed' \in [Arms -> SUBSET [model : Models, copy : Copy]]
    <3>1. [model |-> Callee, copy |-> resident'[Callee]] \in [model : Models, copy : Copy]
      BY <1>2, CallType
    <3>2. QED BY <1>2, <3>1 DEF Call, PlacementTypeOK
  <2>4. QED BY <1>2, <2>1, <2>2, <2>3 DEF Call, PlacementTypeOK, Progress
<1>3. CASE CallFails
  BY <1>3, CalleeType DEF CallFails, run, PlacementTypeOK, ServerTypeOK, Progress
<1>4. ASSUME NEW reported \in BOOLEAN, FinishArm(reported) PROVE Typed'
  <2>1. Residency \subseteq [model : Models, device : Devices]
    BY DEF Residency, PlacementTypeOK, ServerTypeOK, Copy
  <2>2. evidence' \in [Arms -> SUBSET [model : Models, device : Devices]]
    BY <1>4, <2>1 DEF FinishArm, PlacementTypeOK
  <2>3. QED BY <1>4, <2>2 DEF FinishArm, server, PlacementTypeOK, ServerTypeOK, Progress
<1>5. ASSUME NEW readable \in BOOLEAN, NEW complete \in BOOLEAN, Observe(readable, complete)
      PROVE  Typed'
  <2>1. /\ UNCHANGED <<server, requested, evicted, timed, moved, evidence, verdict>>
        /\ pc = "observe"
        /\ \/ /\ pc' = "rejected" /\ UNCHANGED <<arm, calls>>
              /\ rejection' \in {"residency_unreadable", "residency_incomplete",
                                 "placement_mismatch"}
           \/ /\ UNCHANGED rejection
              /\ \/ pc' = "published" /\ UNCHANGED <<arm, calls>>
                 \/ pc' = "call" /\ arm' = "D" /\ calls' = 0
    BY <1>5 DEF Observe, Reject
  <2>2. QED BY <2>1 DEF server, PlacementTypeOK, ServerTypeOK, Progress, Arms
<1>6. CASE Analyse
  BY <1>6 DEF Analyse, server, PlacementTypeOK, ServerTypeOK, Progress
<1>7. CASE Server
  <2>1. moved' \subseteq Arms
    BY <1>7 DEF Server, PlacementTypeOK
  <2>2. QED BY <1>7, <2>1, ServerTyped DEF Server, run, PlacementTypeOK, Progress
<1>8. CASE UNCHANGED placement_vars
  BY <1>8 DEF placement_vars, server, run, PlacementTypeOK, ServerTypeOK, Progress
<1>9. QED
  BY <1>1, <1>2, <1>3, <1>4, <1>5, <1>6, <1>7, <1>8 DEF PlacementNext, Process

LEMMA TypedInvariant == PlacementSpec => []Typed
  BY InitTyped, NextTyped, PTL DEF PlacementSpec

\* Every reachable state of a performance run is well typed.
THEOREM PlacementTypeCorrect == PlacementSpec => []PlacementTypeOK
<1>1. Typed => PlacementTypeOK
  BY DEF Typed
<1>2. QED BY <1>1, TypedInvariant, PTL

-----------------------------------------------------------------------------
(* What a residency read after an arm says of its calls                    *)

\* The arm's calls are being made, and its residency has not been read.
Serving(a) == a = arm /\ pc \in {"call", "finish"}

\* While an arm lasts, what served it is still in memory; once it is over, that is
\* in its evidence, if there is any.
Witnessed ==
  pc # "dead" =>
    \A a \in Arms \ moved : \A t \in timed[a] :
      IF Serving(a)
      THEN resident[t.model] = t.copy
      ELSE evidence[a] # {} => [model |-> t.model, device |-> t.copy.device] \in evidence[a]

\* An arm that has not begun has no calls.
Unbegun ==
  /\ arm = "B" => timed["D"] = {}
  /\ pc = "evict" => timed["B"] = {}

\* The verdict is what the placement checks say of the evidence.
Judged ==
  verdict = "valid" => pc = "analysed" /\ \A a \in Arms : PlacementHolds(a)

Justified == Typed /\ Witnessed /\ Unbegun /\ Judged

LEMMA InitJustified == PlacementInit => Justified
<1> SUFFICES ASSUME PlacementInit PROVE Witnessed /\ Unbegun /\ Judged
  BY InitTyped DEF Justified
<1>1. QED BY DEF PlacementInit, Witnessed, Unbegun, Judged, Arms

\* A copy that served the arm keeps its place: loading another leaves it alone, and
\* loading it again finds it.
LEMMA CallWitnessed ==
  ASSUME Justified, NEW device \in Devices, Call(device)
  PROVE  Witnessed' /\ Unbegun'
<1>1. /\ Callee \in Models
      /\ resident' = [resident EXCEPT ![Callee] = resident'[Callee]]
      /\ resident[Callee] # Absent => resident'[Callee] = resident[Callee]
  <2>1. resident \in [Models -> Copy \cup {Absent}]
    BY DEF Justified, Typed, PlacementTypeOK, ServerTypeOK
  <2>2. PlacementTypeOK
    BY DEF Justified, Typed
  <2>3. QED BY <2>1, <2>2, CalleeType, CallType DEF Call, Loaded
<1>2. /\ pc = "call" /\ pc' \in {"call", "finish"} /\ arm' = arm /\ arm \in Arms
      /\ moved' = moved /\ evidence' = evidence
      /\ timed \in [Arms -> SUBSET [model : Models, copy : Copy]]
      /\ timed' = [timed EXCEPT ![arm] = @ \cup {[model |-> Callee, copy |-> resident'[Callee]]}]
  BY DEF Call, Justified, Typed, PlacementTypeOK
<1>3. Unbegun'
  BY <1>2 DEF Justified, Unbegun, Arms
<1>4. ASSUME NEW a \in Arms \ moved, NEW t \in timed'[a]
      PROVE  IF Serving(a)'
             THEN resident'[t.model] = t.copy
             ELSE evidence'[a] # {} => [model |-> t.model, device |-> t.copy.device] \in evidence'[a]
  <2>1. CASE a = arm /\ t \in timed[arm]
    <3>1. t.model \in Models /\ t.copy \in Copy
      BY <1>2, <2>1
    <3>2. resident[t.model] = t.copy
      BY <1>2, <1>4, <2>1 DEF Justified, Witnessed, Serving
    <3>3. resident'[t.model] = t.copy
      <4>1. resident \in [Models -> Copy \cup {Absent}]
        BY DEF Justified, Typed, PlacementTypeOK, ServerTypeOK
      <4>2. CASE t.model = Callee
        BY <1>1, <3>1, <3>2, <4>2
      <4>3. CASE t.model # Callee
        BY <1>1, <3>1, <3>2, <4>1, <4>3
      <4>4. QED BY <4>2, <4>3
    <3>4. QED BY <1>2, <2>1, <3>3 DEF Serving
  <2>2. CASE a = arm /\ t = [model |-> Callee, copy |-> resident'[Callee]]
    BY <1>2, <2>2 DEF Serving
  <2>3. CASE a # arm
    <3>1. t \in timed[a]
      BY <1>2, <1>4, <2>3
    <3>2. QED BY <1>2, <1>4, <2>3, <3>1 DEF Justified, Witnessed, Serving
  <2>4. QED BY <1>2, <1>4, <2>1, <2>2, <2>3
<1>5. QED BY <1>2, <1>3, <1>4 DEF Witnessed

\* The reading lists whatever is in memory, or nothing.
LEMMA FinishWitnessed ==
  ASSUME Justified, NEW reported \in BOOLEAN, FinishArm(reported)
  PROVE  Witnessed'
<1>1. /\ pc = "finish" /\ pc' = "observe" /\ arm' = arm /\ arm \in Arms
      /\ UNCHANGED <<resident, moved, timed>>
      /\ evidence \in [Arms -> SUBSET [model : Models, device : Devices]]
      /\ timed \in [Arms -> SUBSET [model : Models, copy : Copy]]
      /\ evidence' = [evidence EXCEPT ![arm] = IF reported THEN Residency ELSE {}]
  BY DEF FinishArm, server, Justified, Typed, PlacementTypeOK
<1>2. ASSUME NEW a \in Arms \ moved, NEW t \in timed[a], evidence'[a] # {}
      PROVE  [model |-> t.model, device |-> t.copy.device] \in evidence'[a]
  <2>1. t.model \in Models /\ t.copy \in Copy
    BY <1>1
  <2>2. CASE a = arm
    <3>1. evidence'[a] = Residency
      BY <1>1, <1>2, <2>2
    <3>2. resident[t.model] = t.copy
      BY <1>1, <2>2 DEF Justified, Witnessed, Serving
    <3>3. QED BY <2>1, <3>1, <3>2 DEF Residency
  <2>3. CASE a # arm
    BY <1>1, <1>2, <2>3 DEF Justified, Witnessed, Serving
  <2>4. QED BY <2>2, <2>3
<1>3. QED BY <1>1, <1>2 DEF Witnessed, Serving

LEMMA NextJustified == Justified /\ [PlacementNext]_placement_vars => Justified'
<1> SUFFICES ASSUME Justified, [PlacementNext]_placement_vars PROVE Witnessed' /\ Unbegun' /\ Judged'
  BY NextTyped DEF Justified
<1> USE DEF Justified
<1>1. CASE Evict
  <2>1. /\ pc = "evict" /\ pc' \in {"evict", "call", "rejected"}
        /\ UNCHANGED <<arm, timed, evidence, moved, verdict>>
    BY <1>1 DEF Evict, Reject
  <2>2. arm = "B" /\ \A a \in Arms : timed[a] = {}
    BY <2>1 DEF Typed, Progress, Unbegun, Arms
  <2>3. QED BY <2>1, <2>2 DEF Witnessed, Unbegun, Judged
<1>2. ASSUME NEW device \in Devices, Call(device)
      PROVE  Witnessed' /\ Unbegun' /\ Judged'
  BY <1>2, CallWitnessed DEF Call, Judged
<1>3. CASE CallFails
  BY <1>3 DEF CallFails, run, Witnessed, Unbegun, Judged
<1>4. ASSUME NEW reported \in BOOLEAN, FinishArm(reported)
      PROVE  Witnessed' /\ Unbegun' /\ Judged'
  BY <1>4, FinishWitnessed DEF FinishArm, Unbegun, Judged
<1>5. ASSUME NEW readable \in BOOLEAN, NEW complete \in BOOLEAN, Observe(readable, complete)
      PROVE  Witnessed' /\ Unbegun' /\ Judged'
  <2>1. /\ UNCHANGED <<resident, timed, moved, evidence, verdict>>
        /\ pc = "observe"
        /\ \/ pc' \in {"rejected", "published"} /\ arm' = arm
           \/ pc' = "call" /\ arm = "B" /\ arm' = "D"
    BY <1>5 DEF Observe, Reject, server, Typed, PlacementTypeOK, Arms
  <2>2. CASE pc' \in {"rejected", "published"} /\ arm' = arm
    BY <2>1, <2>2 DEF Witnessed, Serving, Unbegun, Judged
  <2>3. CASE pc' = "call" /\ arm = "B" /\ arm' = "D"
    BY <2>1, <2>3 DEF Witnessed, Serving, Unbegun, Judged, Arms
  <2>4. QED BY <2>1, <2>2, <2>3
<1>6. CASE Analyse
  <2>1. Judged'
    BY <1>6 DEF Analyse, Judged, PlacementHolds
  <2>2. QED BY <1>6, <2>1 DEF Analyse, server, Witnessed, Serving, Unbegun
<1>7. CASE Server
  <2>1. UNCHANGED <<requested, arm, timed, evidence, verdict, pc>>
    BY <1>7 DEF Server, run
  <2>2. Witnessed'
    <3>1. ASSUME NEW a \in Arms \ moved', NEW t \in timed[a], Serving(a)
          PROVE  resident'[t.model] = t.copy
      BY <1>7, <3>1 DEF Server, Serving
    <3>2. moved \subseteq moved'
      BY <1>7 DEF Server
    <3>3. QED BY <2>1, <3>1, <3>2 DEF Witnessed, Serving
  <2>3. QED BY <2>1, <2>2 DEF Unbegun, Judged, PlacementHolds
<1>8. CASE UNCHANGED placement_vars
  BY <1>8 DEF placement_vars, server, run, Witnessed, Serving, Unbegun, Judged, PlacementHolds
<1>9. QED
  BY <1>1, <1>2, <1>3, <1>4, <1>5, <1>6, <1>7, <1>8 DEF PlacementNext, Process

LEMMA JustifiedInvariant == PlacementSpec => []Justified
  BY InitJustified, NextJustified, PTL DEF PlacementSpec

\* In a run that is over and valid every arm has evidence, and the checks of
\* validate make of it the device of each of its calls.
LEMMA WitnessedEvidence == Justified => ValidArmsRanAsRequested
<1> SUFFICES ASSUME Justified, verdict = "valid", NEW a \in Arms \ moved, NEW t \in timed[a],
                    Named(a, t.model)
             PROVE  t.copy.device = requested
  BY DEF ValidArmsRanAsRequested
<1>1. PlacementHolds(a) /\ pc = "analysed"
  BY DEF Justified, Judged
<1>2. evidence[a] # {}
  BY <1>1 DEF PlacementHolds
<1>3. [model |-> t.model, device |-> t.copy.device] \in evidence[a]
  BY <1>1, <1>2 DEF Justified, Witnessed, Serving
<1>4. requested \in {"cpu", "gpu"}
  BY DEF Justified, Typed, PlacementTypeOK, Devices
<1>5. CASE requested = "cpu"
  BY <1>1, <1>3, <1>5 DEF PlacementHolds
<1>6. CASE requested = "gpu"
  <2>1. t.model = StageModel(a)
    BY <1>6 DEF Named, TimedModel, StageModel, Arms
  <2>2. QED BY <1>1, <1>3, <1>6, <2>1 DEF PlacementHolds
<1>7. QED BY <1>4, <1>5, <1>6

\* Every call of an arm of a valid run whose models stayed in memory ran on the
\* requested device, for any residency before the run and any number of questions.
THEOREM ArmsRanAsRequested == PlacementSpec => []ValidArmsRanAsRequested
  BY JustifiedInvariant, WitnessedEvidence, PTL

-----------------------------------------------------------------------------
(* What a rejected CPU run accuses                                         *)

\* In a CPU run every load of its own goes to the CPU, and it gives up on none.
CpuLoads ==
  pc # "dead" =>
    /\ abandoned = {}
    /\ requested = "cpu" =>
         \A m \in Models :
           resident[m] # Absent /\ resident[m].origin # "earlier" => resident[m].device = "cpu"

LEMMA InitCpuLoads == PlacementInit => CpuLoads
<1> SUFFICES ASSUME PlacementInit, NEW m \in Models, resident[m] # Absent
             PROVE  resident[m].origin = "earlier"
  BY DEF PlacementInit, ServerInit, CpuLoads
<1>1. QED BY DEF PlacementInit, ServerInit

LEMMA NextCpuLoads == Typed /\ CpuLoads /\ [PlacementNext]_placement_vars => CpuLoads'
<1> SUFFICES ASSUME Typed, CpuLoads, [PlacementNext]_placement_vars PROVE CpuLoads'
  OBVIOUS
<1>a. resident \in [Models -> Copy \cup {Absent}]
  BY DEF Typed, PlacementTypeOK, ServerTypeOK
<1>1. ASSUME NEW device \in Devices, Call(device) PROVE CpuLoads'
  <2>1. PlacementTypeOK /\ pc # "dead" /\ UNCHANGED <<abandoned, requested>>
    BY <1>1 DEF Call, Typed
  <2>2. requested = "cpu" => LoadDevices(Callee) = {"cpu"}
    BY DEF LoadDevices
  <2>3. Callee \in Models /\ device \in LoadDevices(Callee)
        /\ resident' = [resident EXCEPT ![Callee] = resident'[Callee]]
        /\ \/ resident'[Callee] = resident[Callee]
           \/ resident'[Callee] = [device |-> device, origin |-> "own"]
    BY <1>1, <2>1, CallType
  <2>4. ASSUME requested = "cpu", NEW m \in Models,
               resident'[m] # Absent, resident'[m].origin # "earlier"
        PROVE  resident'[m].device = "cpu"
    <3>1. CASE resident'[m] = resident[m]
      BY <2>1, <2>4, <3>1 DEF CpuLoads
    <3>2. CASE resident'[m] # resident[m]
      <4>1. resident'[m] = [device |-> device, origin |-> "own"]
        BY <1>a, <2>3, <3>2
      <4>2. QED BY <2>2, <2>3, <2>4, <4>1
    <3>3. QED BY <3>1, <3>2
  <2>5. QED BY <2>1, <2>4 DEF CpuLoads
<1>2. CASE Server
  <2>1. CASE pc # "dead"
    <3>1. ASSUME NEW m \in Models, Drop(m)
          PROVE  \A n \in Models : resident'[n] # Absent => resident'[n] = resident[n]
      BY <1>a, <3>1 DEF Drop
    <3>2. abandoned = {}
      BY <2>1 DEF CpuLoads
    <3>3. \E m \in Models : Drop(m) /\ abandoned' = abandoned
      BY <1>2, <3>2 DEF Server, ServerStep, Unload, Expire, LateLoad
    <3>4. UNCHANGED <<pc, requested>>
      BY <1>2 DEF Server, run
    <3>5. QED BY <3>1, <3>3, <3>4 DEF CpuLoads
  <2>2. CASE pc = "dead"
    BY <1>2, <2>2 DEF Server, CpuLoads
  <2>3. QED BY <2>1, <2>2
<1>3. CASE CallFails
  BY <1>3 DEF CallFails, CpuLoads
<1>4. CASE Evict
  BY <1>4 DEF Evict, CpuLoads
<1>5. ASSUME NEW reported \in BOOLEAN, FinishArm(reported) PROVE CpuLoads'
  BY <1>5 DEF FinishArm, server, CpuLoads
<1>6. ASSUME NEW readable \in BOOLEAN, NEW complete \in BOOLEAN, Observe(readable, complete)
      PROVE  CpuLoads'
  BY <1>6 DEF Observe, server, CpuLoads
<1>7. CASE Analyse
  BY <1>7 DEF Analyse, server, CpuLoads
<1>8. CASE UNCHANGED placement_vars
  BY <1>8 DEF placement_vars, server, run, CpuLoads
<1>9. QED
  BY <1>1, <1>2, <1>3, <1>4, <1>5, <1>6, <1>7, <1>8 DEF PlacementNext, Process

LEMMA CpuLoadsInvariant == PlacementSpec => []CpuLoads
  BY InitCpuLoads, NextCpuLoads, TypedInvariant, PTL DEF PlacementSpec

LEMMA MismatchStep ==
  ASSUME Typed, CpuLoads, PlacementNext, rejection' # rejection,
         rejection' = "placement_mismatch", requested = "cpu"
  PROVE  \E m \in Models : resident[m] # Absent
                         /\ resident[m].origin = "earlier" /\ resident[m].device = "gpu"
<1>1. PICK readable \in BOOLEAN, complete \in BOOLEAN : Observe(readable, complete)
  BY DEF PlacementNext, Process, Evict, Reject, Call, CallFails, FinishArm, Analyse, Server, run
<1>2. pc = "observe" /\ AnyOnGpu # (requested = "gpu")
  BY <1>1 DEF Observe, Reject
<1>3. (requested = "gpu") = FALSE /\ AnyOnGpu \in BOOLEAN
  BY DEF AnyOnGpu
<1>4. AnyOnGpu
  BY <1>2, <1>3
<1>5. QED
  <2>1. PICK m \in Models : resident[m] # Absent /\ resident[m].device = "gpu"
    BY <1>4 DEF AnyOnGpu
  <2>2. resident[m].origin = "earlier"
    BY <1>2, <2>1 DEF CpuLoads
  <2>3. QED BY <2>1, <2>2

\* A CPU run is never rejected for its own loads.
THEOREM MismatchIsALeftover == PlacementSpec => CpuMismatchIsALeftover
<1>1. Typed /\ CpuLoads /\ [PlacementNext]_placement_vars =>
        [ rejection' # rejection /\ rejection' = "placement_mismatch" /\ requested = "cpu" =>
            \E m \in Models : resident[m] # Absent
                           /\ resident[m].origin = "earlier" /\ resident[m].device = "gpu" ]_placement_vars
  BY MismatchStep
<1>2. QED BY <1>1, TypedInvariant, CpuLoadsInvariant, PTL DEF PlacementSpec, CpuMismatchIsALeftover

=============================================================================
