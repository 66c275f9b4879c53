------------------------------ MODULE Preflight ------------------------------
(***************************************************************************)
(* scripts/preflight_placement.py against an Ollama server: for each of    *)
(* the generation, verification and embedding models, evict it, wait until *)
(* /api/ps no longer lists it, load it with a synthetic call, and confirm  *)
(* the device it is on; then, whatever happened, evict all three and wait  *)
(* again.  The waits are OllamaClient.wait_until_unloaded: a deadline, and *)
(* failed polls that count neither way.                                    *)
(*                                                                         *)
(* Any call may fail.  Time passes in poll intervals; a poll may take long *)
(* to answer, its own timeout being far above the wait.  An interrupt of   *)
(* the cleanup itself is left out: it ends the script without a report.    *)
(***************************************************************************)
EXTENDS Ollama, Naturals, Sequences

CONSTANTS
  Stages,     \* the models in the order they are checked
  Timeout,    \* UNLOAD_TIMEOUT_SECONDS, in poll intervals
  Overrun,    \* bound on the time a poll is answered after the timeout
  NoReport

VARIABLES
  placement,  \* --placement
  step,
  stage,      \* index of the model being checked, or evicted at the end
  elapsed,    \* when the current poll of the wait is answered, or its last was
  confirmed,  \* the copies check_model confirmed
  outcome,    \* report["result"], until the exit is known
  report      \* the report that was written

script == <<placement, step, stage, elapsed, confirmed, outcome, report>>
preflight_vars == <<server, script>>

ASSUME PreflightConstants ==
  /\ Stages \in Seq(Models) /\ Stages # <<>>
  /\ Models = {Stages[i] : i \in DOMAIN Stages}
  /\ Embedding \in Models
  /\ Timeout \in Nat /\ Overrun \in Nat

Expected(m) == IF m = Embedding THEN "cpu" ELSE placement

PreflightInit ==
  /\ ServerInit
  /\ placement \in Devices
  /\ step = "evict"
  /\ stage = 1
  /\ elapsed = 0
  /\ confirmed = {}
  /\ outcome = "none"
  /\ report = NoReport

(***************************************************************************)
(* Waiting                                                                 *)
(***************************************************************************)

\* Mutant of Cleared: an unanswered question is an answer of no.
ClearedUnlessSeen(targets, answered) ==
  ~answered \/ \A m \in targets : resident[m] = Absent

\* Mutant of Cleared: one of the targets is gone.
ClearedOnce(targets, answered) ==
  answered /\ \E m \in targets : resident[m] = Absent

\* A successful observation in which every target is gone.
Cleared(targets, answered) ==
  answered /\ \A m \in targets : resident[m] = Absent

\* Mutant of NextAnswer: a poll that fails restarts the budget.
NextAnswerSince(answered) == (IF answered THEN elapsed + 1 ELSE 0)..(Timeout + Overrun)

\* When the poll after this one may be answered.
NextAnswer(answered) == (elapsed + 1)..(Timeout + Overrun)

\* A poll that ends nothing: sleep, and poll again.
PollAgain(targets, answered) ==
  /\ ~Cleared(targets, answered) /\ elapsed < Timeout
  /\ elapsed' \in NextAnswer(answered)

GaveUp(targets, answered) == ~Cleared(targets, answered) /\ elapsed >= Timeout

(***************************************************************************)
(* The checks                                                              *)
(***************************************************************************)
Model == Stages[stage]

\* The check is over, or raises; the `finally` block takes over.
Finish(result) ==
  /\ outcome' = result
  /\ step' = "cleanup"
  /\ stage' = 1
  /\ elapsed' = 0

EvictStage ==
  /\ step = "evict"
  /\ \/ /\ unloading' = Evicting(Model)
        /\ step' = "wait"
        /\ elapsed' \in 0..(Timeout + Overrun)
        /\ UNCHANGED <<stage, outcome>>
     \/ /\ unloading' \in {unloading, Evicting(Model)}
        /\ Finish("fail")
  /\ UNCHANGED <<resident, abandoned, placement, confirmed, report>>

PollStage(answered) ==
  /\ step = "wait"
  /\ \/ /\ Cleared({Model}, answered)
        /\ step' = "load"
        /\ UNCHANGED <<stage, elapsed, outcome>>
     \/ PollAgain({Model}, answered) /\ UNCHANGED <<step, stage, outcome>>
     \/ GaveUp({Model}, answered) /\ Finish("fail")
  /\ UNCHANGED <<server, placement, confirmed, report>>

\* The synthetic call.  One that fails may have reached the server.
Load(device) ==
  /\ step = "load"
  /\ \/ /\ resident' = Loaded(Model, device, "own")
        /\ step' = "observe"
        /\ UNCHANGED <<abandoned, stage, elapsed, outcome>>
     \/ /\ abandoned' \in {abandoned, abandoned \cup {Model}}
        /\ Finish("fail")
        /\ UNCHANGED resident
  /\ UNCHANGED <<unloading, placement, confirmed, report>>

LastStage == stage = Len(Stages)

\* The model is listed, with a numeric size_vram, on the device expected of it.
Confirm(reported) ==
  /\ reported
  /\ resident[Model] # Absent
  /\ resident[Model].device = Expected(Model)

ObserveStage(reported) ==
  /\ step = "observe"
  /\ \/ /\ Confirm(reported)
        /\ confirmed' = confirmed \cup {[model |-> Model, copy |-> resident[Model]]}
        /\ IF LastStage
           THEN Finish("pass")
           ELSE /\ stage' = stage + 1
                /\ step' = "evict"
                /\ UNCHANGED <<elapsed, outcome>>
     \/ ~Confirm(reported) /\ Finish("fail") /\ UNCHANGED confirmed
  /\ UNCHANGED <<server, placement, report>>

\* Control-C, or an exception that is no LLMError: the `finally` block still
\* runs, but no report is written after it.
Interrupt ==
  /\ step \in {"evict", "wait", "load", "observe"}
  /\ abandoned' \in {abandoned, IF step = "load" THEN abandoned \cup {Model} ELSE abandoned}
  /\ Finish("none")
  /\ UNCHANGED <<resident, unloading, placement, confirmed, report>>

(***************************************************************************)
(* The exit                                                                *)
(***************************************************************************)

\* One eviction request of the cleanup; its failure is noted and passed over.
CleanUp ==
  /\ step = "cleanup"
  /\ unloading' \in {unloading, Evicting(Model)}
  /\ IF LastStage
     THEN /\ step' = "exit"
          /\ elapsed' \in 0..(Timeout + Overrun)
          /\ UNCHANGED stage
     ELSE /\ stage' = stage + 1
          /\ UNCHANGED <<step, elapsed>>
  /\ UNCHANGED <<resident, abandoned, placement, confirmed, outcome, report>>

\* A dirty exit is a failure in its own right.
Written(cleared) ==
  [result |-> IF cleared THEN outcome ELSE "fail", cleanExit |-> cleared]

\* A poll that raises anything but LLMError also ends the wait.
Exit(cleared) ==
  /\ step' = "done"
  /\ report' = IF outcome = "none" THEN NoReport ELSE Written(cleared)
  /\ UNCHANGED elapsed

PollExit(answered) ==
  /\ step = "exit"
  /\ \/ Cleared(Models, answered) /\ Exit(TRUE)
     \/ PollAgain(Models, answered) /\ UNCHANGED <<step, report>>
     \/ GaveUp(Models, answered) /\ Exit(FALSE)
     \/ ~answered /\ Exit(FALSE)
  /\ UNCHANGED <<server, placement, stage, confirmed, outcome>>

PreflightProcess ==
  \/ EvictStage
  \/ \E answered \in BOOLEAN : PollStage(answered)
  \/ \E device \in Devices : Load(device)
  \/ \E reported \in BOOLEAN : ObserveStage(reported)
  \/ CleanUp
  \/ \E answered \in BOOLEAN : PollExit(answered)

PreflightNext ==
  \/ PreflightProcess
  \/ Interrupt
  \/ ServerStep /\ UNCHANGED script

\* Every HTTP call carries a timeout, so the process never stops for ever in one.
\* Nothing is assumed of the server.
PreflightSpec == PreflightInit /\ [][PreflightNext]_preflight_vars /\ WF_preflight_vars(PreflightProcess)

(***************************************************************************)
(* Properties                                                              *)
(***************************************************************************)
PreflightTypeOK ==
  /\ ServerTypeOK
  /\ placement \in Devices
  /\ step \in {"evict", "wait", "load", "observe", "cleanup", "exit", "done"}
  /\ stage \in 1..Len(Stages)
  /\ elapsed \in 0..(Timeout + Overrun)
  /\ confirmed \subseteq [model : Models, copy : Copy]
  /\ outcome \in {"none", "pass", "fail"}
  /\ report \in {NoReport} \cup [result : {"pass", "fail"}, cleanExit : BOOLEAN]

\* "A resident model keeps the placement it was loaded with" (llm_client.py:262):
\* what the preflight confirms is the placement of its own call, never that of a
\* copy left over from before, however slowly the server evicts and whichever
\* polls fail.
ConfirmedCopiesAreFresh ==
  \A c \in confirmed :
    c.copy.origin = "own" /\ c.copy.device = Expected(c.model)

\* A pass was earned by every model, and the preflight does not warm the run that
\* follows it (preflight_placement.py:34): nothing of it is resident after it.
PassIsProven ==
  report # NoReport /\ report.result = "pass" =>
    /\ {c.model : c \in confirmed} = Models
    /\ \A m \in Models : resident[m] = Absent

\* A clean exit on record is one, even of a failed preflight: only a load that
\* the server completes after its caller gave up can be resident.
CleanExitIsTrue ==
  report # NoReport /\ report.cleanExit =>
    \A m \in Models : resident[m] # Absent => resident[m].origin = "late"

\* The preflight ends, though evictions are ignored and every poll fails.
Termination == <>(step = "done")
=============================================================================
