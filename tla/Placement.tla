----------------------------- MODULE Placement -----------------------------
(***************************************************************************)
(* A performance run of scripts/run_arms.py against an Ollama server, and  *)
(* the verdict of scripts/analyse_performance.py on it.  The run asks for  *)
(* one device, requests the eviction of its three models, times arm B      *)
(* (embed the question, generate a draft) and then arm D (verify B's       *)
(* draft), and reads the residency of the models after each arm, once for  *)
(* the arm's summary and once to decide whether to go on.  The analysis    *)
(* believes the run, or not, from the summaries.                           *)
(*                                                                         *)
(* A model is on one device: a partial offload is left out.  Absent or     *)
(* non-numeric sizes are an unreported residency.                          *)
(***************************************************************************)
EXTENDS Ollama, Naturals, Sequences

CONSTANTS
  Generation, Verification,
  Questions   \* how many the split has

VARIABLES
  requested,  \* --placement
  pc,
  evicted,    \* how many evictions have been requested
  arm,
  calls,      \* how many calls the arm has made
  timed,      \* arm -> the copies that served its calls
  moved,      \* arms during which a model that had served them left memory
  evidence,   \* arm -> environment_at_end of its summary: what is loaded, where
  rejection,  \* the reason of the rejection record
  verdict     \* of the analysis

run == <<requested, evicted, arm, calls, timed, evidence, rejection, verdict>>
placement_vars == <<server, run, pc, moved>>

ASSUME PlacementConstants ==
  /\ Models = {Generation, Verification, Embedding}
  /\ Embedding \notin {Generation, Verification}
  /\ Questions \in Nat \ {0}

Arms == {"B", "D"}

ToEvict == <<Generation, Verification, Embedding>>

PlacementInit ==
  /\ ServerInit
  /\ requested \in Devices
  /\ pc = "evict"
  /\ evicted = 0
  /\ arm = "B"
  /\ calls = 0
  /\ timed = [a \in Arms |-> {}]
  /\ moved = {}
  /\ evidence = [a \in Arms |-> {}]
  /\ rejection = "none"
  /\ verdict = "none"

\* write_rejection, and the process returns 1.
Reject(reason) ==
  /\ rejection' = reason
  /\ pc' = "rejected"

(***************************************************************************)
(* The run                                                                 *)
(***************************************************************************)
Evict ==
  /\ pc = "evict"
  /\ LET m == ToEvict[evicted + 1]
     IN \/ /\ unloading' = Evicting(m)
           /\ evicted' = evicted + 1
           /\ pc' = IF evicted' = Len(ToEvict) THEN "call" ELSE "evict"
           /\ UNCHANGED rejection
        \/ /\ unloading' \in {unloading, Evicting(m)}
           /\ Reject("eviction_failed")
           /\ UNCHANGED evicted
  /\ UNCHANGED <<resident, abandoned, requested, arm, calls, timed, moved, evidence, verdict>>

\* The model an arm's next call is for: D replays B's drafts, so it only verifies.
Callee ==
  CASE arm = "D" -> Verification
    [] arm = "B" /\ calls % 2 = 0 -> Embedding
    [] arm = "B" /\ calls % 2 = 1 -> Generation

CallsPerArm == [B |-> 2 * Questions, D |-> Questions]

LastCall == calls + 1 = CallsPerArm[arm]

\* Mutant of LoadDevices: an embedding call posts no options.
LoadDevicesWithoutPin(m) ==
  IF requested = "cpu" /\ m # Embedding THEN {"cpu"} ELSE Devices

\* num_gpu 0 keeps a model off the GPU; any other value leaves it to the server.
LoadDevices(m) ==
  IF requested = "cpu" \/ m = Embedding THEN {"cpu"} ELSE Devices

Call(device) ==
  /\ pc = "call"
  /\ device \in LoadDevices(Callee)
  /\ resident' = Loaded(Callee, device, "own")
  /\ timed' = [timed EXCEPT ![arm] = @ \cup {[model |-> Callee, copy |-> resident'[Callee]]}]
  /\ calls' = calls + 1
  /\ pc' = IF LastCall THEN "finish" ELSE "call"
  /\ UNCHANGED <<unloading, abandoned, requested, evicted, arm, moved, evidence, rejection, verdict>>

\* A call that fails ends the process, and may have reached the server.
CallFails ==
  /\ pc = "call"
  /\ pc' = "dead"
  /\ abandoned' \in {abandoned, abandoned \cup {Callee}}
  /\ UNCHANGED <<resident, unloading, run, moved>>

Residency ==
  {[model |-> m, device |-> resident[m].device] : m \in {n \in Models : resident[n] # Absent}}

\* A residency that cannot be read is recorded as an empty one.
FinishArm(reported) ==
  /\ pc = "finish"
  /\ evidence' = [evidence EXCEPT ![arm] = IF reported THEN Residency ELSE {}]
  /\ pc' = "observe"
  /\ UNCHANGED <<server, requested, evicted, arm, calls, timed, moved, rejection, verdict>>

AnyOnGpu == \E m \in Models : resident[m] # Absent /\ resident[m].device = "gpu"

\* The residency after the arm: unreadable, incomplete, or compared.
Observe(readable, complete) ==
  /\ pc = "observe"
  /\ \/ ~readable /\ Reject("residency_unreadable") /\ UNCHANGED <<arm, calls>>
     \/ readable /\ ~complete /\ Reject("residency_incomplete") /\ UNCHANGED <<arm, calls>>
     \/ /\ readable /\ complete /\ AnyOnGpu # (requested = "gpu")
        /\ Reject("placement_mismatch")
        /\ UNCHANGED <<arm, calls>>
     \/ /\ readable /\ complete /\ AnyOnGpu = (requested = "gpu")
        /\ IF arm = "D"
           THEN pc' = "published" /\ UNCHANGED <<arm, calls>>
           ELSE pc' = "call" /\ arm' = "D" /\ calls' = 0
        /\ UNCHANGED rejection
  /\ UNCHANGED <<server, requested, evicted, timed, moved, evidence, verdict>>

(***************************************************************************)
(* The analysis                                                            *)
(***************************************************************************)

\* Mutant of StageModel: every arm is judged by the generator.
GeneratorModel(a) == Generation

\* The model whose work an arm times.
StageModel(a) == IF a = "B" THEN Generation ELSE Verification

\* The placement checks of validate, for one arm.  The others hold of every run
\* that reaches the end.
PlacementHolds(a) ==
  /\ \E e \in evidence[a] : e.model = StageModel(a)
  /\ CASE requested = "cpu" -> \A e \in evidence[a] : e.device = "cpu"
       [] requested = "gpu" ->
            \A e \in evidence[a] : e.model = StageModel(a) => e.device = "gpu"

Analyse ==
  /\ pc = "published"
  /\ verdict' = IF \A a \in Arms : PlacementHolds(a) THEN "valid" ELSE "refused"
  /\ pc' = "analysed"
  /\ UNCHANGED <<server, requested, evicted, arm, calls, timed, moved, evidence, rejection>>

(***************************************************************************)
(* The server, meanwhile                                                   *)
(***************************************************************************)
Server ==
  /\ ServerStep
  /\ moved' = IF /\ pc \in {"call", "finish"}
                 /\ \E t \in timed[arm] : resident'[t.model] # t.copy
              THEN moved \cup {arm}
              ELSE moved
  /\ UNCHANGED <<run, pc>>

Process ==
  \/ Evict
  \/ \E device \in Devices : Call(device)
  \/ CallFails
  \/ \E reported \in BOOLEAN : FinishArm(reported)
  \/ \E readable, complete \in BOOLEAN : Observe(readable, complete)
  \/ Analyse

PlacementNext == Process \/ Server

PlacementSpec == PlacementInit /\ [][PlacementNext]_placement_vars

(***************************************************************************)
(* Properties                                                              *)
(***************************************************************************)
PlacementTypeOK ==
  /\ ServerTypeOK
  /\ requested \in Devices
  /\ pc \in {"evict", "call", "finish", "observe", "published", "analysed", "rejected", "dead"}
  /\ evicted \in 0..Len(ToEvict)
  /\ arm \in Arms
  /\ calls \in 0..CallsPerArm[arm]
  /\ timed \in [Arms -> SUBSET [model : Models, copy : Copy]]
  /\ moved \subseteq Arms
  /\ evidence \in [Arms -> SUBSET [model : Models, device : Devices]]
  /\ rejection \in {"none", "eviction_failed", "residency_unreadable",
                    "residency_incomplete", "placement_mismatch"}
  /\ verdict \in {"none", "valid", "refused"}

TimedModel == [B |-> Generation, D |-> Verification]

\* Whose device a condition names: with "cpu" everything's, with "gpu" that of
\* the model the arm times.
Named(a, m) == requested = "cpu" \/ m = TimedModel[a]

\* The residency is read once, when an arm is over, and speaks for all of its
\* calls (analyse_performance.py:309).  That is sound as long as no model that
\* served the arm left memory before the reading: then whatever was resident
\* before the run, and whichever evictions were not carried out, every call of a
\* valid run ran on the requested device.
ValidArmsRanAsRequested ==
  verdict = "valid" =>
    \A a \in Arms \ moved : \A t \in timed[a] :
      Named(a, t.model) => t.copy.device = requested

\* A CPU run that is rejected for a placement mismatch (run_arms.py:454) never
\* accuses its own loads: a copy from before the run outlived its eviction.
CpuMismatchIsALeftover ==
  [][ rejection' # rejection /\ rejection' = "placement_mismatch" /\ requested = "cpu" =>
        \E m \in Models : resident[m] # Absent
                         /\ resident[m].origin = "earlier" /\ resident[m].device = "gpu" ]_placement_vars

=============================================================================
