------------------------------- MODULE Ollama -------------------------------
(***************************************************************************)
(* The Ollama server as common/llm_client.py describes it: a model that is *)
(* resident keeps the placement it was loaded with; an eviction is a       *)
(* request, carried out when the server likes, or never; the server drops  *)
(* a model of its own accord; and a load whose caller gave up may still    *)
(* complete.  One client loads models at a time.                           *)
(***************************************************************************)
CONSTANTS
  Models,
  Embedding,  \* the one that is always asked for on the CPU
  Absent      \* the model is not resident

VARIABLES
  resident,   \* model -> its copy in memory
  unloading,  \* evictions that were accepted and have not been carried out
  abandoned   \* loads whose caller gave up on them

server == <<resident, unloading, abandoned>>

Devices == {"cpu", "gpu"}

\* `origin`: a copy from before the client began, of a call of its own, or of a
\* call it had given up on.
Copy == [device : Devices, origin : {"earlier", "own", "late"}]

ASSUME AbsentIsNoCopy == Absent \notin Copy

ServerInit ==
  /\ resident \in [Models -> {Absent} \cup [device : Devices, origin : {"earlier"}]]
  /\ unloading = {}
  /\ abandoned = {}

Drop(m) ==
  /\ resident[m] # Absent
  /\ resident' = [resident EXCEPT ![m] = Absent]

\* An accepted eviction takes effect.
Unload(m) ==
  /\ m \in unloading
  /\ Drop(m)
  /\ unloading' = unloading \ {m}
  /\ UNCHANGED abandoned

\* Retention ends, or the memory is needed.
Expire(m) ==
  /\ Drop(m)
  /\ UNCHANGED <<unloading, abandoned>>

Loaded(m, device, origin) ==
  IF resident[m] = Absent
  THEN [resident EXCEPT ![m] = [device |-> device, origin |-> origin]]
  ELSE resident

LateLoad(m, device) ==
  /\ m \in abandoned
  /\ abandoned' = abandoned \ {m}
  /\ resident' = Loaded(m, device, "late")
  /\ UNCHANGED unloading

\* unload(m) reaches the server, which has something to evict or has not.
Evicting(m) == IF resident[m] = Absent THEN unloading ELSE unloading \cup {m}

ServerStep ==
  \E m \in Models :
    \/ Unload(m)
    \/ Expire(m)
    \/ \E device \in Devices : LateLoad(m, device)

ServerTypeOK ==
  /\ resident \in [Models -> Copy \cup {Absent}]
  /\ unloading \subseteq Models
  /\ abandoned \subseteq Models
=============================================================================
