----------------------------- MODULE Dashboard -----------------------------
(***************************************************************************)
(* demo/server.py and demo/live.py under scripts/dashboard.py: the process *)
(* loads the replay library, then serves each request in a thread of its   *)
(* own.  The live pipeline is built on first use, under a lock, from the   *)
(* files then on disk, once; a failed build is never retried.  The index   *)
(* file and the Ollama server change under the running process;            *)
(* config.json does not.  What a pipeline answers is abstracted to the     *)
(* index it searches.                                                      *)
(***************************************************************************)
EXTENDS ReplayLibrary

CONSTANTS
  Requests,   \* one thread each
  Main,       \* the thread of main, which asks live_status before it serves
  Nobody      \* holder of a free lock; also: no pipeline, no answer

VARIABLES
  index,      \* the index file: "frozen", "rebuilt", "other", or Absent (or torn)
  model_ready,\* whether Ollama is reachable and has the models
  live,       \* _live: Nobody, or the index it was loaded from
  live_error, \* whether live_error is set
  lock,       \* who holds _live_lock
  builds,     \* how many builds have begun
  thread      \* thread -> its program counter and locals

world == <<index, model_ready>>
pipeline == <<live, live_error, lock, builds>>
vars == <<replayVars, world, pipeline, thread>>

Threads == Requests \cup {Main}
Loadable == {"frozen", "rebuilt", "other"}
Indexes == Loadable \cup {Absent}

ASSUME DashboardConstants == Nobody \notin Threads \cup Loadable

\* "form" is GET /live, with a question or without, and a blank POST.
Kinds == {"landing", "form", "question", "malformed", "replay", "unknown"}
NoPage == [code |-> 0, answer |-> Nobody, error |-> FALSE]
NoLocals == [ready |-> FALSE, agreement |-> Absent, again |-> FALSE]

NewThread(pc, kind) ==
  [pc |-> pc, kind |-> kind, local |-> NoLocals, page |-> NoPage]

\* scripts/dashboard.py asks live_status first; a server made by build_server
\* alone, as the tests make it, serves at once.
Init ==
  /\ ReplayInit
  /\ index \in Indexes
  /\ model_ready \in BOOLEAN
  /\ live = Nobody /\ live_error = FALSE /\ lock = Nobody /\ builds = 0
  /\ \E start \in {"enter", "done"} :
       thread = [t \in Threads |->
                   IF t = Main THEN NewThread(start, "startup")
                               ELSE NewThread("none", "startup")]

Serving == outcome \in {"ready", "unavailable"} /\ thread[Main].pc = "done"

Goto(t, pc) == thread' = [thread EXCEPT ![t].pc = pc]

\* The status is remembered beside an answer; no property reads it elsewhere.
Reply(t, code, answer, error) ==
  thread' = [thread EXCEPT ![t].pc = "done",
               ![t].local = IF answer = Nobody THEN NoLocals ELSE @,
               ![t].page = [code |-> code, answer |-> answer, error |-> error]]

At(t, pc) == outcome \in {"ready", "unavailable"} /\ thread[t].pc = pc

(***************************************************************************)
(* The world                                                               *)
(***************************************************************************)
ChangeWorld ==
  /\ outcome # "loading"
  /\ \/ index' \in Indexes \ {index} /\ UNCHANGED model_ready
     \/ model_ready' = ~model_ready /\ UNCHANGED index
  /\ UNCHANGED <<replayVars, pipeline, thread>>

(***************************************************************************)
(* A request                                                               *)
(***************************************************************************)
Arrive(t) ==
  /\ Serving
  /\ thread[t].pc = "none"
  /\ \E k \in Kinds :
       thread' = [thread EXCEPT ![t].kind = k,
         ![t].pc = CASE k = "replay" -> "replay"
                     [] k = "unknown" -> "unknown"
                     [] k = "malformed" -> "dropped"   \* int() or decode() raises
                     [] OTHER -> "enter"]
  /\ UNCHANGED <<replayVars, world, pipeline>>

NotFound(t) ==
  /\ At(t, "unknown")
  /\ Reply(t, 404, Nobody, FALSE)
  /\ UNCHANGED <<replayVars, world, pipeline>>

\* A plausible bug: one lock guards the whole state.
ReplayUnderLock(t) ==
  /\ At(t, "replay")
  /\ lock = Nobody
  /\ Reply(t, IF outcome = "ready" THEN 200 ELSE 503, Nobody, FALSE)
  /\ UNCHANGED <<replayVars, world, pipeline>>

Replay(t) ==
  /\ At(t, "replay")
  /\ Reply(t, IF outcome = "ready" THEN 200 ELSE 503, Nobody, FALSE)
  /\ UNCHANGED <<replayVars, world, pipeline>>

\* A plausible bug: live() takes no lock.
NeverHeld == TRUE

LockIsFree == lock = Nobody

Settled == live # Nobody \/ live_error

\* Where live() returns to: the answer, or live_status.
Return(t, assistant) ==
  Goto(t, CASE thread[t].local.again -> "answer"
            [] assistant = Nobody -> "render"
            [] OTHER -> "status")

\* live(), when there is nothing to build.
ReuseLive(t) ==
  /\ At(t, "enter")
  /\ LockIsFree
  /\ Settled
  /\ Return(t, live)
  /\ UNCHANGED <<replayVars, world, pipeline>>

\* live(), when the pipeline is to be built: the lock is taken ...
BeginBuild(t) ==
  /\ At(t, "enter")
  /\ LockIsFree
  /\ ~Settled
  /\ lock' = t
  /\ builds' = builds + 1
  /\ Goto(t, "build")
  /\ UNCHANGED <<replayVars, world, live, live_error>>

\* A plausible bug: a build that fails keeps the lock.
BuildKeepsLock(t) ==
  /\ At(t, "build")
  /\ IF index = Absent
     THEN live_error' = TRUE /\ UNCHANGED <<live, lock>>
     ELSE live' = index /\ lock' = Nobody /\ UNCHANGED live_error
  /\ Return(t, live')
  /\ UNCHANGED <<replayVars, world, builds>>

\* ... and released after the build from the file as it is by then.
Build(t) ==
  /\ At(t, "build")
  /\ IF index = Absent
     THEN live_error' = TRUE /\ UNCHANGED live
     ELSE live' = index /\ UNCHANGED live_error
  /\ lock' = Nobody
  /\ Return(t, live')
  /\ UNCHANGED <<replayVars, world, builds>>

\* A plausible bug: the recipe is read from the file on disk.
RecipeOnDisk == index

\* The build recipe in the metadata of the index that was loaded.
Recipe == live

SourceMatches(ix) == ix \in {"frozen", "rebuilt"}

\* frozen_arm_d_agreement: the metadata are the loaded index's, the digest is
\* of the file that is on disk now.
FrozenAgreement ==
  IF outcome # "ready" THEN Absent
  ELSE [source |-> SourceMatches(Recipe), identical |-> index = "frozen"]

\* model_status, and the agreement.
Status(t) ==
  /\ At(t, "status")
  /\ thread' = [thread EXCEPT ![t].pc = "render",
       ![t].local = [@ EXCEPT !.ready = model_ready, !.agreement = FrozenAgreement]]
  /\ UNCHANGED <<replayVars, world, pipeline>>

\* executable and the question is not blank: it came by POST.
Executes(kind) == kind = "question"

\* _live after the status: ask the pipeline, or render the page.
Ask(t) ==
  /\ At(t, "render")
  /\ Executes(thread[t].kind) /\ thread[t].local.ready
  /\ thread' = [thread EXCEPT ![t].local.again = TRUE, ![t].pc = "enter"]
  /\ UNCHANGED <<replayVars, world, pipeline>>

Render(t) ==
  /\ At(t, "render")
  /\ ~(Executes(thread[t].kind) /\ thread[t].local.ready)
  /\ Reply(t, 200, Nobody, Executes(thread[t].kind))
  /\ UNCHANGED <<replayVars, world, pipeline>>

\* retrieve, draft and verify: any of them may raise, and the page says so.
Answer(t) ==
  /\ At(t, "answer")
  /\ \/ model_ready /\ Reply(t, 200, live, FALSE)
     \/ Reply(t, 200, Nobody, TRUE)
  /\ UNCHANGED <<replayVars, world, pipeline>>

Step(t) ==
  \/ NotFound(t) \/ Replay(t) \/ ReuseLive(t) \/ BeginBuild(t)
  \/ Status(t) \/ Ask(t) \/ Render(t) \/ Answer(t)

Load == LoadStep /\ UNCHANGED <<world, pipeline, thread>>

Next ==
  \/ Load
  \/ ChangeWorld
  \/ \E t \in Requests : Arrive(t)
  \/ \E t \in Threads : Step(t) \/ Build(t)

\* A thread runs until it is done: a model call has a timeout.  Nothing bounds
\* a build, and a request may never come.
Fairness == \A t \in Threads : WF_vars(Step(t))

Spec == Init /\ [][Next]_vars /\ Fairness

-----------------------------------------------------------------------------
(* Requests race for the pipeline; it is built at most once, and a build   *)
(* that failed is never retried (DashboardState.live).                     *)
BuiltAtMostOnce == builds <= 1 /\ ~(live # Nobody /\ live_error)

(* The agreement a page shows is of the pipeline that answered on it,      *)
(* though the index file was replaced in between: source_matches is about  *)
(* the index that was searched (LiveAssistant.frozen_arm_d_agreement).     *)
VerdictIsOfTheAnswer ==
  \A t \in Threads :
    thread[t].page.answer # Nobody /\ thread[t].local.agreement # Absent =>
      thread[t].local.agreement.source = SourceMatches(thread[t].page.answer)

(* A replay request is answered whatever the live side does: it never      *)
(* waits for the lock, though a build may take forever (_replay).          *)
ReplayNeverWaits ==
  \A t \in Requests : thread[t].pc = "replay" ~> thread[t].pc = "done"

(* Every other request is answered too, or a build is never done: no path  *)
(* leaves the lock taken (live, live_status, _live).                       *)
LiveWaitsOnlyForABuild ==
  \A t \in Requests :
    thread[t].pc = "enter" ~>
      (thread[t].pc = "done" \/ \E u \in Threads : thread[u].pc = "build")
=============================================================================
