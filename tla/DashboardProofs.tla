-------------------------- MODULE DashboardProofs --------------------------
(***************************************************************************)
(* Theorems about Dashboard, for any number of requests, and about the     *)
(* replay library it loads, for any runs and any questions.                *)
(***************************************************************************)
EXTENDS Dashboard, TLAPS

USE DashboardConstants DEF DashboardConstants

-----------------------------------------------------------------------------
(* Type correctness                                                        *)

Agreement == {Absent} \cup [source : BOOLEAN, identical : BOOLEAN]
Locals == [ready : BOOLEAN, agreement : Agreement, again : BOOLEAN]
Page == [code : Nat, answer : Loadable \cup {Nobody}, error : BOOLEAN]
Counters ==
  {"none", "enter", "done", "replay", "unknown", "dropped", "build", "status",
   "render", "answer"}
Thread == [pc : Counters, kind : Kinds \cup {"startup"}, local : Locals, page : Page]

TypeOK ==
  /\ index \in Indexes
  /\ model_ready \in BOOLEAN
  /\ live \in Loadable \cup {Nobody}
  /\ live_error \in BOOLEAN
  /\ builds \in Nat
  /\ thread \in [Threads -> Thread]

LEMMA BlankPages == NoLocals \in Locals /\ NoPage \in Page
  BY DEF NoLocals, Locals, Agreement, NoPage, Page

\* Replacing one thread's counter, or its counter and its page.
LEMMA GotoType ==
  ASSUME TypeOK, NEW t \in Threads, NEW pc \in Counters, Goto(t, pc)
  PROVE  thread' \in [Threads -> Thread]
  BY DEF TypeOK, Goto, Thread

LEMMA ReplyType ==
  ASSUME TypeOK, NEW t \in Threads, NEW code \in Nat,
         NEW answer \in Loadable \cup {Nobody}, NEW error \in BOOLEAN,
         Reply(t, code, answer, error)
  PROVE  thread' \in [Threads -> Thread]
<1> DEFINE page == [code |-> code, answer |-> answer, error |-> error]
           local == IF answer = Nobody THEN NoLocals ELSE thread[t].local
<1>1. page \in Page
  BY DEF Page
<1>2. thread \in [Threads -> Thread] /\ thread[t] \in Thread
  BY DEF TypeOK
<1>3. local \in Locals
  BY <1>2, BlankPages DEF Thread
<1>4. thread' = [thread EXCEPT ![t].pc = "done", ![t].local = local, ![t].page = page]
  BY DEF Reply
<1> HIDE DEF page, local
<1>5. QED BY <1>1, <1>2, <1>3, <1>4 DEF Thread, Counters

LEMMA NotFoundType ==
  ASSUME TypeOK, NEW t \in Threads, NotFound(t)
  PROVE  thread' \in [Threads -> Thread]
<1>1. Reply(t, 404, Nobody, FALSE)
  BY DEF NotFound
<1>2. 404 \in Nat /\ Nobody \in Loadable \cup {Nobody} /\ FALSE \in BOOLEAN
  OBVIOUS
<1>3. QED BY <1>1, <1>2, ReplyType

LEMMA InitTyped == Init => TypeOK
<1> SUFFICES ASSUME Init PROVE TypeOK
  OBVIOUS
<1>1. \A pc \in {"enter", "done", "none"} : NewThread(pc, "startup") \in Thread
  BY BlankPages DEF NewThread, Thread, Counters
<1>2. thread \in [Threads -> Thread]
  BY <1>1 DEF Init
<1>3. QED BY <1>2 DEF Init, TypeOK

\* A page of the live side: where live() goes, and what it leaves.
LEMMA ReturnType ==
  ASSUME TypeOK, NEW t \in Threads, NEW assistant, Return(t, assistant)
  PROVE  thread' \in [Threads -> Thread]
<1>1. (CASE thread[t].local.again -> "answer"
         [] assistant = Nobody -> "render"
         [] OTHER -> "status") \in Counters
  BY DEF Counters
<1>2. QED BY <1>1, GotoType DEF Return

LEMMA NextTyped == TypeOK /\ [Next]_vars => TypeOK'
<1> SUFFICES ASSUME TypeOK, [Next]_vars PROVE TypeOK'
  OBVIOUS
<1> USE DEF world, pipeline
<1>1. CASE Load
  BY <1>1 DEF Load, TypeOK
<1>2. CASE ChangeWorld
  BY <1>2 DEF ChangeWorld, TypeOK, Indexes
<1>3. ASSUME NEW t \in Requests, Arrive(t) PROVE TypeOK'
  <2>1. PICK k \in Kinds : thread' = [thread EXCEPT ![t].kind = k,
         ![t].pc = CASE k = "replay" -> "replay"
                     [] k = "unknown" -> "unknown"
                     [] k = "malformed" -> "dropped"
                     [] OTHER -> "enter"]
    BY <1>3 DEF Arrive
  <2>2. PICK pc \in Counters : thread' = [thread EXCEPT ![t].kind = k, ![t].pc = pc]
    BY <2>1 DEF Counters
  <2>3. thread' \in [Threads -> Thread]
    BY <2>2 DEF TypeOK, Thread, Threads
  <2>4. QED BY <1>3, <2>3 DEF Arrive, TypeOK
<1>4. ASSUME NEW t \in Threads, Step(t) PROVE TypeOK'
  <2>1. CASE NotFound(t)
    <3>1. thread' \in [Threads -> Thread]
      BY <2>1, NotFoundType
    <3>2. QED BY <2>1, <3>1 DEF NotFound, TypeOK
  <2>2. CASE Replay(t)
    <3>1. (IF outcome = "ready" THEN 200 ELSE 503) \in Nat
      OBVIOUS
    <3>2. thread' \in [Threads -> Thread]
      BY <2>2, <3>1, ReplyType DEF Replay
    <3>3. QED BY <2>2, <3>2 DEF Replay, TypeOK
  <2>3. CASE ReuseLive(t)
    <3>1. thread' \in [Threads -> Thread]
      BY <2>3, ReturnType DEF ReuseLive
    <3>2. QED BY <2>3, <3>1 DEF ReuseLive, TypeOK
  <2>4. CASE BeginBuild(t)
    <3>1. "build" \in Counters
      BY DEF Counters
    <3>2. QED BY <2>4, <3>1, GotoType DEF BeginBuild, TypeOK
  <2>5. CASE Status(t)
    <3>0. thread[t] \in Thread /\ model_ready \in BOOLEAN
      BY DEF TypeOK
    <3>1. FrozenAgreement \in Agreement
      BY DEF FrozenAgreement, Agreement, SourceMatches
    <3> DEFINE local == [thread[t].local EXCEPT !.ready = model_ready,
                                                !.agreement = FrozenAgreement]
    <3>2. local \in Locals
      BY <3>0, <3>1 DEF Thread, Locals
    <3>3. thread' = [thread EXCEPT ![t].pc = "render", ![t].local = local]
      BY <2>5 DEF Status
    <3> HIDE DEF local
    <3>4. thread' \in [Threads -> Thread]
      BY <3>2, <3>3 DEF TypeOK, Thread, Counters
    <3>5. QED BY <2>5, <3>4 DEF Status, TypeOK
  <2>6. CASE Ask(t)
    <3> DEFINE local == [thread[t].local EXCEPT !.again = TRUE]
    <3>0. thread[t] \in Thread /\ local \in Locals
      BY DEF TypeOK, Thread, Locals
    <3>1. thread' \in [Threads -> Thread]
      <4>1. thread' = [thread EXCEPT ![t].local = local, ![t].pc = "enter"]
        BY <2>6, <3>0 DEF Ask, TypeOK, Thread, Locals
      <4> HIDE DEF local
      <4>2. QED BY <3>0, <4>1 DEF TypeOK, Thread, Counters
    <3>2. QED BY <2>6, <3>1 DEF Ask, TypeOK
  <2>7. CASE Render(t)
    <3>1. Executes(thread[t].kind) \in BOOLEAN
      BY DEF Executes
    <3>2. thread' \in [Threads -> Thread]
      BY <2>7, <3>1, ReplyType DEF Render
    <3>3. QED BY <2>7, <3>2 DEF Render, TypeOK
  <2>8. CASE Answer(t)
    <3>1. thread' \in [Threads -> Thread]
      BY <2>8, ReplyType DEF Answer, TypeOK
    <3>2. QED BY <2>8, <3>1 DEF Answer, TypeOK
  <2>9. QED BY <1>4, <2>1, <2>2, <2>3, <2>4, <2>5, <2>6, <2>7, <2>8 DEF Step
<1>5. ASSUME NEW t \in Threads, Build(t) PROVE TypeOK'
  <2>1. live' \in Loadable \cup {Nobody} /\ live_error' \in BOOLEAN
    BY <1>5 DEF Build, TypeOK, Indexes
  <2>2. thread' \in [Threads -> Thread]
    BY <1>5, ReturnType DEF Build
  <2>3. QED BY <1>5, <2>1, <2>2 DEF Build, TypeOK
<1>6. CASE UNCHANGED vars
  BY <1>6 DEF vars, TypeOK
<1>7. QED BY <1>1, <1>2, <1>3, <1>4, <1>5, <1>6 DEF Next

\* Every reachable state of the process, its threads included, is well typed
\* (DashboardState, Handler).
THEOREM TypeCorrect == Spec => []TypeOK
<1>1. QED BY InitTyped, NextTyped, PTL DEF Spec

-----------------------------------------------------------------------------
(* The lock                                                                *)

\* Who builds holds the lock, and holds it over an unsettled pipeline.
Locking ==
  /\ lock \in Threads \cup {Nobody}
  /\ \A t \in Threads : thread[t].pc = "build" => lock = t
  /\ lock # Nobody => ~Settled /\ builds = 1
  /\ lock = Nobody /\ ~Settled => builds = 0
  /\ Settled => builds = 1
  /\ ~(live # Nobody /\ live_error)

\* A step that touches neither lock nor pipeline, and starts no build.
LEMMA LockingKept ==
  ASSUME Locking, UNCHANGED pipeline,
         \A t \in Threads : thread'[t].pc = "build" => thread[t].pc = "build"
  PROVE  Locking'
  BY DEF Locking, pipeline, Settled

\* Where a step of a request leads.
LEMMA Moves ==
  ASSUME TypeOK, NEW t \in Threads, Step(t), ~BeginBuild(t)
  PROVE  /\ UNCHANGED pipeline
         /\ \A u \in Threads : thread'[u].pc = "build" => thread[u].pc = "build"
<1> USE DEF pipeline, TypeOK, Thread
<1>1. CASE NotFound(t)
  BY <1>1 DEF NotFound, Reply
<1>2. CASE Replay(t)
  BY <1>2 DEF Replay, Reply
<1>3. CASE ReuseLive(t)
  BY <1>3 DEF ReuseLive, Return, Goto
<1>4. CASE Status(t)
  BY <1>4 DEF Status
<1>5. CASE Ask(t)
  BY <1>5 DEF Ask
<1>6. CASE Render(t)
  BY <1>6 DEF Render, Reply
<1>7. CASE Answer(t)
  BY <1>7 DEF Answer, Reply
<1>8. QED BY <1>1, <1>2, <1>3, <1>4, <1>5, <1>6, <1>7 DEF Step

LEMMA NextLocking == TypeOK /\ Locking /\ [Next]_vars => Locking'
<1> SUFFICES ASSUME TypeOK, Locking, [Next]_vars PROVE Locking'
  OBVIOUS
<1>1. CASE Load
  BY <1>1, LockingKept DEF Load
<1>2. CASE ChangeWorld
  BY <1>2, LockingKept DEF ChangeWorld
<1>3. ASSUME NEW t \in Requests, Arrive(t) PROVE Locking'
  <2>1. \A u \in Threads : thread'[u].pc = "build" => thread[u].pc = "build"
    BY <1>3 DEF Arrive, Kinds, TypeOK, Thread, Threads
  <2>2. QED BY <1>3, <2>1, LockingKept DEF Arrive
<1>4. ASSUME NEW t \in Threads, Step(t) PROVE Locking'
  <2>1. CASE BeginBuild(t)
    <3>1. \A u \in Threads : thread'[u].pc = "build" => u = t
      BY <2>1 DEF BeginBuild, Goto, LockIsFree, Locking, TypeOK, Thread
    <3>2. lock' = t /\ builds' = 1 /\ ~Settled'
      BY <2>1 DEF BeginBuild, LockIsFree, Settled, Locking
    <3>3. QED BY <2>1, <3>1, <3>2 DEF Locking, BeginBuild, Settled
  <2>2. CASE ~BeginBuild(t)
    BY <1>4, <2>2, Moves, LockingKept
  <2>3. QED BY <2>1, <2>2
<1>5. ASSUME NEW t \in Threads, Build(t) PROVE Locking'
  <2>1. lock = t /\ builds = 1 /\ ~Settled
    BY <1>5 DEF Build, At, Locking
  <2>2. \A u \in Threads : thread'[u].pc # "build"
    BY <1>5, <2>1 DEF Build, Return, Goto, Locking, TypeOK, Thread
  <2>3. lock' = Nobody /\ builds' = 1 /\ Settled' /\ ~(live' # Nobody /\ live_error')
    BY <1>5, <2>1 DEF Build, Settled, TypeOK, Indexes
  <2>4. QED BY <2>2, <2>3 DEF Locking
<1>6. CASE UNCHANGED vars
  BY <1>6, LockingKept DEF vars
<1>7. QED BY <1>1, <1>2, <1>3, <1>4, <1>5, <1>6 DEF Next

LEMMA InitLocking == Init => Locking
  BY DEF Init, Locking, Settled, NewThread

\* However many requests race for the pipeline, it is built at most once, and a
\* build that failed is never retried (DashboardState.live).
THEOREM BuiltOnce == Spec => []BuiltAtMostOnce
<1>1. TypeOK /\ Locking => BuiltAtMostOnce
  BY DEF Locking, BuiltAtMostOnce, Settled
<1>2. QED BY <1>1, InitTyped, NextTyped, InitLocking, NextLocking, PTL DEF Spec

-----------------------------------------------------------------------------
(* What is said of the index                                               *)

\* Once built, the pipeline stays: what was said of it, and what it answered,
\* remain true of it.
Steady ==
  \A t \in Threads :
    /\ thread[t].pc = "status" => live # Nobody
    /\ thread[t].local.agreement # Absent =>
         live # Nobody /\ thread[t].local.agreement.source = SourceMatches(live)
    /\ thread[t].page.answer # Nobody => thread[t].page.answer = live

\* A step that leaves a built pipeline, and of the threads at most their way.
LEMMA SteadyKept ==
  ASSUME Steady, live # Nobody => live' = live,
         \A t \in Threads :
           /\ thread'[t].local.agreement = thread[t].local.agreement
           /\ thread'[t].page.answer = thread[t].page.answer
           /\ thread'[t].pc = "status" => thread[t].pc = "status" \/ live' # Nobody
  PROVE  Steady'
  BY DEF Steady

LEMMA NextSteady == TypeOK /\ Locking /\ Steady /\ [Next]_vars => Steady'
<1> SUFFICES ASSUME TypeOK, Locking, Steady, [Next]_vars PROVE Steady'
  OBVIOUS
<1> USE DEF pipeline
<1>1. CASE Load
  BY <1>1, SteadyKept DEF Load
<1>2. CASE ChangeWorld
  BY <1>2, SteadyKept DEF ChangeWorld
<1>3. ASSUME NEW t \in Requests, Arrive(t) PROVE Steady'
  <2>1. \A u \in Threads :
          /\ thread'[u].local = thread[u].local /\ thread'[u].page = thread[u].page
          /\ thread'[u].pc = "status" => thread[u].pc = "status"
    BY <1>3 DEF Arrive, Kinds, TypeOK, Thread, Threads
  <2>2. QED BY <1>3, <2>1, SteadyKept DEF Arrive
<1>4. ASSUME NEW t \in Threads, Step(t) PROVE Steady'
  <2> USE DEF TypeOK, Thread, Locals
  <2>1. CASE NotFound(t)
    BY <2>1 DEF NotFound, Reply, Steady, NoLocals
  <2>2. CASE Replay(t)
    BY <2>2 DEF Replay, Reply, Steady, NoLocals
  <2>3. CASE ReuseLive(t)
    <3>1. \A u \in Threads :
            /\ thread'[u].local = thread[u].local /\ thread'[u].page = thread[u].page
            /\ thread'[u].pc = "status" => thread[u].pc = "status" \/ live # Nobody
      BY <2>3 DEF ReuseLive, Return, Goto
    <3>2. QED BY <2>3, <3>1, SteadyKept DEF ReuseLive
  <2>4. CASE BeginBuild(t)
    <3>1. \A u \in Threads :
            /\ thread'[u].local = thread[u].local /\ thread'[u].page = thread[u].page
            /\ thread'[u].pc = "status" => thread[u].pc = "status"
      BY <2>4 DEF BeginBuild, Goto
    <3>2. QED BY <2>4, <3>1, SteadyKept DEF BeginBuild
  <2>5. CASE Status(t)
    <3>1. live # Nobody
      BY <2>5 DEF Status, At, Steady
    <3>2. FrozenAgreement # Absent => FrozenAgreement.source = SourceMatches(live)
      BY DEF FrozenAgreement, Recipe
    <3>3. \A u \in Threads : /\ thread'[u].page = thread[u].page
                            /\ u # t => thread'[u] = thread[u]
      BY <2>5 DEF Status
    <3>4. thread'[t].local.agreement = FrozenAgreement /\ thread'[t].pc = "render"
      BY <2>5 DEF Status
    <3>5. QED BY <2>5, <3>1, <3>2, <3>3, <3>4 DEF Status, Steady
  <2>6. CASE Ask(t)
    <3>1. \A u \in Threads :
            /\ thread'[u].local.agreement = thread[u].local.agreement
            /\ thread'[u].page = thread[u].page
            /\ thread'[u].pc = "status" => thread[u].pc = "status"
      BY <2>6 DEF Ask
    <3>2. QED BY <2>6, <3>1, SteadyKept DEF Ask
  <2>7. CASE Render(t)
    BY <2>7 DEF Render, Reply, Steady, NoLocals
  <2>8. CASE Answer(t)
    <3>1. UNCHANGED live
      BY <2>8 DEF Answer
    <3>2. CASE Reply(t, 200, live, FALSE)
      BY <3>1, <3>2 DEF Reply, Steady, NoLocals
    <3>3. CASE Reply(t, 200, Nobody, TRUE)
      BY <3>1, <3>3 DEF Reply, Steady, NoLocals
    <3>4. QED BY <2>8, <3>2, <3>3 DEF Answer
  <2>9. QED BY <1>4, <2>1, <2>2, <2>3, <2>4, <2>5, <2>6, <2>7, <2>8 DEF Step
<1>5. ASSUME NEW t \in Threads, Build(t) PROVE Steady'
  <2>1. live = Nobody
    BY <1>5 DEF Build, At, Locking, Settled
  <2>2. \A u \in Threads :
          /\ thread'[u].local = thread[u].local /\ thread'[u].page = thread[u].page
          /\ thread'[u].pc = "status" => thread[u].pc = "status" \/ live' # Nobody
    BY <1>5 DEF Build, Return, Goto, TypeOK, Thread
  <2>3. QED BY <2>1, <2>2, SteadyKept
<1>6. CASE UNCHANGED vars
  BY <1>6, SteadyKept DEF vars
<1>7. QED BY <1>1, <1>2, <1>3, <1>4, <1>5, <1>6 DEF Next

LEMMA InitSteady == Init => Steady
  BY DEF Init, Steady, NewThread, NoLocals, NoPage

\* Whatever happens to the index file under the running process, what a page
\* says of the source of its pipeline is about the index that answered on it
\* (LiveAssistant.frozen_arm_d_agreement).
THEOREM VerdictHolds == Spec => []VerdictIsOfTheAnswer
<1>1. Steady => VerdictIsOfTheAnswer
  BY DEF Steady, VerdictIsOfTheAnswer
<1>2. QED BY <1>1, InitTyped, NextTyped, InitLocking, NextLocking, InitSteady,
             NextSteady, PTL DEF Spec

-----------------------------------------------------------------------------
(* The grid                                                                *)

\* Every column that was filled holds an answer of its arm to its question,
\* from a run that was asked it.
Columns ==
  \A q \in DOMAIN merged :
    /\ DOMAIN merged[q].by_arm \subseteq DOMAIN runs
    /\ \A a \in DOMAIN merged[q].by_arm :
         /\ merged[q].by_arm[a].arm = a
         /\ merged[q].by_arm[a].question_id = q
         /\ merged[q].by_arm[a].identity = merged[q].identity

\* Every run that was admitted is a recorded one, whole.
FrozenIn(ran, found, questions) ==
  \A a \in DOMAIN ran :
    /\ ran[a].split = "test" /\ ran[a].purpose = Absent
    /\ \E n \in DOMAIN found :
         /\ found[n].manifest = ran[a]
         /\ \A q \in DOMAIN questions : a \in DOMAIN questions[q].by_arm =>
              \E i \in Positions(found[n].answers) :
                found[n].answers[i] = questions[q].by_arm[a]

Frozen == FrozenIn(runs, table, merged)

Whole ==
  outcome = "ready" =>
    /\ DOMAIN runs = Arms
    /\ AnsweredByAll
    /\ Cardinality(DOMAIN merged) = Expected
    /\ \A f \in HashFields, a, b \in Arms : runs[a].hashes[f] = runs[b].hashes[f]

Grid == outcome \in {"loading", "ready"} => Columns /\ Frozen

\* The column that is filled is the record of the question, and the others stay.
LEMMA JoinedColumns ==
  ASSUME NEW arm, NEW records,
         NEW q \in DOMAIN Joined(arm, records)
  PROVE  LET asked == {records[i].question_id : i \in Positions(records)}
             new == Joined(arm, records)[q]
         IN /\ q \notin asked => q \in DOMAIN merged /\ new = merged[q]
            /\ q \in asked => \E i \in Positions(records) :
                 /\ records[i].question_id = q
                 /\ new.identity = IF q \in DOMAIN merged THEN merged[q].identity
                                   ELSE records[i].identity
                 /\ DOMAIN new.by_arm =
                      {arm} \cup IF q \in DOMAIN merged THEN DOMAIN merged[q].by_arm ELSE {}
                 /\ new.by_arm[arm] = records[i]
                 /\ \A a \in DOMAIN new.by_arm \ {arm} :
                      q \in DOMAIN merged /\ new.by_arm[a] = merged[q].by_arm[a]
<1> DEFINE asked == {records[i].question_id : i \in Positions(records)}
           Of == CHOOSE r \in {records[i] : i \in Positions(records)} : r.question_id = q
           before == IF q \in DOMAIN merged THEN merged[q].by_arm ELSE Empty
           new == Joined(arm, records)[q]
<1>1. q \in DOMAIN merged \cup asked
  BY DEF Joined
<1>2. q \notin asked => new = merged[q]
  BY <1>1 DEF Joined
<1>3. ASSUME q \in asked
      PROVE  new = [identity |-> IF q \in DOMAIN merged THEN merged[q].identity ELSE Of.identity,
                    by_arm |-> [a \in DOMAIN before \cup {arm} |->
                                  IF a = arm THEN Of ELSE before[a]]]
  BY <1>1, <1>3 DEF Joined
<1>4. ASSUME q \in asked
      PROVE  \E i \in Positions(records) : Of = records[i] /\ records[i].question_id = q
  <2>1. \E r \in {records[i] : i \in Positions(records)} : r.question_id = q
    BY <1>4
  <2>2. QED BY <2>1
<1>5. DOMAIN before = IF q \in DOMAIN merged THEN DOMAIN merged[q].by_arm ELSE {}
  BY DEF Empty
<1> HIDE DEF Of, before, new
<1>6. QED BY <1>1, <1>2, <1>3, <1>4, <1>5 DEF before, new

LEMMA AdmitGrid == ASSUME Columns, Frozen, AdmitRun PROVE Columns' /\ Frozen'
<1> DEFINE records == Dir.answers
           J == Joined(Arm, records)
           asked == {records[i].question_id : i \in Positions(records)}
<1>1. merged' = J /\ UNCHANGED table
  BY DEF AdmitRun
<1>2. runs' = [a \in DOMAIN runs \cup {Arm} |-> IF a = Arm THEN Dir.manifest ELSE runs[a]]
  BY DEF AdmitRun
<1>3. Arm \notin DOMAIN runs /\ Dir.manifest.split = "test" /\ Dir.manifest.purpose = Absent
  BY DEF AdmitRun, Accepted, ManifestRefused, Arm
<1>4. \A i \in Positions(records) :
        /\ records[i].arm = Arm
        /\ records[i].question_id \in DOMAIN merged =>
             merged[records[i].question_id].identity = records[i].identity
  BY DEF AdmitRun, Accepted, RecordsRefused
<1>5. Name \in DOMAIN table /\ table[Name].answers = records /\ table[Name].manifest = Dir.manifest
  BY DEF AdmitRun, Accepted, Admitted, Authentic
<1>6. \A q \in DOMAIN J :
        /\ q \notin asked => q \in DOMAIN merged /\ J[q] = merged[q]
        /\ q \in asked => \E i \in Positions(records) :
             /\ records[i].question_id = q
             /\ J[q].identity = IF q \in DOMAIN merged THEN merged[q].identity
                               ELSE records[i].identity
             /\ DOMAIN J[q].by_arm =
                  {Arm} \cup IF q \in DOMAIN merged THEN DOMAIN merged[q].by_arm ELSE {}
             /\ J[q].by_arm[Arm] = records[i]
             /\ \A a \in DOMAIN J[q].by_arm \ {Arm} :
                  q \in DOMAIN merged /\ J[q].by_arm[a] = merged[q].by_arm[a]
  BY JoinedColumns
<1> HIDE DEF J, records
<1>7. Columns'
  <2> SUFFICES ASSUME NEW q \in DOMAIN J
               PROVE  /\ DOMAIN J[q].by_arm \subseteq DOMAIN runs \cup {Arm}
                      /\ \A a \in DOMAIN J[q].by_arm :
                           /\ J[q].by_arm[a].arm = a
                           /\ J[q].by_arm[a].question_id = q
                           /\ J[q].by_arm[a].identity = J[q].identity
    BY <1>1, <1>2 DEF Columns
  <2>1. CASE q \notin asked
    BY <2>1, <1>6 DEF Columns
  <2>2. CASE q \in asked
    BY <2>2, <1>4, <1>6 DEF Columns
  <2>3. QED BY <2>1, <2>2
<1>8. Frozen'
  <2> SUFFICES ASSUME NEW a \in DOMAIN runs \cup {Arm}
               PROVE  /\ runs'[a].split = "test" /\ runs'[a].purpose = Absent
                      /\ \E n \in DOMAIN table :
                           /\ table[n].manifest = runs'[a]
                           /\ \A q \in DOMAIN J : a \in DOMAIN J[q].by_arm =>
                                \E i \in Positions(table[n].answers) :
                                  table[n].answers[i] = J[q].by_arm[a]
    <3>1. table' = table /\ merged' = J /\ DOMAIN runs' = DOMAIN runs \cup {Arm}
      BY <1>1, <1>2
    <3>2. FrozenIn(runs', table, J)
      BY <3>1 DEF FrozenIn
    <3>3. QED BY <3>1, <3>2 DEF Frozen
  <2>1. CASE a = Arm
    <3>1. \A q \in DOMAIN J : a \in DOMAIN J[q].by_arm =>
            \E i \in Positions(records) : records[i] = J[q].by_arm[a]
      BY <2>1, <1>3, <1>6 DEF Columns
    <3>2. QED BY <2>1, <3>1, <1>2, <1>3, <1>5
  <2>2. CASE a # Arm
    <3>1. a \in DOMAIN runs /\ runs'[a] = runs[a]
      BY <2>2, <1>2
    <3>2. \A q \in DOMAIN J : a \in DOMAIN J[q].by_arm =>
            /\ q \in DOMAIN merged /\ a \in DOMAIN merged[q].by_arm
            /\ J[q].by_arm[a] = merged[q].by_arm[a]
      BY <2>2, <1>6
    <3>3. QED BY <3>1, <3>2 DEF Frozen, FrozenIn
  <2>3. QED BY <2>1, <2>2
<1>9. QED BY <1>7, <1>8

LEMMA NextGrid == Grid /\ Whole /\ [Next]_vars => Grid' /\ Whole'
<1> SUFFICES ASSUME Grid, Whole, [Next]_vars PROVE Grid' /\ Whole'
  OBVIOUS
<1>1. CASE UNCHANGED replayVars
  BY <1>1 DEF replayVars, loaded, Grid, Whole, Columns, Frozen, FrozenIn, AnsweredByAll
<1>2. CASE AdmitRun
  <2>1. outcome = "loading" /\ outcome' = "loading"
    BY <1>2 DEF AdmitRun, Loading
  <2>2. Columns' /\ Frozen'
    BY <1>2, <2>1, AdmitGrid DEF Grid
  <2>3. QED BY <2>1, <2>2 DEF Grid, Whole
<1>3. CASE RefuseRun \/ RaiseOnRun
  BY <1>3 DEF RefuseRun, RaiseOnRun, Refuse, Grid, Whole
<1>4. CASE FinishLoading
  <2>1. CASE Refuse("unavailable")
    BY <2>1 DEF Refuse, Grid, Whole
  <2>2. CASE GridIsWhole /\ outcome' = "ready" /\ UNCHANGED <<loaded, table>>
    <3>1. outcome = "loading"
      BY <1>4 DEF FinishLoading
    <3>2. QED BY <2>2, <3>1 DEF loaded, GridIsWhole, Grid, Whole, Columns, Frozen, FrozenIn,
                               AnsweredByAll
  <2>3. QED BY <1>4, <2>1, <2>2 DEF FinishLoading
<1>5. QED
  <2>1. Load \/ UNCHANGED replayVars
    BY DEF Next, ChangeWorld, Arrive, Step, Build, NotFound, Replay, ReuseLive, BeginBuild,
           Status, Ask, Render, Answer, vars
  <2>2. QED BY <2>1, <1>1, <1>2, <1>3, <1>4 DEF Load, LoadStep

LEMMA InitGrid == Init => Grid /\ Whole
  BY DEF Init, ReplayInit, Empty, Grid, Whole, Columns, Frozen, FrozenIn

LEMMA GridInvariant == Spec => [](Grid /\ Whole)
  BY InitGrid, NextGrid, PTL DEF Spec

\* Of any runs, however damaged or mixed up, a grid that is shown has Expected
\* questions, each answered once by every arm in that arm's column
\* (load_replay_library).
THEOREM Paired == Spec => []GridIsPaired
<1>1. Grid /\ Whole => GridIsPaired
  BY DEF Grid, Whole, Columns, AnsweredByAll, GridIsPaired
<1>2. QED BY <1>1, GridInvariant, PTL

\* What is shown is the recorded content of frozen runs on the test split, over
\* the same material (load_replay_library, authenticity.authenticated_run).
THEOREM ShownIsFrozen == Spec => []GridIsFrozen
<1>1. Grid /\ Whole => GridIsFrozen
  <2> SUFFICES ASSUME Grid, Whole, outcome = "ready", NEW a \in Arms
               PROVE  /\ runs[a].split = "test" /\ runs[a].purpose = Absent
                      /\ \A f \in HashFields, b \in Arms : runs[a].hashes[f] = runs[b].hashes[f]
                      /\ \E n \in DOMAIN table :
                           /\ table[n].manifest = runs[a]
                           /\ \A q \in DOMAIN merged :
                                \E i \in Positions(table[n].answers) :
                                  table[n].answers[i] = merged[q].by_arm[a]
    BY DEF GridIsFrozen
  <2>1. \A q \in DOMAIN merged : a \in DOMAIN merged[q].by_arm
    BY DEF Whole, AnsweredByAll
  <2>2. QED BY <2>1 DEF Grid, Whole, Frozen, FrozenIn
<1>2. QED BY <1>1, GridInvariant, PTL
=============================================================================
