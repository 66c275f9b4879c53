# TLA+ verification of the on-device agentic RAG

The repository is an experiment: a retrieval-augmented assistant for small
enterprises, run in four arms (A: bare generator, B: RAG, C: generator plus
verifier without the documents, D: RAG plus verifier), with everything around
it that makes the comparison trustworthy: a validated corpus, an index that knows
what it was built from, gold data with sealed splits, a runner that records the
arms, a blinded manual scoring, placement checks, a stopping gate, an analysis
and a dashboard that replays the frozen runs. The modules here model the parts
where an ordering, a crash, a stale file, a boundary or an unusual input could make
the experiment say something false. Each definition carries, in `PROJECT.json`
under `map`, the lines of the source it was translated from.

Run everything from this directory:

    tlc -workers 2 -config Verification.cfg MCVerification     # and so on, one per .cfg
    tlapm VerificationProofs.tla                               # and the other *Proofs modules

`ArmRunIsolation.cfg` is run with `MCArmRun` and is expected to be violated.

## Inventory

Paths are below `src/src/sme_assistant/` unless they begin with `scripts/`.

| component | source | state | operations | interacts with |
|---|---|---|---|---|
| knowledge base loader | `kb/loader.py` | documents, supersession links | load, validate | chunker, index, conflict registry |
| chunker | `ingest/chunker.py` | parser buffer; pending blocks, carried sentence, chunks so far | parse lines, flush, overflow, overlap, tail merge | loader, index |
| index | `ingest/index.py`, `scripts/build_index.py` | one file of chunks and vectors with fingerprints | build, save in place, reload, load against a corpus | Ollama (embeddings), retriever |
| retriever, generator | `retrieve/`, `generate/` | none | filter, rank, cut, threshold, refuse, cite | index, Ollama |
| verifier and serving rule | `verify/verifier.py`, `verify/schema.py` | one response being interpreted | parse, downgrade, warrant, serve | generator (draft), Ollama |
| question set, conflict registry | `evaluation/question_set.py`, `conflicts.py`, `scripts/build_question_set.py`, `kb_summary.py` | gold files with recorded hashes | validate, build, load, compare | loader, chunker, runner, gate |
| experiment runner | `scripts/run_arms.py`, `evaluation/run_writer.py`, `replay.py`, `scripts/summarise_arms.py` | run directories, `latest_<split>.json`, drafts in memory | start, begin arm, answer, finish, publish, replay, reject | all of the above, analysis |
| Ollama client, preflight | `common/llm_client.py`, `scripts/preflight_placement.py` | what the server has resident (external), a deadline, a report | evict, wait, load, observe, clean up | Ollama |
| performance runs | `scripts/run_arms.py`, `scripts/analyse_performance.py`, `common/hostinfo.py` | residency readings in summaries | request a device, call, read, reject, validate | Ollama, runner |
| blinded scoring | `evaluation/manual_scoring.py`, `scripts/score_answers.py` | sheet, sealed key, two logs, session file, passes in progress | build, score, abstention, skip/back/go, quit, unseal | runner (what is scored), analysis |
| stopping gate, verifier protocol | `evaluation/stopping_gate.py`, `scripts/verifier_protocol.py` | rows in memory, diagnostics on disk | decide; refuse, sweep, blocks, write, rule | runner (pilots), git |
| analysis | `evaluation/analysis.py`, `aggregate.py`, `authenticity.py`, `scripts/analyse_results.py` | none between runs | find, authenticate, join, decide, diagnose | runner, scoring, question set |
| dashboard | `demo/server.py`, `live.py`, `replay.py`, `scripts/dashboard.py` | live pipeline or a sticky error, replay library | load, serve, build once, replay | authenticity, every component of a live answer |
| configuration | `common/config.py`, `evaluation/config.py` | a JSON file | read | everything |
| re-parsing, rendering, figures, one-off scripts | see `PROJECT.json` | none | | |

What is hard, and what makes each component correct:

* **Loader, index, retrieval.** An author edits documents one at a time, the
  builder writes its file in place and may die, and a consumer reads the corpus
  before it opens the file. Correct when what answers is the corpus that was read,
  supersession links lead to what is in force, and the status filter neither
  costs a place nor lets a withdrawn passage through.
* **Chunker.** Overflow, oversized tables, fences left open, empty sections, a
  carried sentence and a merged tail meet in any order. Correct when no line is
  lost, doubled or cut apart, labels are true, and a copy names where it is from.
* **Gold data.** Registry, documents, chunker and question file are edited
  independently. Correct when development and test questions share no
  disputed passage, and when what a question expects of its reader is what the documents in
  force still decide or dispute.
* **Serving rule.** One sequential function, but ten kinds of defect of an untrusted response
  may meet in it: downgraded verdicts decide whether a revision is an
  abstention, which decides whether its citations are checked, which decides
  whether the response failed. Correct when no partial failure reaches the
  reader, no finding rests on evidence that was not retrieved, every change
  names its warrant, and a clean response changes nothing.
* **Runner.** Runs die part-way and their directories stay; a later invocation
  may replay them after the index or the prompt changed. Correct when the B/D
  contrast is between answers that started from the same draft.
* **Scoring.** Weeks of one scorer's work in append-only logs, two passes,
  torn writes, hand repairs, forced rebuilds of the sheet. Correct when no
  confirmed judgement is lost silently or attached to another answer.
* **Preflight and performance runs.** A server that evicts asynchronously or not
  at all, polls that fail, calls that time out and complete anyway; a device asked
  for, observed once per arm and judged later by another program. Correct when
  what is confirmed is the placement of the script's own load, and when an
  accepted run was timed on the device its condition names.
* **Gate, protocol, analysis.** Nested majorities, vetoes in an order, shrinking
  denominators, a margin, and files joined by item, code and question alone.
  Correct when better answers are never judged worse, a refusal improves neither the
  grounded coverage nor the count of the verifier's errors, compared calls heard the same input, and every number is of the frozen answers.
* **Dashboard.** Request threads race for one pipeline under a lock while the index
  file is replaced. Correct when it is built once, replay never waits for it, and
  what is shown is a whole, paired grid of recorded content.

`PROJECT.json` lists the hazards one by one, each at its line, with the
properties that cover it or the reason why none does.

## Modules

| module | models | its state in the code |
|---|---|---|
| `Verification` | `schema.parse` and `Verifier.verify`: one call | the locals of `parse`; `result` is the part of the returned record that describes serving |
| `ServingContract` | what `VerifiedAnswer.final_answer` may be, however the response is read | draft and retrieved chunks; what was found and whether a check failed; what was served |
| `ArmRun` | `run_arms.main` and `run_arm`, `RunWriter`, `replay.load_drafts`, `summarise_arms.replayed_baseline` | `runs`: the results directory; `latest`: the run index; `setup`: index file and prompt on disk; the rest: `main`'s locals |
| `BlindScoring` | `score_answers.py` build, score, abstention, unseal over `manual_scoring.py` | `sheet`, `session`, `log`, `ended`: files; `items`, `judgements`, `position`: an open pass; `recorded`, `deleted`: history |
| `Ollama` | the server as `OllamaClient` describes it, and `unload` | `resident`, `unloading`, `abandoned`: what is in memory, evictions accepted, loads given up on (external) |
| `Preflight` | `preflight_placement.py` over `Ollama` | `stage`, `elapsed`, `outcome`, `report`: the script |
| `Placement` | a performance run and `analyse_performance.validate`, over `Ollama` | `requested`, `evicted`, `arm`, `calls`: `main`'s locals; `evidence`: `environment_at_end`; `rejection`, `verdict`: the records; `timed`, `moved`: history |
| `KnowledgeBase` | what `load_knowledge_base` accepts | none: predicates on a folder |
| `Retrieval` | `Retriever.retrieve`, `Generator.answer` | none: operators on the chunks of an index |
| `Ingest` | builder, author and consumer around the index file, over `Retrieval` and `KnowledgeBase` | `folder`, `chunker`, `model`, `file`: on disk; `builder`, `consumer`: the locals of the two processes |
| `Chunker` | `split_blocks` and `chunk_document` | the locals of `chunk_document`; `split_blocks` is a function of the lines |
| `GoldData` | registry, question set and builder, their checks and hashes | `corpus`, `registry`, `file`: on disk; `accepted`: what the validation last passed; `byhand`: history |
| `Authenticity` | `authenticated_run` | none: predicates on a run directory and the recorded table |
| `ReplayLibrary` | `load_replay_library`, over `Authenticity` | `pos`, `merged`, `runs`: its locals; `outcome`: returned, refused, raised |
| `Dashboard` | server and live pipeline, over `ReplayLibrary` | `live`, `live_error`, `lock`: `DashboardState`; `thread`: each request's counter and locals; `index`, `model_ready`: the world |
| `Aggregates`, `Anchors` | group-level means; the disputed pair in the evidence | none |
| `Contrasts` | the rules of H1 to H4 in `analysis.py` | none |
| `Analysis` | `analyse_results.py` over `Authenticity`, `Contrasts`, `Anchors` | the files (constant once begun), and the locals of its stages |
| `StoppingGate` | what the gate counts and decides | none |
| `Protocol` | `verifier_protocol.py` over `StoppingGate`, `Anchors` | `sweep`, `rows`, `block`: `main`'s locals; `written`: the file; `gate`: what `summarise_arms.py` prints of a pilot |
| `VerificationProofs` | theorems about `Verification` and its refinement of `ServingContract` | |
| `IngestProofs` | theorems about `Ingest` (with `Retrieval` and `KnowledgeBase`) and `Chunker` | |
| `EvaluationProofs` | theorems about `GoldData`, `Protocol` (with `StoppingGate`), `Analysis` (with `Contrasts`) | |
| `PlacementProofs` | theorems about `Preflight` and `Placement`, over `Ollama` | |
| `ArmRunProofs`, `BlindScoringProofs`, `DashboardProofs` | theorems about `ArmRun`, `BlindScoring`, and `Dashboard` with `ReplayLibrary` | |
| `CountingLemmas` | what takes the place of induction: least and greatest numbers, counting up, subsets of a finite set, sums | |
| `MC*` | constants and initial states of the instances TLC checks | |

### Verification

`parse` reads a response in the order JSON, claims, relationship, revision, and
the actions follow it: `ParseFailed` or `ReadClaims`, one `AuditClaim` or
`SkipEntry` per entry, `JudgeRelationship`, `Decide`. Nothing of the response is
trusted, so each action chooses its part of it nondeterministically.
`AbortOnIdentifiers` is the `TypeError` of `split_ids`. An answer is a record of
what the rule can tell apart: its wording (with its content tokens), the chunk
identifiers in brackets, the ones written bare, and the document-only citations.
`ServingContract` forgets the order and the kinds of checks: while a response is read, findings and
failed checks only accumulate (`Observe`), and the answer served is the draft, or a change that some
finding calls for and no failed check stands against. A check that failed at the first claim and was
forgotten by the last would break it. `Verification` implements it under the refinement mapping at its
end.

### ArmRun

`Start` is the argument checks and the loading of index and drafts; then, per arm,
`BeginArm` (directory and manifest), `AnswerQuestion` (one record appended) and
`FinishArm` (summary); `Publish` writes `latest_<split>.json`. `RefuseArmD` is
the refusal between arms. `Crash` ends the process anywhere, mid-record and
mid-index included. `Tick`, `RebuildIndex` and `EditPrompt` are the world. The
argument combinations refused before anything is written are not steps.

### BlindScoring

`Build`, `Open`, `Record`, `Move`, `Quit`, `Unseal` are the commands and keys of
the script. `Crash` leaves any prefix of an append: nothing, a fragment, the
record without its newline, or the whole line. `Repair` deletes the first unreadable
line, as the error message says, so two torn lines take two repairs. `recorded` is what the scorer saw confirmed.

### Preflight and Placement

`EvictStage`, `PollStage`, `Load`, `ObserveStage` are `check_model`; `CleanUp`, `PollExit`
the `finally` block. The waits are `wait_until_unloaded`: `elapsed` is when the
current poll is answered, in poll intervals; a failed poll is `answered = FALSE`.
The server's steps are `Ollama`'s `Unload`, `Expire` and `LateLoad`; it may take any
of them at any time, or never.

In `Placement`, `Evict` is the loop over the three models, `Call` one request of a
pipeline stage, `FinishArm` the reading that `RunWriter.finish` puts into the
summary, `Observe` the one that decides between the next arm and a rejection
record, `Analyse` the placement checks of `validate`. `timed` remembers which copy
served which arm, as no file does; `moved` which arms lost a copy that had served
them. Copies from before the run may be anywhere, which stands for whatever ran
before it.

### Ingest, Retrieval, KnowledgeBase

Three parties share one folder, one configuration and one index file. `Edit` is
the author: a document written or removed, the chunker or embedding model
changed, stored chunks edited under their declared hash. `StartBuild` to `Reload`
are `build_index.main`, which opens the file in place (`BeginSave` leaves it torn)
and may end anywhere (`EndBuild`). `ReadCorpus` and `OpenIndex` are the order of
every consumer: configuration and corpus first, then `Index.load`. `Ask` is one
retrieval and one answer, with any scores and any citations. Fingerprints are the
values they are taken of.

### Chunker

A line is its kind, its number of words and, of a heading, its level; its text is its
position, so a line that is lost, doubled or moved shows. `ParseLine` is the loop body of
`split_blocks`, `Parsed` the parser's buffer after each line. `Heading`, `AddBlock`,
`AddOversized` and `Close` are the branches of the loop of `chunk_document` and what follows
it, each with the `emit()` calls it makes (`Emitted`); `pending` is what the gathered blocks add
up to: their lines, words, number and last sentence. The properties read the sections and
the content off the lines alone, without the parser.

### GoldData

`BuildSet` is `build_question_set.main` with every check it runs, `ValidateCorpus`
(which leaves `accepted`) the validation that `kb_summary.py` and the tests call, `Author` any edit of
registry, corpus or file. `Loads` is what the programs' `load_question_set` checks;
`check_provenance` is the comparison that needs the hashes to be given.

### Authenticity, ReplayLibrary, Dashboard

A directory holds three files, each a JSON value, absent, torn, or not UTF-8.
`AdmitRun`, `RefuseRun` and `RaiseOnRun` are one turn of the loop of
`load_replay_library`, `FinishLoading` what follows it. Then the process serves:
`Arrive` starts a thread for a request, `BeginBuild` takes the lock and `Build`
releases it with a pipeline of the index as it is by then or with the sticky error,
`Status` is `model_status` and the agreement, `Ask`, `Render` and `Answer` the two
ends of `_live`. `ChangeWorld` replaces or removes the index file and takes the
server up and down between any two of these.

### Analysis, Contrasts, Aggregates, Anchors

`FindRuns`, `AuthenticateRun`, `Join`, `Decide` and `Diagnose` are the stages of
`analyse_results.main`, each of which may refuse. Means are exact: a family's is kept
as a multiple of one twelfth, a mean over families as a sum with its count. `Filed` is what
the stages before it leave on disk: a sheet with one item for each question under each code,
a key that gives arms codes of their own (perhaps not all arms), judgements that are numbers.
Whether the runs, the logs and the report are whole is for the program to find out.

### StoppingGate, Protocol

`Gate` is the gate as `summarise_arms.py` takes it of the latest pilot; the
other actions are `verifier_protocol.main` from its refusals (`validate_design`,
`require_committed_protocol`, `require_clean_pilot`) over `BuildSweep` and `Block` to
`Write` and `summarise`. What the models answer is chosen in the initial state, for
every block, model, condition and question. The script writes only after its
last call, so a block is one step. A citation completeness is a whole number between 0 and `Whole`,
since the code rounds it to four decimals.

## Runs

| run | question | instance and bounds | result |
|---|---|---|---|
| `verification` | does every response, whatever its defects, respect the serving rule and the contract? | 3 chunks of 2 documents, 13 answers (each defect alone and the ordinary ones), claims lists up to 2 | holds |
| `arm_runs` | are compared answers of B and D paired, through crashes, replays and changed setups; is what is published complete? | 2 splits of 2 and 1 questions, 3 arm sets, 2 texts, 2 runs, 1 change of index and prompt | holds |
| `arm_isolation` | is the claim `isolates_verification` of a replay true? | 2 questions, 2 runs | **violated** |
| `blind_scoring` | do logs, session and passes keep to their rules? | 2 sheets of 2 items, 3 lines per log, 2 crashes, both passes open at once | holds |
| `preflight` | is what it confirms fresh, a clean exit true, and does the script end? | the 3 models of `config.json`, a timeout of 2 polls, 1 late | holds |
| `placement` | is one reading of the residency per arm enough to believe a performance run? | 3 models, 2 questions, any residency before the run | holds |
| `ingest` | does whoever answers answer from the corpus it read, and from documents in force when asked to? | 448 folders of up to 3 documents, 2 chunkers, 2 embedding models, 1 edit at any point, `top_k` 2, every score vector over 0 and 1 | holds |
| `chunker` | is every line kept once, whole, in order, under true labels, in chunks of justified size? | every document of up to 5 units of 9 kinds, budget 5 words, minimum 2, marker 1, overlap 1 | holds |
| `gold_data` | are the splits sealed, and do questions still ask what the documents in force decide or dispute? | 2 families sharing a document, every type and split, 4 ways to chunk, 2 edits | holds |
| `dashboard` | is a shown grid paired and frozen, the pipeline built once and named truly, and is every request answered? | 3 arms, 2 of the directories with any of 26 defects, 2 requests, an index and a server that change at will | holds |
| `analysis` | are reported numbers of the frozen answers, by family, by rules that agree? | 3 arms, 12 questions of 6 families; all patterns of scores, flags and abstentions of a hypothesis, and each odd file | holds |
| `protocol` | is the gate monotone, and are its coverage and verifier errors no better for a refusal; does the protocol compare like with like and earn its rule? | 4 families of 3 paraphrases, 2 models, 2 conditions, 2 blocks, a deviating call, completeness in halves | holds |

Why the bounds are enough. *Verification*: the decision depends on a response
only through which kinds of failure, verdict and relationship occur, and two
claims produce every pair of them; three chunks of two documents give identifiers
that are retrieved and cited, retrieved and not cited, and not retrieved, and
one- and two-sided conflicts. *ArmRun*: a pairing needs a source run and a replay
of it; two questions make a partial run; the second split and its own index keep
a refused or crashed invocation beside a published one. *BlindScoring*: two items
give an order, a skip and a revision; three lines hold a torn append between two
others; two crashes tear both logs, or one twice. *Preflight*: three models are the
code's; a timeout of two polls has a poll before it, at it and after it.
*Placement*: two questions are the least for which a model can leave between two
calls of an arm. *Ingest*: three documents make a chain of versions, a fork and a
cycle; one edit between the two reads of a consumer, or between build and load, is
the race the fingerprints are for. *Chunker*: five units fill a chunk, overflow
it, carry a sentence over and leave a tail to merge or one that does not fit; a unit may be
below, at or above what is left of the budget, a chunk below the minimum with and without
the sentence carried into it. *GoldData*: the families share a document, so a
passage of one may lie in a chunk of the other; two edits change registry and
documents after a build. *Dashboard*: two requests race; a third meets nothing but
a lock already held or a pipeline already there; with two odd directories one
can agree with the other against the rest. *Analysis*: the margin and the
direction are reached with two families of two questions each. *Protocol*:
three paraphrases are the design's; two blocks agree or do not. The questions do not vary, so
`validate_design` passes in the run; `SameInput` is proved for any.

Deadlock is not checked in any run: every process here ends, and its logs, runs,
edits and requests have bounds.

**Symmetry** is used in `blind_scoring` (no action tells the two sheets apart) and in
`ingest` (chunkers and embedding models are only compared for equality). Both runs
check invariants only.

**Fairness.** `Preflight` assumes weak fairness of `PreflightProcess`, the script's own steps: every
HTTP call carries a timeout (`llm_client.py:161`), `sleep` returns, and nothing else
blocks. Nothing is assumed of the server, and `Termination` does not need it: each
poll is answered later than the one before and the deadline is compared after each.
`Dashboard` assumes `WF_vars(Step(t))` of each thread: threads are scheduled and the
calls of a step have timeouts. Nothing is assumed of `Build`, which reads and embeds as
long as it likes, of `Arrive`, or of the world; so `ReplayNeverWaits` holds beside a
build that never ends, and `LiveWaitsOnlyForABuild` says that such a build is the only
excuse. The other specifications state no fairness: a scorer may never come back and
an experiment may never be finished, so what they promise is safety.

### What the violated run shows

`arm_isolation` (`run_arms.py:185`): replaying an Arm B run that died half-way reuses some
drafts and regenerates the rest; the summary still says `isolates_verification`.
`ReplayedContrastIsPaired` shows that `summarise_arms` does not compute the contrast in
that case, since the questions answered differ.

### Known limits of the code, met while modelling

Behaviour the models contain, or that was read beside them, that no property of a
run speaks of. None of it touched the frozen results as far as the files show.

* Serving: `claims: ["x"]` counts as an audit though nothing in it is judged
  (`schema.py:427`, against the comment at 607); an identifier field that is a number
  raises `TypeError` out of `parse` (370; `AbortOnIdentifiers`) though `verifier.py:183`
  promises the draft.
* Replay: a prompt edited between recording and replay goes unnoticed
  (`evaluation/replay.py:83`, against its docstring; `EditPrompt`).
* Scoring: `unseal` compares item numbers and not the sheet's hash
  (`score_answers.py:530`); an append that lost its newline makes the next judgement
  share its line, which the reader then advises to delete (`manual_scoring.py:313`).
* Placement: the evictions before a performance run are not awaited (`run_arms.py:323`); a
  leftover on the GPU can serve the first calls of a CPU run and leave unseen.
  `CpuMismatchIsALeftover` and `ValidArmsRanAsRequested` say what remains true.
* Index: a file without `chunk_set_sha256` skips that comparison. Supersession wired by
  one end only is accepted where the older document does not name the newer. Citations
  are validated against the retrieved passages also when the evidence was withheld.
* Chunker: an overlap sentence may come from the end of another section when the two chunks
  share one (`chunker.py:336`), against the docstring's one section per chunk; a merged
  tail may leave a marker that names its own chunk. The overflow test (388) leaves out the copied
  sentence and its marker, which `word_count` (106) counts, so a chunk of several prose blocks may
  exceed `max_words`; and a paragraph above it is not split either. `tests/test_chunker.py:326-334`
  says of such a chunk "without containing a table, so it should have been split"; over the
  repository's corpus it passes. `SizeIsJustified` says what the code keeps instead.
* Gold data: no program gives `load_question_set` the hashes, so only the tests exercise
  `check_provenance`; `validate_against_corpus` is called by `kb_summary.py` and the tests
  alone; an anchor that straddles two chunks is in none; the authoritative document
  need not be one of the family's.
* Dashboard: "identical" is said of the file on disk, not of the index in memory
  (`live.py:230`); a run file that is not UTF-8 ends the program at its start
  (`authenticity.py:171`).
* Protocol: R0 is only put in a list that is not read (`verifier_protocol.py:271`, against
  `docs/VERIFIER_PROTOCOL.md:225` and 243, so R3 may fire for a Qwen that flags every control); R1
  takes any detection where the document says majority (286); R2 compares means pooled over the
  models (293); R3 compares means over the blocks (302-305) where the document has the rules applied
  to each block (40-42, 219-222), so the block in which Qwen detects most need not be one in which
  Llama does not; a family counts as shown when any of its paraphrases was, and then all of them
  vote (572), and by its own condition where the document has `full` decide for both (217).
  `RuleIsEarned` says what of this the rows do earn. The latest pilot may be an interrupted one; the
  gold files are loaded before git is asked.
* Analysis: means are floats, so a difference of exactly the margin may fall on either side
  (`analysis.py:455`); the joined file is written before later refusals; the join does not
  compare a judgement's own question or session; without a re-pass the script refuses at
  the agreement.

## Proofs

Checked by `tlapm`, for every value of the constants that satisfies the `ASSUME`s
(which TLC evaluates in the passing runs). Where a
theorem is listed with a property, it states what a run checks: every invariant and every
action property of the passing runs is stated by a theorem. Type correctness is proved of
the modules that have a type invariant to prove from (in `Protocol`, `Analysis` and `Chunker`
what the proofs need of the types is a conjunct of the invariants below) and is in no run's
list, as are `FailedResponseIsNotServed`, `NoFindingNoChange`, `PassIsProven` and
`AbstentionIsTheTemplate`. Each inductive invariant was checked by TLC before it was proved.

**`VerificationProofs`**, from `Vocabulary` (every offered answer is an answer, the
policy maps every situation to a level, ...):

* `TypeCorrect`, by induction over the actions.
* `EvidenceInvariant`: `FindingsRestOnEvidence` is inductive with `TypeOK`.
* The properties of what is served are not inductive: they speak of the end of
  the call and say nothing of the states before it. The strengthening is
  `Decision`, which says that in a decided call the result is what `Served`,
  `Revised` and the warrants compute from the final failures and verdicts, and
  that the failures include those of the offered revision. `DecisionInvariant`
  proves it; `FailClosed`, `NoOp`, `Grounded`, `Warranted` and `AbstentionText`
  follow from it state by state (`NoOp` also needs the evidence invariant).
* `Earned`, also from `CautiousPolicy` (what `config.json` fixes: a level above "low" is for a
  clean audit and for a resolved supersession alone): `Judgement` says that from the end of
  the parse on, the confidence is the policy's for the failures and findings in the state.
  The proof has to show that what `Decide` still changes, the revision and its failures, does
  not reach it by another way.
* `Refinement`: `Spec => ImplementsContract`. Reading maps to `Observe` or a stutter, `Decide` and
  `ParseFailed` to an answer. That findings only accumulate is `WarrantsGrow`, from `Unjudged`, which says
  what is still empty before its part of the response is read. That a change has a finding and no
  failed check behind it is `ChangeIsLicensed`, from `Decision`; the case split is over how the draft, the
  template and a revision are chosen (`ContractStep`).

**`PlacementProofs`**, of `Preflight` from `PreflightConstants` (a non-empty sequence of models), so
for any number of models and any timeout:

* `PreflightTypeCorrect`, by induction over the actions.
* `Fresh`, `Pass`, `CleanExit`: none of the three properties is inductive. That a
  confirmed copy is fresh needs that the wait before the load emptied the model's
  place and that nothing but the load can have filled it since; that in turn needs
  that no load has been given up while the checks run, because the first failure
  ends them. `Checking` says this; `Reporting` says what a pass rests on once the
  checks are over. `Reported` is their conjunction with `ConfirmedCopiesAreFresh`; it is
  inductive with the type invariant (`NextReported`, one step per action), and the theorems
  follow from it.

and of `Placement` from `PlacementConstants` (three models, the embedding model
not one of the others, at least one question):

* `PlacementTypeCorrect`: the type invariant bounds the counters only together with `Progress`, which
  says where the run is when they are not yet at their limits.
* `ArmsRanAsRequested`: the property speaks of the verdict, long after the calls.
  `Witnessed` carries it there: while an arm lasts, a copy that served it and was
  not lost is still in memory; once its residency has been read, the copy is in the
  evidence, if that is not empty. `Unbegun` starts it for each arm, `Judged` ends it.
* `MismatchIsALeftover`: a step property, from `CpuLoads`, which says that a CPU
  run's own loads are on the CPU.

**`DashboardProofs`**, from `DashboardConstants` (`Nobody` is no thread and no index), for
any number of requests, arms, runs and questions:

* `TypeCorrect`, by induction over the actions.
* `BuiltOnce`: that the pipeline is built once needs `Locking`: the lock is held by the one
  thread that builds, and `builds` is 1 exactly while that lasts or once it is settled.
* `VerdictHolds`: the page is written long after the status was taken. `Steady` carries the
  status to it: a pipeline that is set never changes, and a status was taken of it.
* `Paired`, `ShownIsFrozen`: the loader is a loop over runs. `Grid` is its invariant
  (`Columns`: every column of the grid so far is of an admitted run, in its own arm, of
  its own question; `Frozen`: every admitted run is a recorded one and its column is
  recorded content), `Whole` what the checks after the loop add. `AdmitGrid`, by way of
  `JoinedColumns`, shows that one more run keeps `Grid`.

**`CountingLemmas`**. The library's induction theorems take an operator as a parameter,
which no installed prover can instantiate. A lemma here takes a set instead, of the things that have
the property in question. `Least` and `Greatest` come from the well-foundedness of the natural
numbers; `CountUp` is induction over the values of a recursive function up to a bound,
`SubsetInduction` over the subsets of a finite set. The rest are the laws of
`SumFunctionOnSet`, which is defined by an arbitrary choice at each element: `SumExists` and
`SumsAgree` show that it does not matter, and sums then can be split, compared, bounded,
scaled and renamed.

**`BlindScoringProofs`**, from `ScoringConstants`, for any number of items, logs of any length
and any number of crashes and repairs:

* `TypeCorrect`, by induction over the actions; a log that ends in a fragment is not empty.
* `FinishedIsComplete`: the property is inductive with `TypeOK`. The judgement that finishes a pass
  finds no item left, ahead or before it (`Unjudged`), among those the pass remembers with it.
* `OneSheet`: `Bound` says that before a session there is nothing judged and nothing open, and
  that an open pass shows the session's sheet. It is inductive with `TypeOK` and the property.
* `ConfirmedReplay`: replaying a log takes the last line of an item that can be read. What
  the scorer saw confirmed must be that line or an earlier one. `LogOrdered` says that the
  revisions of an item never fall along the log, `Remembered` that an open pass knows the latest of each
  item, and `Kept` adds that a confirmed judgement is still in the log unless a repair deleted its
  line; `Greatest` gives the last line of an item.

**`ArmRunProofs`**, from `RunConstants` (at least one split, each with a question, no question
twice in a split), for any number of questions, runs, crashes, rebuilds and edits:

* `TypeCorrect`, by induction over the actions: directories are never removed, so what names
  one goes on naming one (`MoreRuns`).
* `PublishedComplete`: an index names what the invocation collected, and that was complete when it
  was finished. `Written` describes the run being written record by record, `Collected` the
  finished ones. That they stay as they are is `FinishedIsFinal`: only the run being
  written changes, and a summarised run is never it.
* `ContrastIsPaired`: `Baseline` keeps the drafts of Arm B equal to what its directory recorded, and says
  that B is not still to come once D is done; `PairedDirs` is the pairing of the two directories
  before they are published.
* `ReplayIsPaired`: `Sourced` says that the drafts in memory are those read back from the source and that
  nobody writes to the source; `FromTheSource` is what is left of this in a finished replay. The
  source may be a run that died: the theorem holds because the contrast is computed only when both
  runs answered the same questions.

**`IngestProofs`**, of `Ingest` from `IngestConstants` (folders of finitely many documents,
identifiers and scores that are numbers), for any folders, edits, scores and `top_k`:

* `TypeCorrect`, by induction over the actions.
* `Wiring`: the property quantifies over chains of supersessions in a corpus that is in use,
  while the folder it came from may have been broken since. `CorporaAreSound` says of each process
  that its corpus was loaded: finite, one document for each identifier, wired. It is
  inductive with `TypeOK`.
* `OverTheCorpus`: `Opened` says that an index, once opened, holds the chunks of the corpus read
  before it, in the space of the model configured then. It is what the comparisons of `Index.load`
  establish, and no later write of the file can undo it.
* `FilterKeeps`, `CitationsResolve`: `Derived` carries retrieval and generation to the end
  of the call. The rest is about ranking: the order is total on what was
  scored (`Orders`; ties are broken by the identifier), so ranks are distinct and the
  hits under the filter are the best of the pool that the filter leaves.

and of `Chunker` from `ChunkerConstants`, for documents of any lines, any budget, minimum and
marker, with or without overlap. One invariant, `ChunkerInv`, carries the four theorems:

* `split_blocks` is a recursive function of the lines. `Gathers` says that after `n` lines every
  line that is not blank is in a block or in the buffer, in order, and no two rows
  or item lines that belong together are apart; `Stands` that the buffer knows whether a fence is
  open. `CountUp` takes both from one line to the next.
* `NothingLost`: `Filing` says that after `k` blocks each of them is whole in a chunk or among
  the gathered, in its place, and nothing else is.
* `CopiesAreThere`: `CopiesHold`, and `Carrying` that the sentence to carry is of the last chunk. Without
  the latter the copy that opens the next chunk could name any.
* `LabelsTrue`: `Stacked` says that the stack holds, each at its level, the headings that no
  later one has ended; that is the `Scope` which the property reads off the lines.
  `Labelling` says it of what is gathered and of the chunks.
* `SizesJustified`: `Sized`, of the own words and of the words with the copy, which `Budgeted`
  keeps apart: only a chunk that opens with a copy can exceed the budget by the copy. After a merge the
  copy of the tail is inside, so the merged chunk must be within the budget with it; the words of
  both chunks add up to the merged one's (`MergedWords`, over `SumRenamed`), and the test of the merge
  is of that sum. `LastFollows` says that a last chunk below the minimum was closed only by a
  block that left no room. That this block still opens the next chunk when it is emitted is
  why it speaks of what is gathered.
* `Close` merges the tail, after which none of this is inductive any more; `Complete` is what
  remains, for the chunks as they are returned.

A proof attempt corrected `SizeIsJustified`. It had said that a last chunk whose own words are
below the minimum does not fit into the one before it. The code compares the words including
the carried sentence (`chunker.py:430`), so such a tail can stay alone although it would fit. With
the constants of the run this never happened. The property now says it of the words that are
compared, and the run has a budget and a minimum for which the two differ.

**`EvaluationProofs`**, of `GoldData` from `GoldConstants`, for any registries, documents and hand
edits:

* `GoldTypeCorrect`, by induction over the actions.
* `SplitsSealed`: the property speaks of the registry and documents of now, and they change after
  a build. `BuiltIsSealed` speaks of those whose hashes the file records; it is inductive, and when
  the hashes agree the two are the same. Of the builder's five checks it needs three.
* `StillMet`: `AcceptedIsSettled` of the registry and documents last found valid, and `BuiltIsTyped`, that
  a question's behaviour is that of its family in the registry whose hash the file records. When the
  hashes agree, these and the files of now are the same.

of `Protocol` from `GateConstants` and `ProtocolConstants` (a run holds one record for each question), for any
families, thresholds, questions, models, blocks and replies:

* `GateMonotone`: `GateIsRead` says that the gate is that of the latest pilot. The rest
  compares two runs that differ in one record: `CountsImprove` and `DetectionImproves` for the
  counts and majorities, `CompletenessImproves` for the mean over families with its shrinking
  denominators. A better record may add a family to that mean, which is why `TotalRange` bounds it.
* `RefusalsBuyNothing`: the same comparison for one more refusal.
* `SameInput`: `InOrder` says what each stage has behind it, and that the rows are those of the
  blocks that are over.
* `RuleEarned`: the rules read sums over entries; the property reads families in blocks. Which families
  have their pair in the evidence is the same for every block and model (`OneSight`), and the families
  found in the blocks add up to the sum (`PairsAdd`, `FoundInBlocks`), so that a mean is above half
  of the families exactly if most of the pairs were found (`MostlyIsFindsMost`). If Qwen's are
  more than Llama's, one of them is not Llama's: that is the family of R3. For R2 a gap
  between totals over blocks and models is one between two of their summands (`GapIsOfABlock`).

and of `Analysis` from `AnalysisConstants` and the initial condition `Filed`, for any arms, runs,
questions and judgements:

* `RowsOfTheirAnswers`: `Computed` says that each stage has behind it what the ones before it
  checked, of inputs that nothing writes. That every arm has a code of its own
  is not given: it follows from the counts once no code is without an arm (`KeyIsWhole`).
* `FamilyUnit`: asking all questions of one family twice doubles its sums and its counts (`TwiceCounts`) and
  so leaves its means (`MeanIsOfTheFamily`) and every verdict.
* `RulesAgreeing`: swapping the arms of a contrast mirrors it (`ContrastSwapped`), and the sums with
  one family left out count every family in all but its own (`FoldsSum`).
* `DiagnosticWhole`: the report counts records family by family, the property questions. Each record of
  the frozen arm D run is of another question (`AnswersOnce`), and the counts of the families add up to
  the group's (`SumOfKinds`).

### Only model-checked

* Liveness: `Termination`, `ReplayNeverWaits`, `LiveWaitsOnlyForABuild`. Fairness and `ENABLED` are beyond
  the prover.
* `IsolationClaimIsTrue`, which is false.

What the theorems leave to TLC besides: that the `MC` modules' initial states are ones the programs
can be in, and that the interesting cases occur in them. `MCProtocol`, `MCAnalysis` and `MCDashboard` restrict
the initial states of their modules, so their runs are instances of the theorems.

## Not modelled, and why

* Prompts, wording, tables, figures, pages: text that no decision reads back. `render.py`, the
  chart scripts and the one-off measurements (`benchmark.py`, `check_determinism.py`, ...) change no
  state that a modelled part reads.
* The numbers behind a ranking, the tokenizer of the serving rule's overlap, the bootstrap and
  its intervals, H5 and the descriptive metrics: numerical results, for which a test with known
  values says more than a small model. The category filter of the retriever and the ratio of
  `assign_splits` have no caller.
* Floating point. Means are exact in the models; a difference of exactly the margin is a known limit above.
* `ArmRun`: two runs of one arm and split begun in the same second share a directory; a run that
  calls a model takes longer, so names are taken as distinct, and `--arms` names an arm at most
  once. Performance runs are in `Placement`.
* `BlindScoring`: the build writes sheet and key in one step, and each pass is opened once at a time.
  `consistency`, `drift`, `agreement` and `status` only report.
* `Preflight`, `Placement`: a second client of the server, partial offload, and an interrupt of the
  `finally` block.
* `answer_scoring.py`, `freeze_verifier.py`, `reparse_run.py`: one pass from files to a record.
* Configuration: read once; the modules take its values as constants.

## Plan

In this order:

1. `BlindScoring`: sheet and key written one after the other, with a crash between them, and what
   `unseal` makes of a new sheet beside an old key.
2. A theorem that the invariants of one module say what the next one assumes: that a run published
   by `ArmRun` is one that `Authenticity` can admit, and a sheet built by `BlindScoring` one that `Filed`
   describes.
3. Two writers in one run directory, as the mock pipeline could have them.
4. The residency of a partly offloaded model in `Ollama`.
