# Verification of the call analysis stand

This directory holds TLA+ modules about the program in `src/`: a stand that
takes audio recordings of sales calls, transcribes them, has two analysers
(`v2`, `v3`) write reports on them, and publishes pairs of transcript and report
for evaluation. The modules say what the program does to its tables and buckets,
statement by statement; TLC checks them on small instances and TLAPS proves the
most important theorems for every value of the constants.

## 1. Inventory

The program keeps all of its state in Iceberg tables reached through Trino
(`analysis.calls`, `transcriptions`, `call_reports`, `report_inputs`,
`llm_calls`) and in object storage (`raw-files`, `eval-datasets`). The flows
share nothing else; they meet in those tables. Inside one flow run a call goes
through a transcriber or an analyser, which keep nothing between calls but talk
to a speech recognition service and to models behind a proxy.

| part | state | operations | what makes it correct |
|---|---|---|---|
| table statements (`pipelines/analysis/tables`) | the five tables | candidate queries, `next_versions_for_calls`, inserts, `demote_current_for_calls`, journal | versions without gaps, one current row, retry budget, journal that refers to real rows |
| transcription flow | a run: candidates, buffered results, the statement it is at | fetch, transcribe, persist (4 commits) | a transcribed call stays transcribed, never paid for twice, every call settles |
| call report flow | the same, per analyser | fetch, analyse, persist (5 commits) | analysers do not affect one another, lineage is true |
| wave and batch driver (`_orchestration.py`) | loop position, buffer | submit a wave, wait, flush chunks, flush the tail | order, completeness, bounded loss, few commits |
| seeder (`seed_calls.py`) | known ids, rows to insert | upload, insert | a call is recorded once, never before its audio |
| eval export (`eval_export.py`) | records, key | query, check key, upload | a dataset never changes, its pairs are real |
| transcriber (`ai/transcription`) | a timeline under construction | split, upload with retries, stitch, label, polish | what a boundary of slices may cost is bounded |
| report v3, report v2 (`ai/reports`) | payload under construction | a chain of model requests | which failure loses what; scores only of judged calls; verdicts agree with scores; quotes kept are in the call |
| LLM tracing (`ai/shared/llm_tracing.py`) | two context variables | bind, collect, stamp | a request is booked to the call that made it |
| GigaAM service (`ai/infra/gigaam/app`) | a gate for one inference, temporary files | transcribe | one inference at a time, every request answered, files removed |
| evaluation (`ai/evals`) | scores of a sample | run an analyser, check its report | the checks see the call as the analysis did, and no repair hides a guess from them |
| LiteLLM patches, deployment scripts, trials | - | - | third party or configuration |

What is hard here:

* **No transactions.** The Trino connection is in autocommit, and each insert,
  journal and demote is a commit of its own. Everything can come in between.
* **No mutual exclusion.** The process work pool has no concurrency limit and no
  flow looks whether another run is in flight.
* **No retries.** A run that raises, or whose worker dies, ends where it is.
  What a later run does about it is decided by the candidate queries alone.
* **Answers of any kind.** A model may answer nothing, cut JSON, JSON of another
  shape or numbers as text; each stage of an analysis has its own idea of what to
  do then, spread over functions of several modules.
* **Clients that leave.** A request for an inference outlives its client, which
  comes back with the same slice.
* **Stale reads.** Candidates, `max(version)`, known ids and the existence of a
  key are all read some statements before they are used.

`PROJECT.json` lists each such hazard at its line, with the properties that
would catch it going wrong, or the reason why none does yet.

## 2. Modules

| module | models | proofs |
|---|---|---|
| `AnalysisTables` | the SQL statements, as operators on sets of rows | `AnalysisTablesProofs` (lemmas) |
| `TranscriptionFlow` | `transcription.py`, one action per commit | `TranscriptionFlowProofs` |
| `CallReportFlow` | `call_report.py`, one action per commit | `CallReportFlowProofs` |
| `OrderedDelivery` | abstract: results of N candidates arrive in order, once | |
| `BatchedPersist` | `run_with_batched_persist`, any wave and batch size | `BatchedPersistProofs` |
| `Seeder` | `seed_calls.py` | |
| `EvalExport` | `eval_export.py` | |
| `AnalysisPipeline` | composition of seeder and the three flows on one set of tables | `AnalysisPipelineProofs` |
| `GigaamService` | handlers, gate, files and deaths of the speech recognition service | `GigaamServiceProofs` |
| `SpeechSegments` | glueing, splitting and stitching, as operators over timelines of words | in `TranscriberProofs` |
| `Transcriber` | composition of tasks of `transcriber.py` and the service | `TranscriberProofs` |
| `LlmTracing` | the context, the stamps and the extras of a request, as operators | |
| `ManagerScoring` | the manager's score of one call and of a chain (`call_v2/scoring.py`) | |
| `CallEvidence` | locating a quote, swapped labels, repaired timecodes (`transcript.py`, `manager.py`, `timecodes.py`) | |
| `ManagerCriteria` | projection of quotes (`qc.py`), N/A rules and verdicts (`manager.py`) | |
| `AnalysisRequests` | the state of an analysis, and one request under tracing | |
| `CallReportV2`, `CallReportV3` | the two analyses, one action per request | |
| `EvalChecks` | the checks of a report (`ai/evals/checks`) | |
| `ReportAnalysis` | composition: one call put through an analyser by the flow, by a chain, by the evaluation | `ReportAnalysisProofs` |
| `MC*` | values of constants for TLC | |

**Rows.** A table is a set of records. A row's identifier is a number handed out
by `new_id()`; a later number is a later row, which also stands for
`created_at`. Texts, payloads, models, costs and timestamps are not kept. The
payload of a report is represented by the transcript it was computed from
(`source`): this is what the lineage table claims to record, and what lets a
property compare the claim with the truth.

**Runs.** A member of `Runs` is a slot in which one flow run after another may be
in flight; `pc[r]` names the statement the run issues next. The flow of a chunk
through `_persist` is

    ReadVersions -> Insert (-> InsertInputs) -> Journal -> Demote

with `Insert`, `InsertInputs` and `Demote` left out for a chunk without a
success, as in the code. A run that finds no candidate returns at once and
changes nothing, so it is no step. Both flows call the driver with
`parallelism=1`; so a chunk is always the whole buffer there, and the general
driver has a module of its own.

**Failure.** `transcribe_candidate` and `analyse_candidate` turn every exception
into a result with `ok=False` and no stamps; `Outcomes` has both results, with the
number of records (`stamps`) each carries. `ReportAnalysis` and `Transcriber` are
what this choice stands for. `Crash` ends a run between any two
statements: a statement that raises, a killed worker, or a lost connection.

**Unreachable cases left out.** A successful attempt with an empty text or
payload (the transcriber raises, and the analysers never return an empty one);
calls without `audio_key` (the seeder always sets it, though `Candidates` checks
it); transcripts with NULL text (never inserted); an export with a `limit`.

**Composition.** `AnalysisPipeline` instantiates the four components over the same
table variables, each with its own run state renamed, and its `Next` is their
disjunction: no component sees another's private variables. The journal is one
table, and identifiers come from one counter.

**One analysis.** `AnalysisRequests` has the state of one thread: the request to make
next, what the finished stages were answered, the payload, the context variable and
the buffer of stamps, and the requests as the endpoint saw them. `Ask` is one request
with everything the tracing does around it; `CallReportV2` and `CallReportV3` have an
action for each stage and each way it may end (answered, unparseable, cut, no object,
no answer). What the code does between two requests is in the action of the answer.
`ReportAnalysis` adds the three callers: the task of the flow, which collects stamps and
turns a failure into data; the chain, which scores the call among earlier ones; the
evaluation, without a proxy, which scores the report with the checks.

**Text.** A quote is what can be said of it: the segments it comes from, how
faithfully, how long it is, which segments share a long word with it. From these
follow what `partial_ratio` and the prefilter answer. A model's answer is a member
of a small set chosen so that every branch of the code is met. Scores are counted in
half points.

**Speech.** Time goes in slots of one word. What is said is chosen when the last
slice has been answered, which is when it first matters; what the recognition hears
in a slice is what is said in it. Words, full stops and silences decide how words are
glued into segments, and segments how slices are stitched. A segment is the set of its slots and a
timeline the set of its lines, each with the slice it was heard in; the order of a
transcript follows from both, and its texts are not kept. The service knows nothing
of speech; the task knows nothing of the gate. They share requests and answers.

## 3. Runs

Passing runs:

| run | question | bounds |
|---|---|---|
| `TranscriptionSerial` | runs that do not overlap: `KeepsCurrent` (the promise of the writer's docstring), `NeverTranscribedTwice`, and `EveryCallSettles` | 3 calls, two of them a tie in `started_at`; limit 2 so that the head of the list can starve the third; budget 2; a crash; 7 runs, which is what 3 calls with budget 2 and a crash can use up |
| `TranscriptionOverlap` | what survives two runs interleaved by statement, with 2 crashes: `VersionsContiguous`, `RetryBudget`, `JournalRefersToArtifact`, `JournalLossBounded`, `DemotedOnlyWhenReplaced`, `OnlyDemotes` | 3 calls, chunks of 2, 3 runs, budget 1 (the overshoot is one, and shows) |
| `CallReportDeployments` | the two deployments side by side: `AnalysersIndependent`, `OneCurrentReportEach`, `EveryTranscriptSettles` | 2 calls, one with two transcript versions; 5 runs, 1 crash |
| `CallReportOverlap` | runs of either analyser overlapping: numbering, budget per analyser, what lineage still says (`LineageWithinChunk`), lineage and journal after a crash | 2 calls, one with two current transcripts, as overlapping transcription runs leave it; chunks of 3, so that one chunk holds both and the other call; 3 runs, 1 crash |
| `BatchedPersist` | the driver implements `OrderedDelivery` (`DeliversInOrder`); `LossBounded`, `OnlyTheTailIsShort`, `ReportedIsWritten` | 7 candidates, waves of 3, batches of 2: neither divides the rest, and a wave holds more than a batch |
| `AnalysisPipeline` | from a file to a dataset: `OneRowPerCall`, `RowHasAudio`, `PairsTruthful`, `DatasetsImmutable`, `EveryFileReported` | one run of each kind at a time, so that no call is transcribed twice and no two exports overlap; 2 files, 2 seeds of which one may die, a report run that dies, 2 exports and a tick of the clock, budget 1 |
| `ReportAnalysis` | every course one analysis may take: which failure loses the report (`LostOnlyForCause`), what is scored (`ScoreOnlyWhenJudged`), what the journal is told (`StampsTellStages`), what quotes are kept (`KeptQuotesArePresent`), whether verdict and score agree (`WeaknessesCostPoints`), whether the checks measure the model and not the repair (`RepairHidesNoGuess`, `EvalSeesTheSameRoles`) | the 8 combinations of analyser, caller and recording that differ (labelled, swapped, undecided, mono; with, without and with a broken proxy); per stage 2 to 5 answers which between them have exact, loose, invented, short and spanning quotes, right, wrong and missing timecodes, full, half and no points, null and textual numbers, a missing total, a type that is a list; every reply to every request, the empty one and the one without choices among them; 282 486 states |
| `Transcriber` | the task and the service: `OneInference`, `FilesAreAccountedFor`, `EveryRequestIsAnswered`, and what slicing, glueing and stitching cost at most (`StitchedWithinBounds`) | one task, whose retries and orphans are what contends at the gate: 2 attempts of an upload, 5 requests, 1 death of the process; a recording in one upload or in three slices of 4 words that overlap by 2; segments of up to 4, longer than half an overlap, as with the defaults; silence, and every speech with at most two stops or silences |

What the runs with one slot do not show: the interleaving of two transcription runs,
for which `KeepsCurrent` and `NeverTranscribedTwice` are false, is met in
`TranscriptionLosesCurrent`; the re-transcription for which `PairsTruthful` is false in
`EvalExportStalePair`; and that two exports overlap within one second
(`eval_export.py:106`) in no run. For them `DatasetsImmutable` is false; it is checked
and proved for exports that follow one another.

Runs that show a statement of the code's documentation not kept by the code. The first
two need runs that overlap; that is allowed by the code and by the deployments, and
excluded nowhere:

| run | statement | what happens |
|---|---|---|
| `TranscriptionLosesCurrent` | `writer.py:14` "That ordering never leaves a call without a current artifact" | insert, insert, demote, demote: each demote keeps only its own rows |
| `EvalExportStalePair` | `eval_export.py:3` "the current report produced for it" | the join asks only that both are current rows of the call |
| `ReportScoresEmptyQc` | `call_v3/core.py:306` an empty qc is not to be carried on, as its score is the worst | an answer that parses but has no object under `qc_scores` is an empty qc with `qc_ok` true, and is scored 1 |
| `TranscriberLosesSpeech` | `transcriber.py:200` "speech legitimately starting at the boundary isn't lost" | a segment that starts before the threshold is dropped whole, its words beyond the end of the slice before with it |

Further statements the model shows or the reading shows not to hold, without a run
of their own:

* `writer.py:16` "Two is recoverable — the next demote collapses it": after a crash
  between insert and demote the call has a current transcript, is no candidate any
  more, and no demote ever concerns it.
* `001_analysis.sql:61` "One row per LLM call ..., including failed ones": a failed
  attempt has no stamps, and one row.
* `call_report.py:85` lineage is looked up by call: of two current transcripts of one
  call in one chunk the last one is named for both reports. `LineageWithinChunk` says that
  this is the worst that happens.
* `llm_tracing.py:229` `profanity_check` is to be sent only when the proxy is in the
  path: with the proxy on but without a key the client is the direct one and the
  parameter is sent.
* `manager.py:182` a textual total or count is not to bring the call down; the scoring
  raises on it, and the report is lost after all its requests were paid
  (`LostOnlyForCause` names the case).
* `manager.py:172` "mirrors calc_manager_score_1to10": where the answer tells no number
  of objections (no total, a null one, or no such object), the scoring leaves the
  techniques out (`scoring.py:89`), the verdict does not (`manager.py:186`), and the
  report reproaches what cost nothing. `WeaknessesCostPoints` says that this is the only
  such case: every other weighted criterion listed as failed was in the sum and earned
  less than its full points. The other direction does not hold: half a point passes
  criteria which have no half points and earns nothing there.
* `scoring.py:178` the score of a chain skips no criterion of a repeated call, so as not
  to lose a credit of the chain. The advantages, which no chain credits, do not apply to
  such a call and still count, with no points (`scoring.py:75`); the other criteria that
  do not apply are left out.
* `core.py:257` of v3 "an unreadable answer of the filter is no reason to lose the call":
  a `call_type` that is a list or an object is, at line 262, outside the `try`; so is an
  answer without choices at any stage (line 149). `LostOnlyForCause` names both.
* `errors.py:3` says that the flows tell transient from terminal errors by their code;
  they do not look at it.
* `transcriber.py:154` "a word straddling the boundary is captured on both sides; the
  duplicate is removed": half an overlap of words at each boundary may still stand twice
  (`StitchedWithinBounds`). If an overlap is longer than half a slice, a slice meets the
  second after it, and a word may stand three times: TLC shows it with slices of 6, an
  overlap of 4 and a recording of 10. `transcriber.py:172` asks only that a slice be
  longer than an overlap; the defaults, 600 and 5 seconds, are far from it.
* `transcriber.py:331` and `389` read `choices[0]` outside the `try` that makes these
  stages soft: an answer without choices fails the task after the recognition.

**Bounds.** Each is a constant with `Max` in its name and sits in a guard: flow
runs started, crashes, seeds, aborted seeds, exports, seconds, requests of a task
(`MaxPosts`, enough for every upload and two retries). `MaxFailed`, `Limit`
and `ChunkSize` are no bounds but settings of the program. In the liveness runs
the bound on runs is large enough for all the work that crashes and failures can
cause, so that it is never the bound that makes a run stop.
Deadlock is not checked: every system here may come to rest, when there is no
candidate left, or the driver has returned.

**Symmetry.** Run slots are interchangeable in the two overlap runs and declared
so; those runs check no liveness.

**Fairness.** `WF(Step(r))`: a run in flight goes on to its next statement or ends;
this is what the worker does. `WF(Fetch(r))` and `WF(Begin(s))`: somebody triggers
the deployments, and the seeder, as long as there is work. No deployment has a
schedule (`prefect.yaml:7`), so this is an assumption about the operator, and
all liveness here says "if you keep triggering it". Nothing is assumed of
crashes, of outcomes, of exports or of the clock. In `Transcriber`, `WF(Load)`: the
container policy starts the process again; `WF(Handle(r))` for every request: the form
is received, and an inference ends (the code has no limit on it, but the library
returns). Nothing is assumed of the tasks.

## 4. Proofs

All of these hold for any set of slots, calls and settings that satisfy the
named assumptions in the modules (`RunsAssumption`, `SeededCallsAssumption`,
`SizesAssumption`, ...).

`TranscriptionFlowProofs`:

* `TypeCorrect`: what the flow alone writes and holds (`WorkTypes`) is kept apart from
  the journal in `TypeOK`: the journal is one table for both flows, so of the two only
  `WorkTypes` remains an invariant of a flow in the composition.
* `VersionsStayContiguous`: `VersionsContiguous` is not inductive: a run holds an
  old answer of `max(version)` while others insert. The strengthening `VersionInv`
  adds that an answer a run still holds is at most one more than the largest version
  in the table; since the table only grows, the answer stays either a number in use
  or the next one, and inserting it leaves no gap.
* `RowsOnlyDemoted`: the action property `OnlyDemotes`; only `Insert` and `Demote`
  write the table.
* `JournalStaysTrue`: from `JournalInv`, which says that the rows of a run past its
  insert are in the table, possibly demoted by now, and that the rows of a run past
  its journal are in the journal.
* `DemotedInFavour`: `DemotedOnlyWhenReplaced`. The row that replaces a demoted one
  is the run's own: `CommittedRows` gives the row and `JournalledChunks` its journal
  entry.
* `SerialKeepsCurrent` assumes that there is one slot (`Serial`). `CurrentInv`: a run
  past its insert has, for each call of its chunk, a current row of its own in the
  table, which its demote leaves alone. A run that dies leaves two.
* `SerialNeverTwice` assumes one slot and one row per call (`OneRowSeeded`).
  `SingleInv`: a call has one transcript at most, a current one; the calls a run still
  has before its insert have none (`FreshWork`) and differ from one another
  (`HoldsWork`). So its demote finds nothing to demote.
* `BudgetOvershoot` and `JournalLoss` are about any number of overlapping runs and
  count. `BudgetInv`: the failures of a call and the runs that may still add one
  (`Pending`) are together at most `MaxFailed - 1 + Cardinality(Runs)`; a run becomes
  pending only while a failure is still allowed, and its journal trades its place for a
  row. `LossInv`: the identifiers of rows without a journal entry that belong to no run
  in flight number at most a chunk for each crash; it needs that no identifier is given
  out twice and that the chunks in flight own theirs (`IdsFresh`). Both assume
  `OneRowSeeded`, as a call with two rows may fail twice in a chunk; the first also that
  there is a budget or a slot (with neither, its bound is -1).

`BatchedPersistProofs`, for all `N`, `Parallelism` and `BatchSize`: the invariant
`Inv` says that what has been delivered, followed by the buffer, is exactly the
candidates of the waves collected so far in order (`InOrder`), that the buffer
between waves is shorter than a batch (`BufferBounded`), and that no task beyond
the current wave has finished (`FinishedWithinWaves`). From it follow
`LossIsBounded`, `CommitsAreFull`, and `ImplementsPromise`: under `Status` every
step of the driver is a step of `OrderedDelivery` or a stutter. `CountIsTrue` adds
that the number reported so far is that of the delivered results with a row
(`CountInv`): a chunk of consecutive candidates has as many rows as the interval it
covers has such candidates.

`GigaamServiceProofs`, for any set of requests and any number of crashes:
`GateHolds` needs `GateInv`: nothing runs and nothing waits while the permit is free,
and the queue holds queued handlers, each once. A release hands the permit to the head
of the queue, which must be a waiting handler and no other.
`FilesStayAccountedFor` follows the file from the write to the answer.

`TranscriberProofs`: `ImplementsService` shows that the composition, with its tasks,
retries and orphans, is a behaviour of the service alone, so its invariants carry over
to every number of tasks (`TranscriberKeepsGateAndFiles`).

The same module has `StitchingStaysWithinBounds`: `StitchedWithinBounds` for every
recording, every speech and every length of slice, overlap and segment that
`ChunksAssumption` and `RecordingsAssumption` admit. The invariant itself is short
(`Timeline`: a task past its last slice holds the transcript of what was said in its
recording); the work is in the operators:

* `BegunSolves`: the recursive function by which words are glued has a solution on every
  speech. Without induction over data this is shown by way of a least word up to which
  there is none. From it `GlueSegments` has what the rest needs (`Segmented`): segments
  share no word, cover what was said, leave no word out between their first and their
  last, and all of a segment's words but the last end before `GlueMax`.
* `SplitCuts` and `SlicesCover`: the slices of a recording start a stride apart and
  cover it (`Cut`); the results of a transcription are segments of what was said in each
  (`Sliced`).
* `HeardBefore`: every word said before the end of an earlier slice lies before the end of
  what was heard (`HeardTo`), and if anything was heard that end is just behind a word of
  the recording. A silent slice, or one of which all was dropped, does not disturb this.
* `LossAtBoundary`: a word missing behind a slice is in a dropped segment of the next;
  that segment starts before the threshold and reaches beyond it, so all missing words
  belong to one segment, and what is left of its length is the bound. Boundaries
  add up by `UnionBound`.
* `SeveralCopies`, `DoubledAreBounded`: of a word that stands twice the later copy is in a
  segment that was kept, so it lies behind the threshold, and before the end of what was
  heard. `CopiesAreBounded` is where `ShortOverlaps` comes in.

`CallReportFlowProofs`, for any runs, analysers, transcripts (finitely many to begin
with), limits, chunk sizes and crashes:

* `TypeCorrect` and `VersionsStayContiguous` share `VersionInv`: the analyser of a run
  is chosen while the run is in flight, the versions of a call are an interval from 1
  for each analyser, and the number a run still holds to insert is 1 or follows one the
  table has.
* `FinishedReportsHaveLineage`: `RecordedLineage` says that a run past its second
  statement has recorded the inputs of its results. A crash before leaves a report
  without inputs, but no journal row that says it is done.
* `DemotedInFavour`: the report that replaces a demoted one is the run's own, which
  `CommittedReports` keeps in the table.
* `LineageStaysInChunk`: `LineageWithinChunk`, without a hypothesis. A run that writes
  lineage has its reports in the table as it planned them (`PlannedReports`), has only
  read current transcripts (`SourcesRead`), and holds a chunk at most (`ChunkFits`); the
  lookup by call answers with a result there or further on (`SourceIsOfTheCall`).
* `LineageIsTruthful` assumes that no call was given with two current transcripts
  (`OneCurrentGiven`). Then the row names the transcript of its own report
  (`LineageTruthful`); without it the lookup can name the other one
  (`call_report.py:85` above).
* `AnalysersStayIndependent`: a step writes rows of one analyser only, which leaves the
  reports and the candidates of the others as they are (`OthersUntouched`), and the run
  that takes it moves on (`WritersMoveOn`).

* `OneReportEach` assumes `OneCurrentGiven` and one slot for an analyser (`OneSlotEach`), as
  `SerialNeverTwice` does for transcripts. `BudgetOvershoot` assumes `OneCurrentGiven` and
  counts per analyser: other analysers' failures and slots do not matter; for calls with
  several current transcripts `RetryBudget` is only model-checked. `LineageLoss` has no hypothesis.

`AnalysisPipelineProofs`, about the stand as a whole. The proofs of a flow are not done
again: each has a lemma for every step of its own, and one for a step that is not
(`Neighbour`, `Elsewhere`: rows of calls, or transcripts, come in and identifiers are
taken). `TranscriptionSees` and `ReportsSee` show that every step of the stand is one
or the other. The two instances of a flow's definitions, through the model and through
its proofs, are identified by the lemmas named `...Same`.

* `AudioFirst`: `RowHasAudio`, without a hypothesis. `AudioInv` follows the rows a seed
  holds: their audio is uploaded.
* `SeededOnce`: `OneRowPerCall`, for one seed at a time (`OneSeeder`) over files with
  stems of their own (`OwnStems`). `FreshRows`: a seed in flight knows every recorded
  call, and its rows are of others. Two seeds break it, as does a stem twice
  (`seed_calls.py:90` among the hazards).
* `DatasetsKept`: `DatasetsImmutable` for one export at a time (`OneExporter`).
* `StandVersionsContiguous`: versions of transcripts and reports in the stand, with
  everything overlapping.
* `StandTranscribesOnce`, `StandLineageTruthful` (`OneTranscriber`: one seed and one
  transcription run at a time, any number of report runs) and `StandReportsOnce`
  (`OneOfEach`: one slot for each analyser as well). The hypotheses the flows had about
  what they are given, `OneRowSeeded` and `OneCurrentGiven`, are shown to hold here:
  the seeder provides the first, the transcription flow the second.
* `PublishedPairsTruthful`: `PairsTruthful` under `OneOfEach`. The export's query asks
  nothing of the kind; the pair is right because the transcript a current report was
  computed from is the only one its call has (`JoinedTruthful`).

No line of the code keeps runs, seeds or exports from overlapping, so the hypotheses
`Serial`, `OneSlotEach`, `OneSeeder`, `OneExporter` and those built from them are about
how the stand is operated. Runs of section 3 show what happens otherwise:
`TranscriptionLosesCurrent` and `EvalExportStalePair`.

`ReportAnalysisProofs`, about one analysis, for any transcripts, classifications and
answers within the assumptions of `ReportAnalysis`:

* `AlwaysStanding`: the invariant the rest stands on. None of the properties is
  inductive, as they look at a report and the actions change it stage by stage.
  `Standing` says of every step what the report is: of the two analyses, which one made
  it, out of which answers kept in `work`, and whether a chain has scored it again.
  What a report says is then a matter of the operators that make it.
* `RolesAgree` and `RepairsHideNothing` follow from it with lemmas about those: a swap
  done by the analysis and one done by the check are the same (`EvalSeesTheSameRoles`);
  a repaired item is built, for the checks, as it was stated (`BuiltAsStated`), so the
  scores of a repaired report are those of the answers (`SameScores`).
* `ReproachesAreCharged`: `WeaknessesCostPoints`. `FailedCosts` has the verdict on each
  kind of criterion beside the points it earns and whether they are counted, with the one
  exception; `SameVerdicts` carries it to the qc in
  which the criteria that do not apply have been replaced.
* `StampsTrue`: `StampsTellStages`. `StampBook` says of the buffer, while it is filled,
  what the property says of the result: each answered request has one stamp, in order,
  under the label and stage it had in `sent`.
* `NoScoreUnjudged`: `ScoreOnlyWhenJudged`. `Judged` follows the qc stage: once its
  answer is kept, the last of its requests was answered with it. That a score lies in
  0..10 is arithmetic over sums of any number of criteria and of calls
  (`ManagerScoreRange`, `ChainScoreRange`).
* `LostForCause`: `LostOnlyForCause`. `ForCause` ties a lost report to the request that
  was last, to the type the filter answered, and the score to the fields that made it
  raise. The causes are those of the replies the model has; section 5 lists the others.
* `KeptQuotesStand`: `KeptQuotesArePresent`. What is kept is what stands at the
  positions of the claims that were found (`PickedHas`); a claim is found exactly if one
  of the candidates is good enough (`FoundIfPresent`). No candidate is an empty stretch
  (`CandidatesListed`), so an empty answer always means that nothing was found.
* `CheapScanDecidesNothing`: `find_quote_segment` looks at segments that share a mark
  with the quote first; it finds a stretch exactly if one is good enough.

The assumptions are about values, not about what happens. `InputsAssumption`: a
transcript is a sequence of segments, and a chain has finitely many earlier calls.
`AnswersAssumption`: where the code reads a number an answer has a natural number, null
or something that is no number (`Readable`); a criterion is a bare scalar or an object, and a
quote comes from finitely many segments with a percentage of fidelity (`Quotable`); a phrase has no field that the repair adds
(`Phrases`). Numbers are in half points, and negative ones stand for what is no number;
an answer with a negative count is left out. Sums are over sets of any finite size;
as induction over data is out of reach, a property of sums is shown by way of a
smallest set that lacks it (`SumInduction`).

The attempts changed the model in four places. `LostOnlyForCause` used to name only the counts a call's
own score reads; the prover got stuck at a chain with a call that had nothing to handle
(total 0) and a textual number of handled objections. Its own score does not look at
that number, the metrics of the chain convert it all the same (`scoring.py:133`), and the
report is lost. The property now says so, and the run has such an answer. And `CriterionPassed` had two cases that could both apply to a
criterion; it now follows the order of the code's tests. The bound on copies in
`StitchedWithinBounds` had been checked with two slices only and does not hold with three
under a long overlap (section 3); it now says for which settings it does, and the run has
three. The timeline was a sequence put together by recursion over slices and is now a set
of lines, and what `SelectSeq` selected is now `Picked`: the former is a definition with
an operator parameter, which the provers cannot open.

`AnalysisTablesProofs` has the lemmas about `Max`, `Min`, `NextVersion`,
`Contiguous` and `Demoted` the others cite, and those about counting rows by their
identifiers.

Only model-checked is liveness, with the `ENABLED` in its fairness, which is out of the
prover's reach: `EveryCallSettles`, `EveryTranscriptSettles`, `EveryFileReported` and
`EveryRequestIsAnswered`. Every other property of a passing run is a theorem, `RetryBudget` of the
reports with the restriction above. Induction
over data is out of its reach as well; where a function is computed recursively, a theorem
rests on a least counterexample instead.

## 5. Not modelled

* Texts, and what is computed from their letters: prompts and schemas, the similarity
  of two strings (a percentage here), rendering and branding.
* What libraries do: recognition and decoding of audio, the LiteLLM proxy and its
  patches. They are choices of answers here. The agents of v2 ask again for an empty
  answer as their library does (`Agent(retries=2)`).
* Ways an analysis may raise that no answer of a model brings about by itself: a response
  whose HTTP body is no JSON (in the model a request without an answer), numbers too large
  for a float, JSON nested deeper than the parser goes, settings that are missing before
  the first request. An answer that the token limit cut and that parses all the same is
  taken as whole by the code, and so by the model.
* Files and tables printed by the evaluation runs, labelling, the GigaAM trials:
  offline, read by people. A second evaluation run that fails leaves the earlier
  `report.json` in place.
* Storage errors: `object_exists` answers False to any `ClientError`, after which an
  export overwrites a dataset. It has the effect of the race the model has.
* Statements too long for Trino: each is the action `Crash`; that it repeats on every
  run is beyond a bounded number of crashes.
* Dashboards, container and CI configuration.

## 6. Running

    tlc -config TranscriptionSerial.cfg MCTranscriptionFlow
    tlapm TranscriptionFlowProofs.tla

`PROJECT.json` names the module and the configuration of each run.
