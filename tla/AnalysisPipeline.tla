-------------------------- MODULE AnalysisPipeline --------------------------
(***************************************************************************)
(* The stand from the audio directory to the published dataset: the        *)
(* seeder, the transcription flow, the report flow and the export flow on  *)
(* one set of tables.  The flows know nothing of one another; they meet in *)
(* analysis.calls, transcriptions, call_reports and the journal, each      *)
(* reading what the others happen to have committed.                       *)
(***************************************************************************)
EXTENDS AnalysisTables

CONSTANTS
    Seeders, Directory, MaxSeeds, MaxAborts,
    TRuns, RRuns, Exporters,
    Analysers, Serves, StampCounts,
    Limit, ChunkSize, MaxFailed,
    MaxTStarts, MaxTCrashes, MaxRStarts, MaxRCrashes,
    MaxExports, MaxSeconds

\* Paths name files; they and the modification times are ordered.
ASSUME DirectoryAssumption ==
    /\ IsFiniteSet(Directory)
    /\ \A f, g \in Directory : f.path = g.path => f = g
    /\ \A f \in Directory : f.path \in Nat /\ f.mtime \in Nat
ASSUME FlowsAssumption ==
    /\ IsFiniteSet(TRuns) /\ IsFiniteSet(RRuns)
    /\ Serves \in [RRuns -> SUBSET Analysers]
    /\ Limit \in Int /\ ChunkSize \in Nat \ {0} /\ MaxFailed \in Nat
    /\ StampCounts \subseteq Nat
ASSUME PipelineBoundsAssumption ==
    /\ {MaxSeeds, MaxAborts, MaxExports, MaxSeconds} \subseteq Nat
    /\ {MaxTStarts, MaxTCrashes, MaxRStarts, MaxRCrashes} \subseteq Nat

VARIABLES
    calls, transcriptions, call_reports, report_inputs, llm_calls, minted,
    bucket, spc, known, files, rows, seeds, aborts,
    tpc, ttodo, tbuffer, tbase, tversions, tstarts, tcrashes,
    rpc, ranalyser, rtodo, rbuffer, rbase, rversions, rstarts, rcrashes,
    datasets, now, epc, records, key, exports

seederOwn == <<bucket, spc, known, files, rows, seeds, aborts>>
transcriptionOwn == <<tpc, ttodo, tbuffer, tbase, tversions, tstarts, tcrashes>>
reportOwn == <<call_reports, report_inputs, rpc, ranalyser, rtodo, rbuffer,
               rbase, rversions, rstarts, rcrashes>>
exportOwn == <<datasets, now, epc, records, key, exports>>
vars == <<calls, transcriptions, llm_calls, minted, seederOwn, transcriptionOwn,
          reportOwn, exportOwn>>

CallIds == {f.call : f \in Directory}

S == INSTANCE Seeder

\* Every row the seeder can insert.
SeededRows == {S!RowOf(f, n) : f \in Directory, n \in 1 .. MaxSeeds}

T == INSTANCE TranscriptionFlow
        WITH Runs <- TRuns, SeededCalls <- SeededRows,
             MaxStarts <- MaxTStarts, MaxCrashes <- MaxTCrashes,
             pc <- tpc, todo <- ttodo, buffer <- tbuffer, base <- tbase,
             versions <- tversions, starts <- tstarts, crashes <- tcrashes

R == INSTANCE CallReportFlow
        WITH Runs <- RRuns, Calls <- CallIds, Transcripts <- {},
             MaxStarts <- MaxRStarts, MaxCrashes <- MaxRCrashes,
             pc <- rpc, analyser <- ranalyser, todo <- rtodo,
             buffer <- rbuffer, base <- rbase, versions <- rversions,
             starts <- rstarts, crashes <- rcrashes

E == INSTANCE EvalExport

Init ==
    /\ S!Init
    /\ transcriptions = {} /\ call_reports = {} /\ report_inputs = {}
    /\ llm_calls = {} /\ minted = 0
    /\ T!InitRuns
    /\ R!InitRuns
    /\ E!Init

\* What the actions of each component leave alone.
outsideSeeder == <<transcriptions, llm_calls, minted, transcriptionOwn,
                   reportOwn, exportOwn>>
outsideTranscription == <<seederOwn, reportOwn, exportOwn>>
outsideReport == <<calls, seederOwn, transcriptionOwn, exportOwn>>
outsideExport == <<calls, transcriptions, llm_calls, minted, seederOwn,
                   transcriptionOwn, reportOwn>>

Next ==
    \/ S!Next /\ UNCHANGED outsideSeeder
    \/ T!Next /\ UNCHANGED outsideTranscription
    \/ R!Next /\ UNCHANGED outsideReport
    \/ E!Next /\ UNCHANGED outsideExport

Spec == Init /\ [][Next]_vars

\* Runs in flight go on; seeding, transcription and the deployments of every
\* analyser are triggered again as long as there is something for them to do.
SeedWork(s) == (S!Begin(s) \/ S!SeedStep(s)) /\ UNCHANGED outsideSeeder
TranscribeWork(r) ==
    (T!Fetch(r) \/ T!Step(r)) /\ UNCHANGED outsideTranscription
ReportWork(r) == (R!Start(r) \/ R!Step(r)) /\ UNCHANGED outsideReport
Fairness ==
    /\ \A s \in Seeders : WF_vars(SeedWork(s))
    /\ \A r \in TRuns : WF_vars(TranscribeWork(r))
    /\ \A r \in RRuns : WF_vars(ReportWork(r))
FairSpec == Spec /\ Fairness

-----------------------------------------------------------------------------
OneRowPerCall == S!OneRowPerCall
RowHasAudio == S!RowHasAudio
PairsTruthful == E!PairsTruthful
DatasetsImmutable == E!DatasetsImmutable

\* Every file's call ends up with a current report from each analyser, or the
\* stage at which it is stuck has used up a budget of its own: a call that always
\* fails at one stage, a seed that died and a report run that died keep no other
\* file from getting through.
OutOfBudget(c, kind) ==
    Cardinality({j \in llm_calls : j.call = c /\ j.kind = kind
                                      /\ j.status = "failed"}) >= MaxFailed
Done(c, a) ==
    \/ CurrentOf(R!ReportsBy(a), c) # {}
    \/ OutOfBudget(c, T!ArtifactType)
    \/ OutOfBudget(c, R!ArtifactTypeOf(a))
EveryFileReported ==
    \A f \in Directory, a \in Analysers : <>[]Done(f.call, a)
=============================================================================
