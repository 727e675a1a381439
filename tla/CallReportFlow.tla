--------------------------- MODULE CallReportFlow ---------------------------
(***************************************************************************)
(* The flow `analysis-call-report` (pipelines/flows/analysis/              *)
(* call_report.py): one analyser goes over the current transcripts that    *)
(* have no current report from it yet.  Two deployments run it, one per    *)
(* analyser, and both write the same four tables.  Persisting a chunk is   *)
(*   ReadVersions -> Insert -> InsertInputs -> Journal -> Demote           *)
(* with a commit each.                                                     *)
(*                                                                         *)
(* A report's payload is represented by the transcript it was computed     *)
(* from (`source`): that is what the lineage table claims to record.       *)
(***************************************************************************)
EXTENDS AnalysisTables, Sequences

CONSTANTS
    Runs,         \* slots for concurrent flow runs
    Analysers,    \* the keys of ANALYSERS
    Serves,       \* Serves[r]: the analysers slot r may be started with
    Calls,        \* call ids
    Transcripts,  \* the contents of analysis.transcriptions to begin with
    Limit, ChunkSize, MaxFailed, StampCounts,
    MaxStarts,    \* bound: flow runs that find a candidate
    MaxCrashes    \* bound: runs that die

TranscriptRow == [id : Nat, call : Calls, version : Nat \ {0},
                  current : BOOLEAN]

ASSUME ReportRunsAssumption ==
    IsFiniteSet(Runs) /\ Serves \in [Runs -> SUBSET Analysers]
ASSUME TranscriptsAssumption ==
    Transcripts \subseteq TranscriptRow /\ IsFiniteSet(Transcripts)
ASSUME ReportLimitsAssumption ==
    /\ Limit \in Int
    /\ ChunkSize \in Nat \ {0}
    /\ MaxFailed \in Nat
    /\ StampCounts \subseteq Nat
    /\ MaxStarts \in Nat
    /\ MaxCrashes \in Nat

VARIABLES
    transcriptions, \* analysis.transcriptions, only read here
    call_reports,   \* analysis.call_reports
    report_inputs,  \* analysis.report_inputs
    llm_calls,      \* analysis.llm_calls
    minted,         \* identifiers handed out so far
    pc,             \* per run: the statement it is about to issue
    analyser,       \* per run: the analyser_version it was started with
    todo,           \* per run: candidates (transcripts) not attempted yet
    buffer,         \* per run: results not persisted yet
    base,           \* per run: result i of the chunk owns identifier base + i
    versions,       \* per run: answer of max(version), 0 where not asked
    starts, crashes \* history: runs started, runs that died

tables == <<transcriptions, call_reports, report_inputs, llm_calls>>
flowVars == <<pc, analyser, todo, buffer, base, versions, starts, crashes>>
vars == <<transcriptions, call_reports, report_inputs, llm_calls, minted, pc,
          analyser, todo, buffer, base, versions, starts, crashes>>

\* A journal kind that does not tell the analysers apart.
ArtifactTypeOfBoth(a) == <<"call_report">>

\* call_report_artifact_type: the journal kind carries the analyser.
ArtifactTypeOf(a) == <<"call_report", a>>
NoArtifact == 0
NoAnalyser == "none"
NotAsked == [c \in Calls |-> 0]

\* The rows of one analyser: the scope of its numbering and of its demotes.
ReportsBy(a) == {t \in call_reports : t.analyser = a}

Result == [source : TranscriptRow, ok : BOOLEAN, stamps : Nat]

InitRuns ==
    /\ pc = [r \in Runs |-> "idle"]
    /\ analyser = [r \in Runs |-> NoAnalyser]
    /\ todo = [r \in Runs |-> {}]
    /\ buffer = [r \in Runs |-> <<>>]
    /\ base = [r \in Runs |-> 0]
    /\ versions = [r \in Runs |-> NotAsked]
    /\ starts = 0
    /\ crashes = 0

Init ==
    /\ transcriptions = Transcripts
    /\ call_reports = {}
    /\ report_inputs = {}
    /\ llm_calls = {}
    /\ minted = Max({0} \cup {t.id : t \in Transcripts})
    /\ InitRuns

-----------------------------------------------------------------------------
\* The candidate query with a condition missing or off by one.
CandidatesEvenReported(a) ==
    {t \in transcriptions :
        /\ t.current
        /\ Cardinality(FailedRows(llm_calls, ArtifactTypeOf(a), t.call))
             < MaxFailed}
CandidatesWithoutBudget(a) ==
    {t \in transcriptions :
        t.current /\ CurrentOf(ReportsBy(a), t.call) = {}}
CandidatesOneTooMany(a) ==
    {t \in transcriptions :
        /\ t.current
        /\ CurrentOf(ReportsBy(a), t.call) = {}
        /\ Cardinality(FailedRows(llm_calls, ArtifactTypeOf(a), t.call))
             <= MaxFailed}

\* fetch_calls_needing_report: current transcripts whose call has no current
\* report from this analyser and has not used up its budget with it.
Candidates(a) ==
    {t \in transcriptions :
        /\ t.current
        /\ CurrentOf(ReportsBy(a), t.call) = {}
        /\ Cardinality(FailedRows(llm_calls, ArtifactTypeOf(a), t.call))
             < MaxFailed}

\* A run with analyser a starts, with the transcripts as they are now: what it
\* fetches here is what it will analyse, later, whatever becomes of the rows.
Fetch(r, a) ==
    /\ pc[r] = "idle"
    /\ a \in Serves[r]
    /\ Candidates(a) # {}
    /\ starts < MaxStarts
    /\ \E P \in Earliest(Candidates(a), Limit, LAMBDA t : t.id) :
          todo' = [todo EXCEPT ![r] = P]
    /\ analyser' = [analyser EXCEPT ![r] = a]
    /\ pc' = [pc EXCEPT ![r] = "analyse"]
    /\ starts' = starts + 1
    /\ UNCHANGED <<tables, minted, buffer, base, versions, crashes>>

\* analyse_candidate: a failure comes back as data, without stamps.
Outcomes(t) ==
    {[source |-> t, ok |-> TRUE, stamps |-> n] : n \in StampCounts}
        \cup {[source |-> t, ok |-> FALSE, stamps |-> 0]}

Analyse(r) ==
    /\ pc[r] = "analyse"
    /\ \E t \in todo[r] :
          /\ \A other \in todo[r] : t.id <= other.id
          /\ todo' = [todo EXCEPT ![r] = @ \ {t}]
          /\ \E res \in Outcomes(t) :
                buffer' = [buffer EXCEPT ![r] = Append(@, res)]
    /\ pc' = [pc EXCEPT ![r] = IF \/ Len(buffer'[r]) >= ChunkSize
                                  \/ todo'[r] = {}
                               THEN "versions" ELSE "analyse"]
    /\ UNCHANGED <<tables, minted, analyser, base, versions, starts, crashes>>

-----------------------------------------------------------------------------
\* _persist.
Positions(r) == DOMAIN buffer[r]
OkPositions(r) == {i \in Positions(r) : buffer[r][i].ok}
CallAt(r, i) == buffer[r][i].source.call
OkCalls(r) == {CallAt(r, i) : i \in OkPositions(r)}
RowIds(r) == {base[r] + i : i \in OkPositions(r)}
OkPositionsFor(r, c) == {i \in OkPositions(r) : CallAt(r, i) = c}

NewRows(r) ==
    {[id |-> base[r] + i,
      call |-> CallAt(r, i),
      version |-> versions[r][CallAt(r, i)],
      current |-> TRUE,
      analyser |-> analyser[r],
      source |-> buffer[r][i].source.id] : i \in OkPositions(r)}

\* max(version) read over the reports of every analyser.
ReadVersionsOfAll(r) ==
    /\ pc[r] = "versions"
    /\ base' = [base EXCEPT ![r] = minted]
    /\ minted' = minted + Len(buffer[r])
    /\ versions' = [versions EXCEPT ![r] =
                       [c \in Calls |-> IF c \in OkCalls(r)
                                        THEN NextVersion(call_reports, c)
                                        ELSE 0]]
    /\ pc' = [pc EXCEPT ![r] = IF OkPositions(r) = {} THEN "journal"
                                                      ELSE "insert"]
    /\ UNCHANGED <<tables, analyser, todo, buffer, starts, crashes>>

\* max(version) is read within the rows of the run's analyser.
ReadVersions(r) ==
    /\ pc[r] = "versions"
    /\ base' = [base EXCEPT ![r] = minted]
    /\ minted' = minted + Len(buffer[r])
    /\ versions' = [versions EXCEPT ![r] =
                       [c \in Calls |->
                           IF c \in OkCalls(r)
                           THEN NextVersion(ReportsBy(analyser[r]), c)
                           ELSE 0]]
    /\ pc' = [pc EXCEPT ![r] = IF OkPositions(r) = {} THEN "journal"
                                                      ELSE "insert"]
    /\ UNCHANGED <<tables, analyser, todo, buffer, starts, crashes>>

\* A persist that forgets the lineage statement.
InsertWithoutInputs(r) ==
    /\ pc[r] = "insert"
    /\ call_reports' = call_reports \cup NewRows(r)
    /\ pc' = [pc EXCEPT ![r] = "journal"]
    /\ UNCHANGED <<transcriptions, report_inputs, llm_calls, minted, analyser,
                   todo, buffer, base, versions, starts, crashes>>

\* insert_call_reports_batch: one commit for the whole chunk.
Insert(r) ==
    /\ pc[r] = "insert"
    /\ call_reports' = call_reports \cup NewRows(r)
    /\ pc' = [pc EXCEPT ![r] = "inputs"]
    /\ UNCHANGED <<transcriptions, report_inputs, llm_calls, minted, analyser,
                   todo, buffer, base, versions, starts, crashes>>

\* The lookup built over all results of the chunk, failed ones too.
SourceOfAnyResult(r, c) ==
    buffer[r][Max({i \in Positions(r) : CallAt(r, i) = c})].source

\* by_call keeps, of several candidates with one call id, the last.
SourceOf(r, c) == buffer[r][Max(OkPositionsFor(r, c))].source

\* The lineage rows of a chunk, one for each report.
InputRows(r) ==
    {[report |-> base[r] + i,
      report_version |-> versions[r][CallAt(r, i)],
      source |-> SourceOf(r, CallAt(r, i)).id,
      source_version |-> SourceOf(r, CallAt(r, i)).version]
         : i \in OkPositions(r)}

InsertInputs(r) ==
    /\ pc[r] = "inputs"
    /\ report_inputs' = report_inputs \cup InputRows(r)
    /\ pc' = [pc EXCEPT ![r] = "journal"]
    /\ UNCHANGED <<transcriptions, call_reports, llm_calls, minted, analyser,
                   todo, buffer, base, versions, starts, crashes>>

StampsOf(res) == IF res.stamps = 0 THEN {0} ELSE 1 .. res.stamps

\* The identifier of the first row of the chunk written for the result's call.
ArtifactOf(r, i) ==
    LET own == OkPositionsFor(r, CallAt(r, i))
    IN  IF own = {} THEN NoArtifact ELSE base[r] + Min(own)

JournalRowsOf(r, i) ==
    {[attempt |-> base[r] + i,
      stamp |-> s,
      call |-> CallAt(r, i),
      kind |-> ArtifactTypeOf(analyser[r]),
      status |-> IF buffer[r][i].ok THEN "ok" ELSE "failed",
      artifact |-> ArtifactOf(r, i)] : s \in StampsOf(buffer[r][i])}

JournalRows(r) == UNION {JournalRowsOf(r, i) : i \in Positions(r)}

ChunkDone(r) ==
    /\ pc' = [pc EXCEPT ![r] = IF todo[r] = {} THEN "idle" ELSE "analyse"]
    /\ buffer' = [buffer EXCEPT ![r] = <<>>]
    /\ base' = [base EXCEPT ![r] = 0]
    /\ versions' = [versions EXCEPT ![r] = NotAsked]

Journal(r) ==
    /\ pc[r] = "journal"
    /\ llm_calls' = llm_calls \cup JournalRows(r)
    /\ IF OkPositions(r) = {}
       THEN ChunkDone(r)
       ELSE /\ pc' = [pc EXCEPT ![r] = "demote"]
            /\ UNCHANGED <<buffer, base, versions>>
    /\ UNCHANGED <<transcriptions, call_reports, report_inputs, minted,
                   analyser, todo, starts, crashes>>

Demote(r) ==
    /\ pc[r] = "demote"
    /\ call_reports' = Demoted(call_reports, ReportsBy(analyser[r]),
                               OkCalls(r), RowIds(r))
    /\ ChunkDone(r)
    /\ UNCHANGED <<transcriptions, report_inputs, llm_calls, minted, analyser,
                   todo, starts, crashes>>

\* A statement raises or the worker dies: the run ends with what it committed.
Crash(r) ==
    /\ pc[r] # "idle"
    /\ crashes < MaxCrashes
    /\ pc' = [pc EXCEPT ![r] = "idle"]
    /\ todo' = [todo EXCEPT ![r] = {}]
    /\ buffer' = [buffer EXCEPT ![r] = <<>>]
    /\ base' = [base EXCEPT ![r] = 0]
    /\ versions' = [versions EXCEPT ![r] = NotAsked]
    /\ crashes' = crashes + 1
    /\ UNCHANGED <<tables, minted, analyser, starts>>

Step(r) ==
    \/ Analyse(r)
    \/ ReadVersions(r)
    \/ Insert(r)
    \/ InsertInputs(r)
    \/ Journal(r)
    \/ Demote(r)

Start(r) == \E a \in Analysers : Fetch(r, a)

Next == \E r \in Runs : Start(r) \/ Step(r) \/ Crash(r)

Spec == Init /\ [][Next]_vars

\* A run in flight goes on, and each deployment keeps being triggered.
Fairness ==
    \A r \in Runs : /\ WF_vars(Step(r))
                    /\ \A a \in Analysers : WF_vars(Fetch(r, a))
FairSpec == Spec /\ Fairness

-----------------------------------------------------------------------------
ReportRow == [id : Nat, call : Calls, version : Nat \ {0}, current : BOOLEAN,
              analyser : Analysers, source : Nat]
InputRow == [report : Nat, report_version : Nat \ {0}, source : Nat,
             source_version : Nat \ {0}]
JournalRow == [attempt : Nat, stamp : Nat, call : Calls,
               kind : {ArtifactTypeOf(a) : a \in Analysers},
               status : {"ok", "failed"}, artifact : Nat]

\* The types of what the flow owns and reads; the journal is shared with the
\* transcription flow.
WorkTypes ==
    /\ transcriptions \subseteq TranscriptRow
    /\ call_reports \subseteq ReportRow
    /\ report_inputs \subseteq InputRow
    /\ minted \in Nat
    /\ pc \in [Runs -> {"idle", "analyse", "versions", "insert", "inputs",
                        "journal", "demote"}]
    /\ analyser \in [Runs -> Analysers \cup {NoAnalyser}]
    /\ todo \in [Runs -> SUBSET TranscriptRow]
    /\ buffer \in [Runs -> Seq(Result)]
    /\ base \in [Runs -> Nat]
    /\ versions \in [Runs -> [Calls -> Nat]]
TypeOK ==
    /\ WorkTypes
    /\ llm_calls \subseteq JournalRow
    /\ starts \in Nat
    /\ crashes \in Nat

\* Each analyser numbers the reports of a call 1, 2, ..., n without a gap, so
\* that "the Nth report from this analyser" means something, whatever runs of
\* either analyser overlap or die.
VersionsContiguous ==
    \A c \in Calls, a \in Analysers : Contiguous(ReportsBy(a), c)

\* Runs of one analyser that do not overlap one another leave each call they
\* reported on with exactly one report of that analyser, a current one, whatever
\* the other analyser's runs do in between and wherever a run dies.
OneCurrentReportEach ==
    \A c \in Calls, a \in Analysers :
        LET mine == RowsOf(ReportsBy(a), c)
        IN  mine # {} => /\ Cardinality(mine) = 1
                         /\ \A t \in mine : t.current

\* The retry budget is kept per analyser, and overshot by no more than the runs
\* of that analyser that can be in flight besides the first; a call with several
\* current transcripts can fail once for each of them in every run, as the budget
\* counts failures of the call and the candidates are transcripts.
CurrentGiven(c) == {t \in Transcripts : t.current /\ t.call = c}
RetryBudget ==
    \A a \in Analysers : \A t \in Transcripts :
        t.current =>
            Cardinality(FailedRows(llm_calls, ArtifactTypeOf(a), t.call))
                <= MaxFailed - 1
                     + Cardinality({r \in Runs : a \in Serves[r]})
                         * Cardinality(CurrentGiven(t.call))

\* A lineage row tells the truth: it names a report that exists, with its
\* version, and the transcript that report was computed from, with its version.
\* (This holds only as long as no call has two current transcripts.)
LineageTruthful ==
    \A l \in report_inputs :
        \E rep \in call_reports :
            /\ rep.id = l.report
            /\ rep.version = l.report_version
            /\ rep.source = l.source
            /\ \E t \in transcriptions : /\ t.id = l.source
                                         /\ t.call = rep.call
                                         /\ t.version = l.source_version

\* A lineage row may name another transcript than the one its report was computed
\* from, where a chunk held several transcripts of one call; but never one that no
\* report was computed from.  It is always that of the same report or of a later
\* one of the same chunk, same call, analyser and version; and both versions the
\* row carries are those of the rows it names.
LineageWithinChunk ==
    \A l \in report_inputs :
        \E rep, used \in call_reports :
            /\ rep.id = l.report
            /\ rep.version = l.report_version
            /\ used.call = rep.call
            /\ used.analyser = rep.analyser
            /\ used.version = rep.version
            /\ used.id \in rep.id .. rep.id + ChunkSize - 1
            /\ used.source = l.source
            /\ \E t \in transcriptions : /\ t.id = l.source
                                         /\ t.call = rep.call
                                         /\ t.version = l.source_version

\* A report the journal calls ok has its lineage recorded: a run that dies can
\* leave a report without lineage, but never one without lineage that looks
\* finished in the journal.
JournalledHasLineage ==
    \A j \in llm_calls :
        j.status = "ok" => \E l \in report_inputs : l.report = j.artifact

\* Reports without lineage are those of runs about to write it, and at most a
\* chunk for each run that died.
AboutToWriteInputs == UNION {RowIds(r) : r \in {q \in Runs : pc[q] = "inputs"}}
LineageLossBounded ==
    Cardinality({t \in call_reports :
                    /\ t.id \notin AboutToWriteInputs
                    /\ \A l \in report_inputs : l.report # t.id})
        <= crashes * ChunkSize

\* A report loses is_current only in favour of another report of the same call
\* by the same analyser.
DemotedOnlyWhenReplaced ==
    [][\A t \in call_reports :
          (t.current /\ t \notin call_reports')
              => \E u \in ReportsBy(t.analyser) : u.call = t.call /\ u.id # t.id]_vars

\* The analysers do not touch one another: the reports of an analyser, and the
\* work it has left, change only by a step of one of its own runs.  (Two
\* successes of v3 must not bring a call back to v2, nor three failures of v2
\* take it away from v3.)
AnalysersIndependent ==
    [][\A a \in Analysers :
          (ReportsBy(a)' # ReportsBy(a) \/ Candidates(a)' # Candidates(a))
              => \E r \in Runs : analyser[r] = a /\ pc'[r] # pc[r]]_vars

\* As long as both deployments keep being triggered, every current transcript
\* gets a report from every analyser, or that analyser's budget for the call is
\* used up.
Settled(c, a) ==
    \/ CurrentOf(ReportsBy(a), c) # {}
    \/ Cardinality(FailedRows(llm_calls, ArtifactTypeOf(a), c)) >= MaxFailed
EveryTranscriptSettles ==
    \A t \in Transcripts, a \in Analysers : t.current => <>[]Settled(t.call, a)
=============================================================================
