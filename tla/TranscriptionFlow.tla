-------------------------- MODULE TranscriptionFlow --------------------------
(***************************************************************************)
(* The flow `analysis-transcription`                                       *)
(* (pipelines/flows/analysis/transcription.py): it selects calls with no   *)
(* current transcript, transcribes them one at a time, and persists the    *)
(* results in chunks.  Persisting a chunk is up to four statements, each a *)
(* commit of its own:                                                      *)
(*     ReadVersions  ->  Insert  ->  Journal  ->  Demote                   *)
(* so other runs, and a crash, can come between any two of them.           *)
(*                                                                         *)
(* A member of Runs is a slot for a flow run in flight.  The process work  *)
(* pool sets no concurrency limit and nothing in the flow excludes a       *)
(* second run, so how many slots there are is the operator's choice:       *)
(* one slot means runs never overlap.                                      *)
(***************************************************************************)
EXTENDS AnalysisTables, Sequences

CONSTANTS
    Runs,        \* slots for concurrent flow runs
    SeededCalls, \* the rows of analysis.calls: [row, call, started, audio]
    Limit,       \* the flow's `limit`: candidates picked up by one run
    ChunkSize,   \* config.WRITE_CHUNK_SIZE
    MaxFailed,   \* config.ANALYSIS_MAX_FAILED_ATTEMPTS
    StampCounts, \* how many requests a successful attempt may make
    MaxStarts,   \* bound: flow runs that find a candidate
    MaxCrashes   \* bound: runs that die

Calls == {k.call : k \in SeededCalls}

ASSUME RunsAssumption == IsFiniteSet(Runs)
ASSUME SeededCallsAssumption ==
    /\ IsFiniteSet(SeededCalls)
    /\ \A k \in SeededCalls : k.started \in Nat /\ k.audio \in BOOLEAN
ASSUME LimitAssumption == Limit \in Int
ASSUME ChunkSizeAssumption == ChunkSize \in Nat \ {0}
ASSUME MaxFailedAssumption == MaxFailed \in Nat
ASSUME StampCountsAssumption == StampCounts \subseteq Nat
ASSUME BoundsAssumption == MaxStarts \in Nat /\ MaxCrashes \in Nat

VARIABLES
    calls,          \* analysis.calls
    transcriptions, \* analysis.transcriptions
    llm_calls,      \* analysis.llm_calls
    minted,         \* identifiers handed out so far by new_id()
    pc,             \* per run: the statement it is about to issue
    todo,           \* per run: candidates not attempted yet
    buffer,         \* per run: results of attempts not persisted yet
    base,           \* per run: result i of the chunk owns identifier base + i
    versions,       \* per run: next_versions_for_calls' answer, 0 if not asked
    starts,         \* history: flow runs started
    crashes         \* history: flow runs that died

tables == <<calls, transcriptions, llm_calls>>
runVars == <<pc, todo, buffer, base, versions>>
vars == <<calls, transcriptions, llm_calls, minted, pc, todo, buffer, base,
          versions, starts, crashes>>

\* ARTIFACT_TRANSCRIPTION, and the NULL of llm_calls.artifact_id.
ArtifactType == <<"transcription">>
NoArtifact == 0

\* A TranscriptionResult.  `stamps` is the number of records of requests it carries.
Result == [call : Calls, ok : BOOLEAN, stamps : Nat]

NotAsked == [c \in Calls |-> 0]

InitRuns ==
    /\ pc = [r \in Runs |-> "idle"]
    /\ todo = [r \in Runs |-> {}]
    /\ buffer = [r \in Runs |-> <<>>]
    /\ base = [r \in Runs |-> 0]
    /\ versions = [r \in Runs |-> NotAsked]
    /\ starts = 0
    /\ crashes = 0

Init ==
    /\ calls = SeededCalls
    /\ transcriptions = {}
    /\ llm_calls = {}
    /\ minted = 0
    /\ InitRuns

-----------------------------------------------------------------------------
\* The candidate query with a condition missing or off by one.
CandidatesEvenTranscribed ==
    {k \in calls : Cardinality(FailedRows(llm_calls, ArtifactType, k.call))
                     < MaxFailed}
CandidatesWithoutBudget ==
    {k \in calls : CurrentOf(transcriptions, k.call) = {}}
CandidatesOneTooMany ==
    {k \in calls : /\ CurrentOf(transcriptions, k.call) = {}
                   /\ Cardinality(FailedRows(llm_calls, ArtifactType, k.call))
                        <= MaxFailed}

\* fetch_calls_needing_transcription: calls that have audio, no current
\* transcript, and fewer failed journal rows than the budget.
Candidates ==
    {k \in calls : /\ k.audio
                   /\ CurrentOf(transcriptions, k.call) = {}
                   /\ Cardinality(FailedRows(llm_calls, ArtifactType, k.call))
                        < MaxFailed}

\* A run starts and reads its candidates.  A run that finds none returns at once
\* and changes nothing, so it is not a step here.
Fetch(r) ==
    /\ pc[r] = "idle"
    /\ Candidates # {}
    /\ starts < MaxStarts
    /\ \E P \in Earliest(Candidates, Limit, LAMBDA k : k.started) :
          todo' = [todo EXCEPT ![r] = P]
    /\ pc' = [pc EXCEPT ![r] = "analyse"]
    /\ starts' = starts + 1
    /\ UNCHANGED <<calls, transcriptions, llm_calls, minted, buffer, base,
                   versions, crashes>>

\* transcribe_candidate on the next item: the result of a success carries the
\* stamps collected, the result built in the except branch carries none, however
\* many requests the attempt made before it failed.
Outcomes(c) ==
    {[call |-> c, ok |-> TRUE, stamps |-> n] : n \in StampCounts}
        \cup {[call |-> c, ok |-> FALSE, stamps |-> 0]}

\* run_with_batched_persist with parallelism 1: attempt one item, buffer its
\* result, and go on to persist when the chunk is full or the items are used up.
Analyse(r) ==
    /\ pc[r] = "analyse"
    /\ \E k \in todo[r] :
          /\ \A other \in todo[r] : k.started <= other.started
          /\ todo' = [todo EXCEPT ![r] = @ \ {k}]
          /\ \E res \in Outcomes(k.call) :
                buffer' = [buffer EXCEPT ![r] = Append(@, res)]
    /\ pc' = [pc EXCEPT ![r] = IF \/ Len(buffer'[r]) >= ChunkSize
                                  \/ todo'[r] = {}
                               THEN "versions" ELSE "analyse"]
    /\ UNCHANGED <<calls, transcriptions, llm_calls, minted, base, versions,
                   starts, crashes>>

-----------------------------------------------------------------------------
\* _persist.  The chunk is the whole buffer: with parallelism 1 the buffer never
\* outgrows ChunkSize.
Positions(r) == DOMAIN buffer[r]
OkPositions(r) == {i \in Positions(r) : buffer[r][i].ok}
OkCalls(r) == {buffer[r][i].call : i \in OkPositions(r)}
RowIds(r) == {base[r] + i : i \in OkPositions(r)}

\* The rows `_persist` builds for the successes of the chunk.
NewRows(r) ==
    {[id |-> base[r] + i,
      call |-> buffer[r][i].call,
      version |-> versions[r][buffer[r][i].call],
      current |-> TRUE] : i \in OkPositions(r)}

\* The chunk gets its identifiers; if it holds a success, max(version) is read.
ReadVersions(r) ==
    /\ pc[r] = "versions"
    /\ base' = [base EXCEPT ![r] = minted]
    /\ minted' = minted + Len(buffer[r])
    /\ versions' = [versions EXCEPT ![r] =
                       [c \in Calls |-> IF c \in OkCalls(r)
                                        THEN NextVersion(transcriptions, c)
                                        ELSE 0]]
    /\ pc' = [pc EXCEPT ![r] = IF OkPositions(r) = {} THEN "journal"
                                                      ELSE "insert"]
    /\ UNCHANGED <<calls, transcriptions, llm_calls, todo, buffer, starts,
                   crashes>>

\* A re-transcription that replaces the call's rows instead of adding to them.
InsertReplacing(r) ==
    /\ pc[r] = "insert"
    /\ transcriptions' =
          {t \in transcriptions : t.call \notin OkCalls(r)} \cup NewRows(r)
    /\ pc' = [pc EXCEPT ![r] = "journal"]
    /\ UNCHANGED <<calls, llm_calls, minted, todo, buffer, base, versions,
                   starts, crashes>>

\* insert_transcriptions_batch: one commit for the whole chunk.
Insert(r) ==
    /\ pc[r] = "insert"
    /\ transcriptions' = transcriptions \cup NewRows(r)
    /\ pc' = [pc EXCEPT ![r] = "journal"]
    /\ UNCHANGED <<calls, llm_calls, minted, todo, buffer, base, versions,
                   starts, crashes>>

\* One journal row per stamp, or a single row for a result without stamps.
StampsOf(res) == IF res.stamps = 0 THEN {0} ELSE 1 .. res.stamps

\* An artifact_id taken from the result's position, failed or not.
ArtifactOfPosition(r, i) == base[r] + i

\* The identifier of the first row of the chunk written for the result's call.
ArtifactOf(r, i) ==
    LET own == {p \in OkPositions(r) : buffer[r][p].call = buffer[r][i].call}
    IN  IF own = {} THEN NoArtifact ELSE base[r] + Min(own)

JournalRowsOf(r, i) ==
    {[attempt |-> base[r] + i,
      stamp |-> s,
      call |-> buffer[r][i].call,
      kind |-> ArtifactType,
      status |-> IF buffer[r][i].ok THEN "ok" ELSE "failed",
      artifact |-> ArtifactOf(r, i)] : s \in StampsOf(buffer[r][i])}

\* A journal of failures only.
JournalRowsOfFailures(r) ==
    UNION {JournalRowsOf(r, i) : i \in Positions(r) \ OkPositions(r)}

\* The whole journal batch of a chunk.
JournalRows(r) == UNION {JournalRowsOf(r, i) : i \in Positions(r)}

\* What follows a persisted chunk: the next item, or the end of the run.
ChunkDone(r) ==
    /\ pc' = [pc EXCEPT ![r] = IF todo[r] = {} THEN "idle" ELSE "analyse"]
    /\ buffer' = [buffer EXCEPT ![r] = <<>>]
    /\ base' = [base EXCEPT ![r] = 0]
    /\ versions' = [versions EXCEPT ![r] = NotAsked]

\* record_llm_calls_batch.  A chunk without a success has nothing to demote.
Journal(r) ==
    /\ pc[r] = "journal"
    /\ llm_calls' = llm_calls \cup JournalRows(r)
    /\ IF OkPositions(r) = {}
       THEN ChunkDone(r)
       ELSE /\ pc' = [pc EXCEPT ![r] = "demote"]
            /\ UNCHANGED <<buffer, base, versions>>
    /\ UNCHANGED <<calls, transcriptions, minted, todo, starts, crashes>>

\* demote_current_for_calls: every other current row of the chunk's calls.
Demote(r) ==
    /\ pc[r] = "demote"
    /\ transcriptions' = Demoted(transcriptions, transcriptions, OkCalls(r),
                                 RowIds(r))
    /\ ChunkDone(r)
    /\ UNCHANGED <<calls, llm_calls, minted, todo, starts, crashes>>

\* A statement raises, or the worker dies: the flow run ends where it is, with
\* its buffered results, and nothing retries it.  The statements it has
\* committed stay.
Crash(r) ==
    /\ pc[r] # "idle"
    /\ crashes < MaxCrashes
    /\ pc' = [pc EXCEPT ![r] = "idle"]
    /\ todo' = [todo EXCEPT ![r] = {}]
    /\ buffer' = [buffer EXCEPT ![r] = <<>>]
    /\ base' = [base EXCEPT ![r] = 0]
    /\ versions' = [versions EXCEPT ![r] = NotAsked]
    /\ crashes' = crashes + 1
    /\ UNCHANGED <<tables, minted, starts>>

Step(r) ==
    \/ Analyse(r)
    \/ ReadVersions(r)
    \/ Insert(r)
    \/ Journal(r)
    \/ Demote(r)

Next == \E r \in Runs : Fetch(r) \/ Step(r) \/ Crash(r)

Spec == Init /\ [][Next]_vars

\* A run in flight goes on; and somebody keeps triggering the flow as long as
\* there is work for it (the deployments have no schedule).
Fairness == \A r \in Runs : WF_vars(Step(r)) /\ WF_vars(Fetch(r))
FairSpec == Spec /\ Fairness

-----------------------------------------------------------------------------
TranscriptRow == [id : Nat, call : Calls, version : Nat \ {0},
                  current : BOOLEAN]
JournalRow == [attempt : Nat, stamp : Nat, call : Calls, kind : {ArtifactType},
               status : {"ok", "failed"}, artifact : Nat]

\* The types of what the flow owns; the journal is shared with the report flow.
WorkTypes ==
    /\ calls \subseteq SeededCalls
    /\ transcriptions \subseteq TranscriptRow
    /\ minted \in Nat
    /\ pc \in [Runs -> {"idle", "analyse", "versions", "insert", "journal",
                        "demote"}]
    /\ todo \in [Runs -> SUBSET calls]
    /\ buffer \in [Runs -> Seq(Result)]
    /\ base \in [Runs -> Nat]
    /\ versions \in [Runs -> [Calls -> Nat]]
TypeOK ==
    /\ WorkTypes
    /\ llm_calls \subseteq JournalRow
    /\ starts \in Nat
    /\ crashes \in Nat

\* The version numbers of a call's transcripts are 1, 2, ..., n: no crash and no
\* overlap of runs leaves a gap, although max(version) is read two statements
\* before the row that uses it is written (next_versions_for_calls).
VersionsContiguous == \A c \in Calls : Contiguous(transcriptions, c)

\* A call that has been transcribed keeps a current transcript, at every moment
\* and whatever crashes: insert first, demote afterwards.  It is what the
\* writer's docstring promises.
KeepsCurrent ==
    \A c \in Calls : RowsOf(transcriptions, c) # {}
                         => CurrentOf(transcriptions, c) # {}

\* Runs that do not overlap never pay for the same transcript twice: the first
\* transcript committed takes the call out of every later candidate set, even
\* when the run that wrote it died before its journal.
NeverTranscribedTwice ==
    \A c \in Calls : Cardinality(RowsOf(transcriptions, c)) <= 1

\* The cut-off of the retry budget is read when a run starts and the failures it
\* produces are written when a chunk is persisted, so runs that overlap can each
\* add one failure to a call that was one short of the cut-off; never more.
RetryBudget ==
    \A c \in Calls : Cardinality(FailedRows(llm_calls, ArtifactType, c))
                        <= MaxFailed - 1 + Cardinality(Runs)

\* The journal points back correctly whatever the order of commits: an ok row,
\* and any row that names an artifact, names a committed transcript of its own
\* call.
JournalRefersToArtifact ==
    \A j \in llm_calls :
        (j.status = "ok" \/ j.artifact # NoArtifact)
            => \E t \in transcriptions : t.id = j.artifact /\ t.call = j.call

\* A transcript without a journal row belongs to a run that has not come to its
\* journal statement yet, or to one that died in between, and a crash loses the
\* rows of one chunk at most.
Unjournalled ==
    {t \in transcriptions : \A j \in llm_calls : j.artifact # t.id}
InFlight == UNION {RowIds(r) : r \in {q \in Runs : pc[q] = "journal"}}
JournalLossBounded ==
    Cardinality({t \in Unjournalled : t.id \notin InFlight})
        <= crashes * ChunkSize

\* A row loses is_current only in favour of a different transcript of the same
\* call that is in the table and that the journal already accounts for.
DemotedOnlyWhenReplaced ==
    [][\A t \in transcriptions :
          (t.current /\ t \notin transcriptions')
              => \E u \in transcriptions :
                    /\ u.call = t.call
                    /\ u.id # t.id
                    /\ \E j \in llm_calls : j.artifact = u.id]_vars

\* Whatever a transcript row says once committed it says for ever, but for
\* is_current, which only ever goes from true to false.
OnlyDemotes ==
    [][\A t \in transcriptions :
          \/ t \in transcriptions'
          \/ t.current /\ [t EXCEPT !.current = FALSE] \in transcriptions']_vars

\* As long as somebody triggers the flow and runs do not overlap, every call
\* with audio ends up with a current transcript or out of budget, also behind
\* calls that always fail and after crashes: the cut-off keeps failing calls
\* from holding the head of the LIMITed candidate list for ever.
Settled(c) ==
    \/ CurrentOf(transcriptions, c) # {}
    \/ Cardinality(FailedRows(llm_calls, ArtifactType, c)) >= MaxFailed
EveryCallSettles ==
    \A k \in SeededCalls : k.audio => <>[]Settled(k.call)

=============================================================================
