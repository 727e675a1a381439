------------------------ MODULE AnalysisPipelineProofs ------------------------
(***************************************************************************)
(* Theorems about the whole stand.  What TranscriptionFlowProofs and       *)
(* CallReportFlowProofs show of a flow alone is carried over by their      *)
(* lemmas about steps that are not the flow's own.                         *)
(***************************************************************************)
EXTENDS AnalysisPipeline, FiniteSetTheorems, TLAPS

TP == INSTANCE TranscriptionFlowProofs
         WITH Runs <- TRuns, SeededCalls <- SeededRows,
              MaxStarts <- MaxTStarts, MaxCrashes <- MaxTCrashes,
              pc <- tpc, todo <- ttodo, buffer <- tbuffer, base <- tbase,
              versions <- tversions, starts <- tstarts, crashes <- tcrashes

RP == INSTANCE CallReportFlowProofs
         WITH Runs <- RRuns, Calls <- CallIds, Transcripts <- {},
              MaxStarts <- MaxRStarts, MaxCrashes <- MaxRCrashes,
              pc <- rpc, analyser <- ranalyser, todo <- rtodo,
              buffer <- rbuffer, base <- rbase, versions <- rversions,
              starts <- rstarts, crashes <- rcrashes

-----------------------------------------------------------------------------
\* T and TP, and R and RP, are the same specification by two names.
LEMMA CountSame ==
    \A W : /\ T!Cardinality(W) = Cardinality(W) /\ TP!Cardinality(W) = Cardinality(W)
           /\ R!Cardinality(W) = Cardinality(W) /\ RP!Cardinality(W) = Cardinality(W)
BY DEF T!Cardinality, TP!Cardinality, R!Cardinality, RP!Cardinality, Cardinality

LEMMA FiniteSame ==
    \A W : (TP!IsFiniteSet(W) <=> IsFiniteSet(W)) /\ (RP!IsFiniteSet(W) <=> IsFiniteSet(W))
BY DEF TP!IsFiniteSet, RP!IsFiniteSet, IsFiniteSet

LEMMA BoundSame ==
    \A W : /\ T!Max(W) = TP!Max(W) /\ T!Min(W) = TP!Min(W)
           /\ R!Max(W) = RP!Max(W) /\ R!Min(W) = RP!Min(W)
BY DEF T!Max, TP!Max, T!Min, TP!Min, R!Max, RP!Max, R!Min, RP!Min

LEMMA TCandidatesSame == T!Candidates = TP!Candidates
<1>1. \A W : T!Cardinality(W) = TP!Cardinality(W)
  BY CountSame
<1>2. \A c : /\ T!CurrentOf(transcriptions, c) = TP!CurrentOf(transcriptions, c)
             /\ T!FailedRows(llm_calls, T!ArtifactType, c)
                  = TP!FailedRows(llm_calls, TP!ArtifactType, c)
  BY DEF T!CurrentOf, TP!CurrentOf, T!RowsOf, TP!RowsOf, T!FailedRows, TP!FailedRows,
         T!ArtifactType, TP!ArtifactType
<1>. QED
  BY <1>1, <1>2 DEF T!Candidates, TP!Candidates

LEMMA TFetchSame == ASSUME NEW r, T!Fetch(r) PROVE TP!Fetch(r)
<1>1. T!EffectiveLimit(Limit) = TP!EffectiveLimit(Limit)
  BY BoundSame DEF T!EffectiveLimit, TP!EffectiveLimit
<1>2. PICK P \in SUBSET TP!Candidates :
          /\ T!Cardinality(P) = T!Min({T!EffectiveLimit(Limit), T!Cardinality(TP!Candidates)})
          /\ \A p \in P, q \in TP!Candidates \ P : p.started <= q.started
          /\ ttodo' = [ttodo EXCEPT ![r] = P]
  BY TCandidatesSame DEF T!Fetch, T!Earliest
<1>3. TP!Cardinality(P) = TP!Min({TP!EffectiveLimit(Limit), TP!Cardinality(TP!Candidates)})
  BY <1>1, <1>2, CountSame, BoundSame
<1>4. \E Q \in TP!Earliest(TP!Candidates, Limit, LAMBDA k : k.started) :
          ttodo' = [ttodo EXCEPT ![r] = Q]
  BY <1>2, <1>3, TCandidatesSame DEF TP!Earliest
<1>5. /\ tpc[r] = "idle" /\ TP!Candidates # {} /\ tstarts < MaxTStarts
      /\ tpc' = [tpc EXCEPT ![r] = "analyse"]
      /\ tstarts' = tstarts + 1
      /\ UNCHANGED <<calls, transcriptions, llm_calls, minted, tbuffer, tbase,
                     tversions, tcrashes>>
  BY TCandidatesSame DEF T!Fetch
<1>. QED
  BY <1>4, <1>5 DEF TP!Fetch

LEMMA TAnalyseSame == ASSUME NEW r, T!Analyse(r) PROVE TP!Analyse(r)
BY DEF T!Analyse, TP!Analyse, T!Outcomes, TP!Outcomes

LEMMA TReadVersionsSame == ASSUME NEW r, T!ReadVersions(r) PROVE TP!ReadVersions(r)
BY DEF T!ReadVersions, TP!ReadVersions, T!Calls, TP!Calls, T!OkCalls, TP!OkCalls,
       T!OkPositions, TP!OkPositions, T!Positions, TP!Positions, T!NextVersion,
       TP!NextVersion, T!RowsOf, TP!RowsOf, T!Max, TP!Max, T!tables, TP!tables

LEMMA TInsertSame == ASSUME NEW r, T!Insert(r) PROVE TP!Insert(r)
BY DEF T!Insert, TP!Insert, T!NewRows, TP!NewRows, T!OkPositions, TP!OkPositions,
       T!Positions, TP!Positions

LEMMA TInitRunsSame == T!InitRuns => TP!InitRuns
BY DEF T!InitRuns, TP!InitRuns, T!NotAsked, TP!NotAsked, T!Calls, TP!Calls

LEMMA TJournalSame == ASSUME NEW r, T!Journal(r) PROVE TP!Journal(r)
<1>1. \A i : T!ArtifactOf(r, i) = TP!ArtifactOf(r, i)
  BY BoundSame DEF T!ArtifactOf, TP!ArtifactOf, T!OkPositions, TP!OkPositions,
                   T!Positions, TP!Positions, T!NoArtifact, TP!NoArtifact
<1>2. T!JournalRows(r) = TP!JournalRows(r)
  BY <1>1 DEF T!JournalRows, TP!JournalRows, T!JournalRowsOf, TP!JournalRowsOf,
              T!StampsOf, TP!StampsOf, T!Positions, TP!Positions, T!ArtifactType, TP!ArtifactType
<1>. QED
  BY <1>2 DEF T!Journal, TP!Journal, T!OkPositions, TP!OkPositions, T!Positions,
              TP!Positions, T!ChunkDone, TP!ChunkDone, T!NotAsked, TP!NotAsked, T!Calls,
              TP!Calls

LEMMA TDemoteSame == ASSUME NEW r, T!Demote(r) PROVE TP!Demote(r)
BY DEF T!Demote, TP!Demote, T!Demoted, TP!Demoted, T!OkCalls, TP!OkCalls, T!RowIds,
       TP!RowIds, T!OkPositions, TP!OkPositions, T!Positions, TP!Positions,
       T!ChunkDone, TP!ChunkDone, T!NotAsked, TP!NotAsked, T!Calls, TP!Calls

LEMMA TCrashSame == ASSUME NEW r, T!Crash(r) PROVE TP!Crash(r)
BY DEF T!Crash, TP!Crash, T!NotAsked, TP!NotAsked, T!Calls, TP!Calls, T!tables, TP!tables

LEMMA TNextSame == T!Next => TP!Next
BY TFetchSame, TAnalyseSame, TReadVersionsSame, TInsertSame, TJournalSame, TDemoteSame,
   TCrashSame DEF T!Next, TP!Next, T!Step, TP!Step

LEMMA RCandidatesSame == ASSUME NEW a PROVE R!Candidates(a) = RP!Candidates(a)
<1>1. \A W : R!Cardinality(W) = RP!Cardinality(W)
  BY CountSame
<1>2. \A c : /\ R!CurrentOf(R!ReportsBy(a), c) = RP!CurrentOf(RP!ReportsBy(a), c)
             /\ R!FailedRows(llm_calls, R!ArtifactTypeOf(a), c)
                  = RP!FailedRows(llm_calls, RP!ArtifactTypeOf(a), c)
  BY DEF R!CurrentOf, RP!CurrentOf, R!RowsOf, RP!RowsOf, R!FailedRows, RP!FailedRows,
         R!ArtifactTypeOf, RP!ArtifactTypeOf, R!ReportsBy, RP!ReportsBy
<1>. QED
  BY <1>1, <1>2 DEF R!Candidates, RP!Candidates

LEMMA RFetchSame == ASSUME NEW r, NEW a, R!Fetch(r, a) PROVE RP!Fetch(r, a)
<1>. DEFINE W == RP!Candidates(a)
<1>1. R!EffectiveLimit(Limit) = RP!EffectiveLimit(Limit)
  BY BoundSame DEF R!EffectiveLimit, RP!EffectiveLimit
<1>2. PICK P \in SUBSET W :
          /\ R!Cardinality(P) = R!Min({R!EffectiveLimit(Limit), R!Cardinality(W)})
          /\ \A p \in P, q \in W \ P : p.id <= q.id
          /\ rtodo' = [rtodo EXCEPT ![r] = P]
  BY RCandidatesSame DEF R!Fetch, R!Earliest
<1>3. RP!Cardinality(P) = RP!Min({RP!EffectiveLimit(Limit), RP!Cardinality(W)})
  BY <1>1, <1>2, CountSame, BoundSame
<1>4. \E Q \in RP!Earliest(RP!Candidates(a), Limit, LAMBDA t : t.id) :
          rtodo' = [rtodo EXCEPT ![r] = Q]
  BY <1>2, <1>3 DEF RP!Earliest
<1>. QED
  BY <1>4, RCandidatesSame DEF R!Fetch, RP!Fetch, R!tables, RP!tables

LEMMA RAnalyseSame == ASSUME NEW r, R!Analyse(r) PROVE RP!Analyse(r)
BY DEF R!Analyse, RP!Analyse, R!Outcomes, RP!Outcomes, R!tables, RP!tables

LEMMA RReadVersionsSame == ASSUME NEW r, R!ReadVersions(r) PROVE RP!ReadVersions(r)
BY DEF R!ReadVersions, RP!ReadVersions, R!OkCalls, RP!OkCalls, R!CallAt, RP!CallAt,
       R!OkPositions, RP!OkPositions, R!Positions, RP!Positions, R!NextVersion,
       RP!NextVersion, R!RowsOf, RP!RowsOf, R!Max, RP!Max, R!tables, RP!tables,
       R!ReportsBy, RP!ReportsBy

LEMMA RInsertSame == ASSUME NEW r, R!Insert(r) PROVE RP!Insert(r)
BY DEF R!Insert, RP!Insert, R!NewRows, RP!NewRows, R!OkPositions, RP!OkPositions,
       R!Positions, RP!Positions, R!CallAt, RP!CallAt

LEMMA RInsertInputsSame == ASSUME NEW r, R!InsertInputs(r) PROVE RP!InsertInputs(r)
<1>1. \A c : R!SourceOf(r, c) = RP!SourceOf(r, c)
  BY BoundSame DEF R!SourceOf, RP!SourceOf, R!OkPositionsFor, RP!OkPositionsFor,
       R!OkPositions, RP!OkPositions, R!Positions, RP!Positions, R!CallAt, RP!CallAt
<1>2. R!InputRows(r) = RP!InputRows(r)
  BY <1>1 DEF R!InputRows, RP!InputRows, R!OkPositions, RP!OkPositions,
       R!Positions, RP!Positions, R!CallAt, RP!CallAt
<1>. QED
  BY <1>2 DEF R!InsertInputs, RP!InsertInputs

LEMMA RJournalSame == ASSUME NEW r, R!Journal(r) PROVE RP!Journal(r)
<1>1. \A i : R!ArtifactOf(r, i) = RP!ArtifactOf(r, i)
  BY BoundSame DEF R!ArtifactOf, RP!ArtifactOf, R!OkPositionsFor, RP!OkPositionsFor,
                   R!OkPositions, RP!OkPositions, R!CallAt, RP!CallAt,
                   R!Positions, RP!Positions, R!NoArtifact, RP!NoArtifact
<1>2. R!JournalRows(r) = RP!JournalRows(r)
  BY <1>1 DEF R!JournalRows, RP!JournalRows, R!JournalRowsOf, RP!JournalRowsOf, R!CallAt,
              RP!CallAt, R!StampsOf, RP!StampsOf, R!Positions, RP!Positions,
              R!ArtifactTypeOf, RP!ArtifactTypeOf
<1>. QED
  BY <1>2 DEF R!Journal, RP!Journal, R!OkPositions, RP!OkPositions, R!Positions,
              RP!Positions, R!ChunkDone, RP!ChunkDone, R!NotAsked, RP!NotAsked

LEMMA RDemoteSame == ASSUME NEW r, R!Demote(r) PROVE RP!Demote(r)
BY DEF R!Demote, RP!Demote, R!Demoted, RP!Demoted, R!OkCalls, RP!OkCalls, R!RowIds,
       RP!RowIds, R!OkPositions, RP!OkPositions, R!Positions, RP!Positions,
       R!ChunkDone, RP!ChunkDone, R!NotAsked, RP!NotAsked, R!CallAt, RP!CallAt,
       R!ReportsBy, RP!ReportsBy

LEMMA RCrashSame == ASSUME NEW r, R!Crash(r) PROVE RP!Crash(r)
BY DEF R!Crash, RP!Crash, R!NotAsked, RP!NotAsked, R!tables, RP!tables

LEMMA RNextSame == R!Next => RP!Next
BY RFetchSame, RAnalyseSame, RReadVersionsSame, RInsertSame, RInsertInputsSame,
   RJournalSame, RDemoteSame, RCrashSame
   DEF R!Next, RP!Next, R!Step, RP!Step, R!Start, RP!Start

LEMMA RInitRunsSame == R!InitRuns => RP!InitRuns
BY DEF R!InitRuns, RP!InitRuns, R!NotAsked, RP!NotAsked, R!NoAnalyser, RP!NoAnalyser

-----------------------------------------------------------------------------
\* The constants of the stand are what the flows ask of theirs.
LEMMA SeededRowFields ==
    ASSUME NEW k \in SeededRows
    PROVE  k.started \in Nat /\ k.audio \in BOOLEAN /\ k.call \in CallIds
<1>1. PICK f \in Directory, n \in 1 .. MaxSeeds : k = S!RowOf(f, n)
  BY DEF SeededRows
<1>2. k.started = f.mtime /\ k.audio = TRUE /\ k.call = f.call
  BY <1>1 DEF S!RowOf
<1>. QED
  BY <1>2, DirectoryAssumption DEF CallIds

LEMMA SeededRowsFinite == IsFiniteSet(SeededRows)
<1>. DEFINE D == Directory \X (1 .. MaxSeeds)
            F == [x \in D |-> S!RowOf(x[1], x[2])]
<1>1. IsFiniteSet(1 .. MaxSeeds)
  BY FS_Interval, PipelineBoundsAssumption
<1>2. IsFiniteSet(D)
  BY <1>1, FS_Product, DirectoryAssumption
<1>3. \A x \in D : F[x] \in SeededRows
  BY DEF SeededRows
<1>4. ASSUME NEW k \in SeededRows PROVE \E x \in D : F[x] = k
  <2>1. PICK f \in Directory, n \in 1 .. MaxSeeds : k = S!RowOf(f, n)
    BY DEF SeededRows
  <2>2. <<f, n>> \in D /\ F[<<f, n>>] = S!RowOf(f, n)
    OBVIOUS
  <2>. QED
    BY <2>1, <2>2
<1>5. F = [x \in D |-> F[x]]
  OBVIOUS
<1>. HIDE DEF D, F
<1>6. F \in Surjection(D, SeededRows)
  BY <1>3, <1>4, <1>5 DEF Surjection
<1>. QED
  BY <1>2, <1>6, FS_Surjection

LEMMA FlowConstants ==
    /\ TP!IsFiniteSet(TRuns) /\ TP!IsFiniteSet(SeededRows)
    /\ \A k \in SeededRows : k.started \in Nat /\ k.audio \in BOOLEAN
    /\ RP!IsFiniteSet(RRuns) /\ RP!IsFiniteSet({}) /\ {} \subseteq RP!TranscriptRow
    /\ Serves \in [RRuns -> SUBSET Analysers]
    /\ Limit \in Int /\ ChunkSize \in Nat \ {0} /\ MaxFailed \in Nat
    /\ StampCounts \subseteq Nat
    /\ MaxTStarts \in Nat /\ MaxTCrashes \in Nat
    /\ MaxRStarts \in Nat /\ MaxRCrashes \in Nat
<1>1. IsFiniteSet({})
  BY FS_EmptySet
<1>. QED
  BY <1>1, SeededRowsFinite, SeededRowFields, FiniteSame, FlowsAssumption,
     PipelineBoundsAssumption

-----------------------------------------------------------------------------
(***************************************************************************)
(* The seeder.                                                             *)
(***************************************************************************)
SeederTypes ==
    /\ calls \subseteq SeededRows
    /\ seeds \in 0 .. MaxSeeds
    /\ spc \in [Seeders -> {"idle", "upload", "insert"}]
    /\ known \in [Seeders -> SUBSET CallIds]
    /\ files \in [Seeders -> SUBSET Directory]
    /\ rows \in [Seeders -> SUBSET SeededRows]
    /\ \A s \in Seeders : spc[s] # "idle" => seeds # 0

\* The object of a row is in the bucket before the row is, also of a row that
\* waits for the insert at the end.
AudioInv ==
    /\ SeederTypes
    /\ \A k \in calls : k.key \in bucket
    /\ \A s \in Seeders : \A k \in rows[s] : k.key \in bucket

\* The other programs leave the seeder alone.
LEMMA OnlySeeds ==
    ASSUME [Next]_vars
    PROVE  (\E s \in Seeders : S!Begin(s) \/ S!Upload(s) \/ S!InsertCalls(s) \/ S!Abort(s))
              \/ UNCHANGED <<calls, seederOwn>>
<1>1. TP!Next => calls' = calls
  BY DEF TP!Next, TP!Fetch, TP!Step, TP!Analyse, TP!ReadVersions, TP!Insert, TP!Journal,
         TP!Demote, TP!Crash, TP!tables
<1>. QED
  BY <1>1, TNextSame
     DEF Next, S!Next, S!SeedStep, outsideTranscription, outsideReport, outsideExport, vars

LEMMA BeginSeeds ==
    ASSUME SeederTypes, NEW s \in Seeders, S!Begin(s) PROVE SeederTypes'
<1>1. seeds' \in 0 .. MaxSeeds /\ seeds' # 0
  BY PipelineBoundsAssumption DEF S!Begin, SeederTypes
<1>2. S!Existing({f.call : f \in Directory}) \subseteq CallIds
  BY DEF S!Existing, CallIds
<1>. QED
  BY <1>1, <1>2 DEF SeederTypes, S!Begin

LEMMA UploadSeeds ==
    ASSUME SeederTypes, NEW s \in Seeders, S!Upload(s) PROVE SeederTypes'
<1>1. PICK f \in files[s] :
          /\ files' = [files EXCEPT ![s] = @ \ {f}]
          /\ rows' = [rows EXCEPT ![s] = IF f.call \in known[s] THEN @
                                         ELSE @ \cup {S!RowOf(f, seeds)}]
  BY DEF S!Upload
<1>2. S!RowOf(f, seeds) \in SeededRows
  <2>1. f \in Directory /\ seeds \in 1 .. MaxSeeds
    BY <1>1, PipelineBoundsAssumption DEF SeederTypes, S!Upload
  <2>. QED
    BY <2>1 DEF SeededRows
<1>3. rows' \in [Seeders -> SUBSET SeededRows] /\ files' \in [Seeders -> SUBSET Directory]
  BY <1>1, <1>2 DEF SeederTypes
<1>4. spc' \in [Seeders -> {"idle", "upload", "insert"}]
  BY DEF SeederTypes, S!Upload
<1>5. seeds # 0
  BY DEF SeederTypes, S!Upload
<1>. QED
  BY <1>3, <1>4, <1>5 DEF SeederTypes, S!Upload

LEMMA NextSeederTypes == ASSUME SeederTypes, [Next]_vars PROVE SeederTypes'
<1>1. ASSUME NEW s \in Seeders, S!InsertCalls(s) \/ S!Abort(s) PROVE SeederTypes'
  BY <1>1 DEF SeederTypes, S!InsertCalls, S!Abort
<1>2. CASE UNCHANGED <<calls, seederOwn>>
  BY <1>2 DEF SeederTypes, seederOwn
<1>. QED
  BY <1>1, <1>2, OnlySeeds, BeginSeeds, UploadSeeds

LEMMA NextAudioInv == ASSUME AudioInv, [Next]_vars PROVE AudioInv'
<1>0. SeederTypes /\ SeederTypes'
  BY NextSeederTypes DEF AudioInv
<1>1. ASSUME NEW s \in Seeders, S!Begin(s) \/ S!InsertCalls(s) \/ S!Abort(s)
      PROVE  AudioInv'
  BY <1>0, <1>1 DEF AudioInv, SeederTypes, S!Begin, S!InsertCalls, S!Abort
<1>2. ASSUME NEW s \in Seeders, S!Upload(s) PROVE AudioInv'
  <2>1. PICK f \in files[s] :
            /\ bucket' = bucket \cup {S!AudioKey(f)}
            /\ rows' = [rows EXCEPT ![s] = IF f.call \in known[s] THEN @
                                           ELSE @ \cup {S!RowOf(f, seeds)}]
    BY <1>2 DEF S!Upload
  <2>2. S!RowOf(f, seeds).key = S!AudioKey(f)
    BY DEF S!RowOf
  <2>3. \A q \in Seeders : \A k \in rows'[q] : k \in rows[q] \/ k = S!RowOf(f, seeds)
    BY <1>0, <2>1 DEF SeederTypes
  <2>4. calls' = calls
    BY <1>2 DEF S!Upload
  <2>. QED
    BY <1>0, <2>1, <2>2, <2>3, <2>4 DEF AudioInv
<1>3. CASE UNCHANGED <<calls, seederOwn>>
  BY <1>0, <1>3 DEF AudioInv, seederOwn
<1>. QED
  BY <1>1, <1>2, <1>3, OnlySeeds

LEMMA InitAudioInv == Init => AudioInv
BY PipelineBoundsAssumption DEF Init, S!Init, AudioInv, SeederTypes

\* No call comes up for transcription before its audio is in the bucket, however
\* many seeds run at a time and wherever they die.
THEOREM AudioFirst == Spec => []RowHasAudio
<1>1. AudioInv => RowHasAudio
  BY DEF AudioInv, RowHasAudio, S!RowHasAudio
<1>. QED
  BY <1>1, InitAudioInv, NextAudioInv, PTL DEF Spec

LEMMA SeederTypesAlways == Spec => []SeederTypes
<1>1. AudioInv => SeederTypes
  BY DEF AudioInv
<1>. QED
  BY <1>1, InitAudioInv, NextAudioInv, PTL DEF Spec

-----------------------------------------------------------------------------
(***************************************************************************)
(* One seed at a time over files with stems of their own: what makes a     *)
(* call's row the only one is that nobody else records calls between the   *)
(* question which are known and the insert.                                *)
(***************************************************************************)
OneSeeder == \A s, q \in Seeders : s = q
OwnStems == \A f, g \in Directory : f.call = g.call => f = g

\* A seed in flight knows every recorded call; its rows are of further calls, each
\* once, of files that it has uploaded.
FreshRows(s) ==
    spc[s] # "idle" =>
        /\ \A k \in calls : k.call \in known[s]
        /\ \A k \in rows[s] : k.call \notin known[s]
        /\ \A k, l \in rows[s] : k.call = l.call => k = l
        /\ \A k \in rows[s], f \in files[s] : k.call # f.call

SeedInv == OneRowPerCall /\ \A s \in Seeders : FreshRows(s)

LEMMA UploadSeedInv ==
    ASSUME OneSeeder, OwnStems, SeederTypes, SeedInv, NEW s \in Seeders, S!Upload(s)
    PROVE  SeedInv'
<1>1. PICK f \in files[s] :
          /\ files' = [files EXCEPT ![s] = @ \ {f}]
          /\ rows' = [rows EXCEPT ![s] = IF f.call \in known[s] THEN @
                                         ELSE @ \cup {S!RowOf(f, seeds)}]
  BY DEF S!Upload
<1>2. calls' = calls /\ known' = known /\ spc[s] = "upload"
  BY DEF S!Upload
<1>3. files'[s] = files[s] \ {f} /\ files[s] \subseteq Directory
  BY <1>1 DEF SeederTypes
<1>4. rows'[s] = IF f.call \in known[s] THEN rows[s] ELSE rows[s] \cup {S!RowOf(f, seeds)}
  BY <1>1 DEF SeederTypes
<1>5. S!RowOf(f, seeds).call = f.call
  BY DEF S!RowOf
<1>6. \A g \in files'[s] : g.call # f.call
  BY <1>1, <1>3 DEF OwnStems
<1>7. FreshRows(s)
  BY DEF SeedInv
<1>8. FreshRows(s)'
  <2>1. CASE f.call \in known[s]
    BY <1>2, <1>3, <1>4, <1>7, <2>1 DEF FreshRows
  <2>2. CASE f.call \notin known[s]
    <3>1. \A k \in rows[s] : k.call # f.call
      BY <1>1, <1>2, <1>7 DEF FreshRows
    <3>2. \A k \in rows'[s] : k \in rows[s] \/ k = S!RowOf(f, seeds)
      BY <1>4
    <3>3. /\ \A k \in calls' : k.call \in known'[s]
          /\ \A k \in rows'[s] : k.call \notin known'[s]
      BY <1>2, <1>5, <1>7, <2>2, <3>2 DEF FreshRows
    <3>4. \A k, l \in rows'[s] : k.call = l.call => k = l
      BY <1>2, <1>5, <1>7, <3>1, <3>2 DEF FreshRows
    <3>5. \A k \in rows'[s], g \in files'[s] : k.call # g.call
      BY <1>2, <1>3, <1>5, <1>6, <1>7, <3>2 DEF FreshRows
    <3>. QED
      BY <3>3, <3>4, <3>5 DEF FreshRows
  <2>. QED
    BY <2>1, <2>2
<1>9. \A q \in Seeders : q = s
  BY DEF OneSeeder
<1>10. OneRowPerCall'
  BY <1>2 DEF SeedInv, OneRowPerCall, S!OneRowPerCall
<1>. QED
  BY <1>8, <1>9, <1>10 DEF SeedInv

LEMMA NextSeedInv ==
    ASSUME OneSeeder, OwnStems, SeederTypes, SeedInv, [Next]_vars PROVE SeedInv'
<1>1. ASSUME NEW s \in Seeders, S!Begin(s) PROVE SeedInv'
  <2>1. /\ known'[s] = S!Existing({f.call : f \in Directory}) /\ rows'[s] = {}
        /\ calls' = calls
    BY <1>1 DEF S!Begin, SeederTypes
  <2>2. \A k \in calls : k.call \in CallIds
    BY SeededRowFields DEF SeederTypes
  <2>3. \A k \in calls' : k.call \in known'[s]
    BY <2>1, <2>2 DEF S!Existing, CallIds
  <2>4. FreshRows(s)'
    BY <2>1, <2>3 DEF FreshRows
  <2>5. \A q \in Seeders : q = s
    BY DEF OneSeeder
  <2>. QED
    BY <2>1, <2>4, <2>5 DEF SeedInv, OneRowPerCall, S!OneRowPerCall
<1>2. ASSUME NEW s \in Seeders, S!InsertCalls(s) PROVE SeedInv'
  <2>1. /\ spc[s] = "insert" /\ spc'[s] = "idle" /\ calls' = calls \cup rows[s]
    BY <1>2 DEF S!InsertCalls, SeederTypes
  <2>2. OneRowPerCall'
    BY <2>1 DEF SeedInv, FreshRows, OneRowPerCall, S!OneRowPerCall
  <2>3. \A q \in Seeders : q = s
    BY DEF OneSeeder
  <2>. QED
    BY <2>1, <2>2, <2>3 DEF SeedInv, FreshRows
<1>3. ASSUME NEW s \in Seeders, S!Abort(s) PROVE SeedInv'
  <2>1. spc'[s] = "idle" /\ calls' = calls
    BY <1>3 DEF S!Abort, SeederTypes
  <2>2. \A q \in Seeders : q = s
    BY DEF OneSeeder
  <2>. QED
    BY <2>1, <2>2 DEF SeedInv, FreshRows, OneRowPerCall, S!OneRowPerCall
<1>4. CASE UNCHANGED <<calls, seederOwn>>
  BY <1>4 DEF seederOwn, SeedInv, FreshRows, OneRowPerCall, S!OneRowPerCall
<1>. QED
  BY <1>1, <1>2, <1>3, <1>4, OnlySeeds, UploadSeedInv

LEMMA InitSeedInv == Init => SeedInv
BY DEF Init, S!Init, SeedInv, FreshRows, OneRowPerCall, S!OneRowPerCall

\* Seeding again and again, with seeds that die at any point, records no call
\* twice, as long as two seeds never overlap and no two files share a stem.
THEOREM SeededOnce ==
    ASSUME OneSeeder, OwnStems PROVE Spec => []OneRowPerCall
<1>1. Init => SeedInv
  BY InitSeedInv
<1>2. SeedInv /\ SeederTypes /\ [Next]_vars => SeedInv'
  BY NextSeedInv
<1>3. SeedInv => OneRowPerCall
  BY DEF SeedInv
<1>. QED
  BY <1>1, <1>2, <1>3, SeederTypesAlways, PTL DEF Spec

-----------------------------------------------------------------------------
(***************************************************************************)
(* One export at a time: the look-up of the key and the write are two      *)
(* requests, and only the run itself writes datasets in between.           *)
(***************************************************************************)
OneExporter == \A e, x \in Exporters : e = x

UnusedKey ==
    /\ epc \in [Exporters -> {"idle", "check", "upload"}]
    /\ \A e \in Exporters : epc[e] = "upload" => key[e] \notin DOMAIN datasets

\* The other programs leave the exports alone.
LEMMA OnlyExports ==
    ASSUME [Next]_vars
    PROVE  \/ E!Tick
           \/ \E e \in Exporters : \/ \E a \in Analysers : E!Query(e, a)
                                   \/ E!CheckKey(e) \/ E!UploadDataset(e)
                                   \/ E!ExportDies(e)
           \/ UNCHANGED exportOwn
BY DEF Next, E!Next, outsideSeeder, outsideTranscription, outsideReport, vars

LEMMA UploadAddsKey ==
    ASSUME NEW e \in Exporters, E!UploadDataset(e)
    PROVE  /\ DOMAIN datasets' = DOMAIN datasets \cup {key[e]}
           /\ datasets'[key[e]] = records[e]
           /\ \A k \in DOMAIN datasets : k # key[e] => datasets'[k] = datasets[k]
BY DEF E!UploadDataset

LEMMA NextUnusedKey ==
    ASSUME OneExporter, UnusedKey, [Next]_vars PROVE UnusedKey'
<1>1. ASSUME NEW e \in Exporters, NEW a \in Analysers, E!Query(e, a) PROVE UnusedKey'
  BY <1>1 DEF E!Query, UnusedKey, OneExporter
<1>2. ASSUME NEW e \in Exporters, E!CheckKey(e) PROVE UnusedKey'
  BY <1>2 DEF E!CheckKey, UnusedKey, OneExporter
<1>3. ASSUME NEW e \in Exporters, E!UploadDataset(e) \/ E!ExportDies(e) PROVE UnusedKey'
  BY <1>3 DEF E!UploadDataset, E!ExportDies, UnusedKey, OneExporter
<1>4. CASE E!Tick \/ UNCHANGED exportOwn
  BY <1>4 DEF E!Tick, exportOwn, UnusedKey
<1>. QED
  BY <1>1, <1>2, <1>3, <1>4, OnlyExports

\* Exports that do not overlap never replace a dataset, however fast they follow
\* one another and whatever the other programs do meanwhile.
THEOREM DatasetsKept ==
    ASSUME OneExporter PROVE Spec => DatasetsImmutable
<1>1. Init => UnusedKey
  BY DEF Init, E!Init, UnusedKey
<1>2. UnusedKey /\ [Next]_vars => UnusedKey'
  BY NextUnusedKey
<1>3. UnusedKey /\ [Next]_vars =>
          [\A k \in DOMAIN datasets :
              k \in DOMAIN datasets' /\ datasets'[k] = datasets[k]]_datasets
  <2>. SUFFICES ASSUME UnusedKey, [Next]_vars, datasets' # datasets
                PROVE  \A k \in DOMAIN datasets :
                          k \in DOMAIN datasets' /\ datasets'[k] = datasets[k]
    OBVIOUS
  <2>1. PICK e \in Exporters : E!UploadDataset(e)
    BY OnlyExports DEF E!Tick, E!Query, E!CheckKey, E!ExportDies, exportOwn
  <2>2. key[e] \notin DOMAIN datasets
    BY <2>1 DEF E!UploadDataset, UnusedKey
  <2>. QED
    BY <2>1, <2>2, UploadAddsKey
<1>. QED
  BY <1>1, <1>2, <1>3, PTL DEF Spec, DatasetsImmutable, E!DatasetsImmutable

-----------------------------------------------------------------------------
(***************************************************************************)
(* The flows in the stand.  To each of them a step of another program is   *)
(* what its own proofs call a Neighbour or Elsewhere step.                 *)
(***************************************************************************)
FlowInv == SeederTypes /\ TP!VersionInv /\ RP!VersionInv

\* What a transcript row is does not depend on who looks at it.
LEMMA TranscriptRowsShared == TP!TranscriptRow \subseteq RP!TranscriptRow
<1>1. TP!Calls \subseteq CallIds
  BY SeededRowFields DEF TP!Calls
<1>. QED
  BY <1>1 DEF TP!TranscriptRow, RP!TranscriptRow

\* To the transcription flow every step is one of its own or a Neighbour.
LEMMA TranscriptionSees ==
    ASSUME FlowInv, [Next]_vars
    PROVE  TP!Next \/ TP!Neighbour
<1>0. SeederTypes /\ SeederTypes' /\ TP!WorkTypes /\ RP!WorkTypes
  BY NextSeederTypes DEF FlowInv, TP!VersionInv, RP!VersionInv
<1>1. CASE T!Next /\ UNCHANGED outsideTranscription
  BY <1>1, TNextSame
<1>2. CASE R!Next /\ UNCHANGED outsideReport
  <2>1. minted' \in Nat /\ minted <= minted'
    BY <1>0, <1>2, RNextSame, FlowConstants, RP!MintedGrows
  <2>2. transcriptions' = transcriptions
    BY <1>2, RNextSame, FlowConstants, RP!OnlyReadsTranscripts
  <2>. QED
    BY <1>0, <1>2, <2>1, <2>2 DEF TP!Neighbour, TP!WorkTypes, outsideReport,
                                  transcriptionOwn
<1>3. CASE \/ S!Next /\ UNCHANGED outsideSeeder
           \/ E!Next /\ UNCHANGED outsideExport
           \/ UNCHANGED vars
  <2>1. minted' = minted /\ minted \in Nat /\ transcriptions' = transcriptions
    BY <1>0, <1>3 DEF TP!WorkTypes, outsideSeeder, outsideExport, vars
  <2>2. calls \subseteq calls' /\ calls' \subseteq SeededRows
    BY <1>0, <1>3 DEF SeederTypes, S!Next, S!Begin, S!SeedStep, S!Upload, S!InsertCalls,
                      S!Abort, outsideExport, vars
  <2>3. UNCHANGED <<tpc, ttodo, tbuffer, tbase, tversions>>
    BY <1>3 DEF outsideSeeder, outsideExport, transcriptionOwn, vars
  <2>. QED
    BY <2>1, <2>2, <2>3 DEF TP!Neighbour
<1>. QED
  BY <1>1, <1>2, <1>3 DEF Next

\* To the report flow every step is one of its own, or goes on elsewhere.
LEMMA ReportsSeeElsewhere ==
    ASSUME FlowInv, TP!WorkTypes', [Next]_vars PROVE RP!Next \/ RP!Elsewhere
<1>1. CASE R!Next /\ UNCHANGED outsideReport
  BY <1>1, RNextSame
<1>2. CASE ~ (R!Next /\ UNCHANGED outsideReport)
  <2>1. UNCHANGED <<call_reports, report_inputs, rpc, ranalyser, rtodo, rbuffer, rbase,
                    rversions>>
    BY <1>2 DEF Next, outsideSeeder, outsideTranscription, outsideExport, reportOwn, vars
  <2>2. minted' \in Nat /\ minted <= minted'
    BY TranscriptionSees, FlowConstants, TP!MintedGrows
       DEF FlowInv, TP!VersionInv, TP!Neighbour
  <2>3. transcriptions' \subseteq RP!TranscriptRow
    BY TranscriptRowsShared DEF TP!WorkTypes
  <2>. QED
    BY <2>1, <2>2, <2>3 DEF RP!Elsewhere
<1>. QED
  BY <1>1, <1>2

LEMMA NextFlowInv == ASSUME FlowInv, [Next]_vars PROVE FlowInv'
<1>1. SeederTypes'
  BY NextSeederTypes DEF FlowInv
<1>2. TP!VersionInv'
  BY TranscriptionSees, FlowConstants, TP!NextVersionInv, TP!NeighbourVersionInv
     DEF FlowInv
<1>3. RP!VersionInv'
  <2>1. RP!Next \/ RP!Elsewhere
    BY <1>2, ReportsSeeElsewhere DEF TP!VersionInv
  <2>. QED
    BY <2>1, FlowConstants, RP!NextVersionInv, RP!ElsewhereVersionInv DEF FlowInv
<1>. QED
  BY <1>1, <1>2, <1>3 DEF FlowInv

LEMMA InitFlowInv == Init => FlowInv
<1>. SUFFICES ASSUME Init PROVE FlowInv
  OBVIOUS
<1>1. SeederTypes
  BY InitAudioInv DEF AudioInv
<1>2. /\ calls = {} /\ transcriptions = {} /\ call_reports = {} /\ report_inputs = {}
      /\ minted = 0 /\ TP!InitRuns /\ RP!InitRuns
  BY TInitRunsSame, RInitRunsSame DEF Init, S!Init
<1>3. TP!VersionInv
  BY <1>2, FlowConstants, TP!EmptyVersionInv
<1>4. RP!VersionInv
  BY <1>2, FlowConstants, RP!EmptyVersionInv
<1>. QED
  BY <1>1, <1>3, <1>4 DEF FlowInv

LEMMA FlowInvAlways == Spec => []FlowInv
BY InitFlowInv, NextFlowInv, PTL DEF Spec

LEMMA VersionsSame ==
    TP!VersionsContiguous /\ RP!VersionsContiguous
        => T!VersionsContiguous /\ R!VersionsContiguous
BY CountSame
   DEF TP!VersionsContiguous, RP!VersionsContiguous, T!VersionsContiguous,
       R!VersionsContiguous, TP!Contiguous, RP!Contiguous, T!Contiguous, R!Contiguous,
       TP!VersionsOf, RP!VersionsOf, T!VersionsOf, R!VersionsOf, TP!RowsOf, RP!RowsOf,
       T!RowsOf, R!RowsOf, RP!ReportsBy, R!ReportsBy, T!Calls, TP!Calls

\* The numbers of a call's transcripts, and of its reports by each analyser, are
\* 1, 2, ..., n at every moment of the stand, with any number of seeds, runs of
\* either flow and exports in flight and wherever they die.
THEOREM StandVersionsContiguous ==
    Spec => [](T!VersionsContiguous /\ R!VersionsContiguous)
<1>1. FlowInv => TP!VersionsContiguous
  BY FlowConstants, TP!VersionInvContiguous DEF FlowInv
<1>2. FlowInv => RP!VersionsContiguous
  BY FlowConstants, RP!VersionInvContiguous DEF FlowInv
<1>. QED
  BY <1>1, <1>2, VersionsSame, FlowInvAlways, PTL

-----------------------------------------------------------------------------
(***************************************************************************)
(* A stand run with one of each: one seed at a time, one transcription run *)
(* at a time, one slot for each analyser.  AnalysisPipeline.cfg runs it    *)
(* so; nothing in the code sees to it.                                     *)
(***************************************************************************)
OneTranscriber == OneSeeder /\ OwnStems /\ \A r, q \in TRuns : r = q
OneOfEach ==
    OneTranscriber /\ \A r, q \in RRuns : Serves[r] \cap Serves[q] # {} => r = q

TranscribedOnce == FlowInv /\ SeedInv /\ TP!SingleInv
SingleInv == TranscribedOnce /\ RP!SingleInv /\ RP!ReportsHaveSource

LEMMA OneRowSame == SeedInv => TP!OneRowEach
BY DEF SeedInv, OneRowPerCall, S!OneRowPerCall, TP!OneRowEach

LEMMA OneTranscriptSame == TP!SingleInv => RP!OneCurrentTranscriptEach
BY DEF TP!SingleInv, TP!SingleTranscripts, RP!OneCurrentTranscriptEach,
       RP!CurrentTranscripts

\* As long as transcripts are only added, what goes on elsewhere is the report
\* flow's Neighbour.
LEMMA ReportsSee ==
    ASSUME FlowInv, FlowInv', TP!SingleInv, [Next]_vars
    PROVE  RP!Next \/ RP!Neighbour
<1>1. RP!Next \/ RP!Elsewhere
  BY ReportsSeeElsewhere DEF FlowInv, TP!VersionInv
<1>2. transcriptions \subseteq transcriptions'
  BY TranscriptionSees, FlowConstants, TP!TranscriptsOnlyGrow
<1>. QED
  BY <1>1, <1>2 DEF RP!Neighbour

LEMMA NextTranscribedOnce ==
    ASSUME OneTranscriber, TranscribedOnce, [Next]_vars PROVE TranscribedOnce'
<1>1. FlowInv' /\ FlowInv
  BY NextFlowInv DEF TranscribedOnce
<1>2. SeedInv'
  BY NextSeedInv DEF TranscribedOnce, FlowInv, OneTranscriber
<1>3. TP!WorkTypes'
  BY <1>1 DEF FlowInv, TP!VersionInv
<1>4. TP!OneRowEach'
  BY <1>2 DEF SeedInv, OneRowPerCall, S!OneRowPerCall, TP!OneRowEach
<1>5. TP!Serial
  BY DEF OneTranscriber, TP!Serial
<1>6. TP!SingleInv'
  BY <1>1, <1>3, <1>4, <1>5, TranscriptionSees, FlowConstants, TP!NextSingleInv
     DEF TranscribedOnce
<1>. QED
  BY <1>1, <1>2, <1>6 DEF TranscribedOnce

LEMMA InitTranscribedOnce == Init => TranscribedOnce
<1>. SUFFICES ASSUME Init PROVE TranscribedOnce
  OBVIOUS
<1>1. FlowInv /\ SeedInv
  BY InitFlowInv, InitSeedInv
<1>2. TP!WorkTypes /\ TP!InitRuns /\ transcriptions = {}
  BY <1>1, TInitRunsSame DEF FlowInv, TP!VersionInv, Init
<1>3. TP!SingleInv
  BY <1>1, <1>2, OneRowSame, FlowConstants, TP!InitSingleInv
<1>. QED
  BY <1>1, <1>3 DEF TranscribedOnce

LEMMA NextSingleInv == ASSUME OneOfEach, SingleInv, [Next]_vars PROVE SingleInv'
<1>1. TranscribedOnce' /\ TranscribedOnce
  BY NextTranscribedOnce DEF SingleInv, OneOfEach
<1>2. RP!WorkTypes' /\ RP!WorkTypes
  BY <1>1 DEF TranscribedOnce, FlowInv, RP!VersionInv
<1>3. RP!Next \/ RP!Neighbour
  BY <1>1, ReportsSee DEF TranscribedOnce
<1>4. RP!SingleInv'
  <2>1. RP!OneCurrentTranscriptEach'
    BY <1>1 DEF TranscribedOnce, TP!SingleInv, TP!SingleTranscripts,
                RP!OneCurrentTranscriptEach, RP!CurrentTranscripts
  <2>2. RP!OneSlotEach
    BY DEF OneOfEach, RP!OneSlotEach
  <2>. QED
    BY <1>2, <1>3, <2>1, <2>2, FlowConstants, RP!NextSingleInv DEF SingleInv
<1>5. RP!ReportsHaveSource'
  BY <1>2, <1>3, FlowConstants, RP!StepReportsHaveSource
     DEF SingleInv, RP!SingleInv, RP!WorkInv
<1>. QED
  BY <1>1, <1>4, <1>5 DEF SingleInv

LEMMA InitSingleInv == Init => SingleInv
<1>. SUFFICES ASSUME Init PROVE SingleInv
  OBVIOUS
<1>1. TranscribedOnce
  BY InitTranscribedOnce
<1>2. RP!WorkTypes /\ RP!InitRuns /\ call_reports = {}
  BY <1>1, RInitRunsSame DEF TranscribedOnce, FlowInv, RP!VersionInv, Init
<1>3. RP!SingleInv
  BY <1>1, <1>2, OneTranscriptSame, FlowConstants, RP!InitSingleInv DEF TranscribedOnce
<1>4. RP!ReportsHaveSource
  BY <1>2 DEF RP!ReportsHaveSource
<1>. QED
  BY <1>1, <1>3, <1>4 DEF SingleInv

\* With one seed and one transcription run at a time the stand pays for one
\* transcript of a call, however often it is seeded and triggered again and wherever
\* seeds and runs die.
THEOREM StandTranscribesOnce ==
    ASSUME OneTranscriber PROVE Spec => []T!NeverTranscribedTwice
<1>1. TranscribedOnce => TP!NeverTranscribedTwice
  BY FlowConstants, TP!SingleTranscriptsCount DEF TranscribedOnce, TP!SingleInv
<1>2. TP!NeverTranscribedTwice => T!NeverTranscribedTwice
  BY CountSame DEF TP!NeverTranscribedTwice, T!NeverTranscribedTwice, T!RowsOf, TP!RowsOf,
         T!Calls, TP!Calls
<1>3. TranscribedOnce /\ [Next]_vars => TranscribedOnce'
  BY NextTranscribedOnce
<1>. QED
  BY <1>1, <1>2, <1>3, InitTranscribedOnce, PTL DEF Spec

\* With one slot for each analyser as well, it pays for one report of a call by each
\* of them, and that report stays current.
THEOREM StandReportsOnce ==
    ASSUME OneOfEach PROVE Spec => []R!OneCurrentReportEach
<1>1. SingleInv => RP!OneCurrentReportEach
  BY FlowConstants, RP!SingleReportsCount DEF SingleInv, RP!SingleInv
<1>2. RP!OneCurrentReportEach => R!OneCurrentReportEach
  BY CountSame DEF RP!OneCurrentReportEach, R!OneCurrentReportEach, R!RowsOf, RP!RowsOf,
         R!ReportsBy, RP!ReportsBy
<1>3. SingleInv /\ [Next]_vars => SingleInv'
  BY NextSingleInv
<1>. QED
  BY <1>1, <1>2, <1>3, InitSingleInv, PTL DEF Spec

\* The lineage of the stand tells the truth, with report runs of any number in
\* flight, while transcripts come in: the transcription flow and the seeder see to
\* it that no call gets the second current transcript that would break it.
THEOREM StandLineageTruthful ==
    ASSUME OneTranscriber PROVE Spec => []R!LineageTruthful
<1>. DEFINE IInv == TranscribedOnce /\ RP!TruthInv
<1>1. Init => IInv
  <2>. SUFFICES ASSUME Init PROVE IInv
    OBVIOUS
  <2>1. TranscribedOnce
    BY InitTranscribedOnce
  <2>2. RP!WorkTypes /\ RP!InitRuns /\ report_inputs = {}
    BY <2>1, RInitRunsSame DEF TranscribedOnce, FlowInv, RP!VersionInv, Init
  <2>. QED
    BY <2>1, <2>2, FlowConstants, RP!InitTruthInv
<1>2. IInv /\ [Next]_vars => IInv'
  <2>. SUFFICES ASSUME IInv, [Next]_vars PROVE IInv'
    OBVIOUS
  <2>1. TranscribedOnce'
    BY NextTranscribedOnce
  <2>2. RP!WorkTypes'
    BY <2>1 DEF TranscribedOnce, FlowInv, RP!VersionInv
  <2>3. RP!OneCurrentTranscriptEach
    BY OneTranscriptSame DEF TranscribedOnce
  <2>4. RP!Next \/ RP!Neighbour
    BY <2>1, ReportsSee DEF TranscribedOnce
  <2>. QED
    BY <2>1, <2>2, <2>3, <2>4, FlowConstants, RP!StepTruthInv
<1>3. IInv => R!LineageTruthful
  BY DEF RP!TruthInv, RP!LineageTruthful, R!LineageTruthful
<1>. HIDE DEF IInv
<1>. QED
  BY <1>1, <1>2, <1>3, PTL DEF Spec

-----------------------------------------------------------------------------
\* What a dataset of analyser a claims of its lines.
Truthful(a, lines) ==
    /\ \A x \in lines : \E rep \in call_reports : /\ rep.id = x.report
                                                  /\ rep.source = x.transcript
                                                  /\ rep.analyser = a
    /\ \A x, y \in lines : x.call = y.call => x = y

Published == \A k \in DOMAIN datasets : Truthful(k.analyser, datasets[k])

\* It holds of the lines an export is about to publish as well.
ExportTypes ==
    /\ epc \in [Exporters -> {"idle", "check", "upload"}]
    /\ records = [e \in Exporters |-> records[e]]
    /\ key \in [Exporters -> [analyser : Analysers \cup {"none"}, stamp : Nat]]
    /\ now \in Nat

PairsInv ==
    /\ ExportTypes
    /\ Published
    /\ \A e \in Exporters : epc[e] # "idle" => Truthful(key[e].analyser, records[e])

\* The join pairs a report with the transcript it was computed from because that is
\* the only transcript of its call.
LEMMA JoinedTruthful ==
    ASSUME SingleInv, NEW a PROVE Truthful(a, E!Joined(a))
<1>1. ASSUME NEW x \in E!Joined(a)
      PROVE  \E k \in calls, t \in transcriptions, rep \in call_reports :
                /\ t.call = rep.call /\ t.current /\ k.call = rep.call
                /\ rep.current /\ rep.analyser = a
                /\ x = [row |-> k.row, call |-> k.call, transcript |-> t.id,
                        report |-> rep.id]
  BY <1>1 DEF E!Joined
<1>2. ASSUME NEW x \in E!Joined(a)
      PROVE  \E rep \in call_reports : /\ rep.id = x.report
                                       /\ rep.source = x.transcript
                                       /\ rep.analyser = a
  <2>1. PICK t \in transcriptions, rep \in call_reports :
            /\ t.call = rep.call /\ rep.analyser = a
            /\ x.transcript = t.id /\ x.report = rep.id
    BY <1>1, <1>2
  <2>2. PICK u \in transcriptions : u.id = rep.source /\ u.call = rep.call
    BY DEF SingleInv, RP!ReportsHaveSource
  <2>3. u = t
    BY <2>1, <2>2 DEF SingleInv, TranscribedOnce, TP!SingleInv, TP!SingleTranscripts
  <2>. QED
    BY <2>1, <2>2, <2>3
<1>3. ASSUME NEW x \in E!Joined(a), NEW y \in E!Joined(a), x.call = y.call
      PROVE  x = y
  <2>1. PICK k \in calls, t \in transcriptions, rep \in call_reports :
            /\ t.call = rep.call /\ k.call = rep.call /\ rep.analyser = a
            /\ x = [row |-> k.row, call |-> k.call, transcript |-> t.id,
                    report |-> rep.id]
    BY <1>1
  <2>2. PICK l \in calls, u \in transcriptions, other \in call_reports :
            /\ u.call = other.call /\ l.call = other.call /\ other.analyser = a
            /\ y = [row |-> l.row, call |-> l.call, transcript |-> u.id,
                    report |-> other.id]
    BY <1>1
  <2>3. k.call = l.call
    BY <1>3, <2>1, <2>2
  <2>4. k = l
    BY <2>3 DEF SingleInv, TranscribedOnce, SeedInv, OneRowPerCall, S!OneRowPerCall
  <2>5. t = u
    BY <2>1, <2>2, <2>3 DEF SingleInv, TranscribedOnce, TP!SingleInv, TP!SingleTranscripts
  <2>6. rep = other
    BY <2>1, <2>2, <2>3 DEF SingleInv, RP!SingleInv, RP!SingleReports
  <2>. QED
    BY <2>1, <2>2, <2>4, <2>5, <2>6
<1>. QED
  BY <1>2, <1>3 DEF Truthful

LEMMA NextExportTypes == ASSUME ExportTypes, [Next]_vars PROVE ExportTypes'
<1>1. CASE E!Tick \/ UNCHANGED exportOwn
  BY <1>1 DEF E!Tick, exportOwn, ExportTypes
<1>2. ASSUME NEW e \in Exporters, NEW a \in Analysers, E!Query(e, a) PROVE ExportTypes'
  BY <1>2 DEF E!Query, ExportTypes
<1>3. ASSUME NEW e \in Exporters, E!CheckKey(e) PROVE ExportTypes'
  BY <1>3 DEF E!CheckKey, ExportTypes
<1>4. ASSUME NEW e \in Exporters, E!UploadDataset(e) \/ E!ExportDies(e)
      PROVE  ExportTypes'
  BY <1>4 DEF E!UploadDataset, E!ExportDies, ExportTypes
<1>. QED
  BY <1>1, <1>2, <1>3, <1>4, OnlyExports

LEMMA NextPairsInv ==
    ASSUME SingleInv, SingleInv', PairsInv, [Next]_vars PROVE PairsInv'
<1>0. ExportTypes /\ ExportTypes'
  BY NextExportTypes DEF PairsInv
<1>1. call_reports \subseteq call_reports'
  BY ReportsSee, FlowConstants, RP!ReportsOnlyGrow DEF SingleInv, TranscribedOnce
<1>2. \A a, lines : Truthful(a, lines) => Truthful(a, lines)'
  BY <1>1 DEF Truthful
<1>3. ASSUME datasets' = datasets PROVE Published'
  BY <1>2, <1>3 DEF PairsInv, Published
<1>4. ASSUME NEW e \in Exporters, NEW a \in Analysers, E!Query(e, a) PROVE PairsInv'
  <2>1. /\ records'[e] = E!Joined(a) /\ key'[e] = [analyser |-> a, stamp |-> 0]
        /\ datasets' = datasets
        /\ \A x \in Exporters \ {e} : /\ records'[x] = records[x] /\ key'[x] = key[x]
                                     /\ epc'[x] = epc[x]
    BY <1>0, <1>4 DEF E!Query, ExportTypes
  <2>2. Truthful(a, E!Joined(a))
    BY JoinedTruthful
  <2>3. \A x \in Exporters : epc'[x] # "idle"
                              => Truthful(key'[x].analyser, records'[x])
    BY <2>1, <2>2 DEF PairsInv
  <2>. QED
    BY <1>0, <1>2, <1>3, <2>1, <2>3 DEF PairsInv
<1>5. ASSUME NEW e \in Exporters, E!CheckKey(e) PROVE PairsInv'
  <2>1. /\ records' = records /\ datasets' = datasets
        /\ key'[e].analyser = key[e].analyser /\ epc[e] # "idle"
        /\ \A x \in Exporters \ {e} : key'[x] = key[x] /\ epc'[x] = epc[x]
    BY <1>0, <1>5 DEF E!CheckKey, ExportTypes
  <2>2. \A x \in Exporters : epc'[x] # "idle"
                              => Truthful(key'[x].analyser, records'[x])
    BY <2>1 DEF PairsInv
  <2>. QED
    BY <1>0, <1>2, <1>3, <2>1, <2>2 DEF PairsInv
<1>6. ASSUME NEW e \in Exporters, E!UploadDataset(e) PROVE PairsInv'
  <2>1. /\ records' = records /\ key' = key /\ epc[e] # "idle"
        /\ \A x \in Exporters : epc'[x] # "idle" => epc[x] # "idle"
    BY <1>0, <1>6 DEF E!UploadDataset, ExportTypes
  <2>2. Truthful(key[e].analyser, records[e])
    BY <2>1 DEF PairsInv
  <2>3. \A k \in DOMAIN datasets' : \/ datasets'[k] = records[e] /\ k = key[e]
                                    \/ k \in DOMAIN datasets /\ datasets'[k] = datasets[k]
    BY <1>6, UploadAddsKey
  <2>4. \A k \in DOMAIN datasets' : Truthful(k.analyser, datasets'[k])
    BY <2>2, <2>3 DEF PairsInv, Published
  <2>5. Published'
    BY <1>2, <2>4 DEF Published
  <2>6. \A x \in Exporters : epc'[x] # "idle"
                              => Truthful(key'[x].analyser, records'[x])
    BY <2>1 DEF PairsInv
  <2>. QED
    BY <1>0, <1>2, <2>5, <2>6 DEF PairsInv
<1>7. ASSUME NEW e \in Exporters, E!ExportDies(e) PROVE PairsInv'
  <2>1. /\ records' = records /\ key' = key /\ datasets' = datasets
        /\ \A x \in Exporters : epc'[x] # "idle" => epc[x] # "idle"
    BY <1>0, <1>7 DEF E!ExportDies, ExportTypes
  <2>2. \A x \in Exporters : epc'[x] # "idle"
                              => Truthful(key'[x].analyser, records'[x])
    BY <2>1 DEF PairsInv
  <2>. QED
    BY <1>0, <1>2, <1>3, <2>1, <2>2 DEF PairsInv
<1>8. CASE E!Tick \/ UNCHANGED exportOwn
  <2>1. records' = records /\ key' = key /\ datasets' = datasets /\ epc' = epc
    BY <1>8 DEF E!Tick, exportOwn
  <2>2. \A x \in Exporters : epc'[x] # "idle"
                              => Truthful(key'[x].analyser, records'[x])
    BY <2>1 DEF PairsInv
  <2>. QED
    BY <1>0, <1>2, <1>3, <2>1, <2>2 DEF PairsInv
<1>. QED
  BY <1>4, <1>5, <1>6, <1>7, <1>8, OnlyExports

LEMMA InitPairsInv == Init => PairsInv
BY DEF Init, E!Init, PairsInv, ExportTypes, Published, E!NoKey

\* Run with one of each, every published line pairs a report with the transcript it
\* was made from, one line for a call, although the export's query joins the current
\* rows and asks nothing of the kind; exports may overlap.
THEOREM PublishedPairsTruthful ==
    ASSUME OneOfEach PROVE Spec => []PairsTruthful
<1>1. PairsInv => PairsTruthful
  BY DEF PairsInv, Published, Truthful, PairsTruthful, E!PairsTruthful
<1>2. SingleInv /\ [Next]_vars => SingleInv'
  BY NextSingleInv
<1>3. SingleInv /\ SingleInv' /\ PairsInv /\ [Next]_vars => PairsInv'
  BY NextPairsInv
<1>. QED
  BY <1>1, <1>2, <1>3, InitSingleInv, InitPairsInv, PTL DEF Spec
===============================================================================
