------------------------- MODULE CallReportFlowProofs -------------------------
(***************************************************************************)
(* Theorems about CallReportFlow for every set of calls and analysers,     *)
(* every number of overlapping runs and every bound.                       *)
(***************************************************************************)
EXTENDS CallReportFlow, AnalysisTablesProofs, SequenceTheorems

\* A run in flight has the analyser it was started with.
AnalyserChosen == \A r \in Runs : pc[r] # "idle" => analyser[r] \in Analysers

\* Each analyser's versions of a call are an interval that starts at 1.
VersionsAreIntervals ==
    \A c \in Calls, a \in Analysers :
        \E n \in Nat : VersionsOf(ReportsBy(a), c) = 1 .. n

\* A version a run has read and not used yet follows a version its call already
\* has from the same analyser; what it used stays a version.
PlannedVersionsFollow ==
    \A r \in Runs : pc[r] \in {"insert", "inputs"} =>
        \A c \in OkCalls(r) :
            /\ versions[r][c] \in Nat \ {0}
            /\ \/ versions[r][c] = 1
               \/ versions[r][c] - 1 \in VersionsOf(ReportsBy(analyser[r]), c)

VersionInv ==
    WorkTypes /\ AnalyserChosen /\ VersionsAreIntervals /\ PlannedVersionsFollow

-----------------------------------------------------------------------------
LEMMA StaticTypes ==
    /\ NotAsked \in [Calls -> Nat]
    /\ Transcripts \subseteq TranscriptRow
BY TranscriptsAssumption DEF NotAsked

LEMMA ResultTypes ==
    ASSUME WorkTypes, NEW r \in Runs, NEW i \in Positions(r)
    PROVE  /\ i \in 1 .. Len(buffer[r])
           /\ i \in Nat \ {0}
           /\ buffer[r][i] \in Result
           /\ buffer[r][i].source \in TranscriptRow
           /\ CallAt(r, i) \in Calls
<1>1. buffer[r] \in Seq(Result)
  BY DEF WorkTypes
<1>2. i \in 1 .. Len(buffer[r])
  BY <1>1 DEF Positions
<1>3. buffer[r][i] \in Result
  BY <1>1, <1>2
<1>4. buffer[r][i].source \in TranscriptRow
  BY <1>3 DEF Result
<1>. QED
  BY <1>2, <1>3, <1>4 DEF CallAt, TranscriptRow

LEMMA OutcomesAreResults ==
    ASSUME NEW t \in TranscriptRow PROVE Outcomes(t) \subseteq Result
<1>1. \A n \in StampCounts : n \in Nat
  BY ReportLimitsAssumption
<1>. SUFFICES ASSUME NEW res \in Outcomes(t) PROVE res \in Result
  OBVIOUS
<1>2. CASE \E n \in StampCounts :
              res = [source |-> t, ok |-> TRUE, stamps |-> n]
  BY <1>1, <1>2 DEF Result
<1>3. CASE res = [source |-> t, ok |-> FALSE, stamps |-> 0]
  BY <1>3 DEF Result
<1>. QED
  BY <1>2, <1>3 DEF Outcomes

\* The transcript the lineage lookup answers with is one the run analysed, there or
\* further on in the chunk.
LEMMA SourceIsOfTheCall ==
    ASSUME WorkTypes, NEW r \in Runs, NEW i \in OkPositions(r)
    PROVE  \E k \in OkPositions(r) : /\ SourceOf(r, CallAt(r, i)) = buffer[r][k].source
                                     /\ CallAt(r, k) = CallAt(r, i)
                                     /\ i <= k
<1>. DEFINE own == OkPositionsFor(r, CallAt(r, i))
<1>1. own \subseteq 1 .. Len(buffer[r]) /\ Len(buffer[r]) \in Nat
  BY ResultTypes DEF OkPositionsFor, OkPositions, WorkTypes
<1>2. i \in own
  BY DEF OkPositionsFor
<1>3. Max(own) \in own /\ i <= Max(own)
  <2>1. own \in SUBSET Nat
    BY <1>1
  <2>2. IsFiniteSet(own)
    <3>1. IsFiniteSet(1 .. Len(buffer[r]))
      BY <1>1, FS_Interval
    <3>2. own \in SUBSET (1 .. Len(buffer[r]))
      BY <1>1
    <3>. HIDE DEF own
    <3>. QED
      BY <3>1, <3>2, FS_Subset
  <2>. HIDE DEF own
  <2>. QED
    BY <1>2, <2>1, <2>2, MaxOfNaturals
<1>4. Max(own) \in OkPositions(r) /\ CallAt(r, Max(own)) = CallAt(r, i)
  BY <1>3 DEF OkPositionsFor
<1>. QED
  BY <1>3, <1>4 DEF SourceOf

LEMMA SourceType ==
    ASSUME WorkTypes, NEW r \in Runs, NEW i \in OkPositions(r)
    PROVE  SourceOf(r, CallAt(r, i)) \in TranscriptRow
BY SourceIsOfTheCall, ResultTypes DEF OkPositions

\* The rows of a chunk have the types of their tables.
LEMMA NewRowsType ==
    ASSUME VersionInv, NEW r \in Runs, pc[r] = "insert"
    PROVE  NewRows(r) \subseteq ReportRow
<1>0. WorkTypes
  BY DEF VersionInv
<1>. SUFFICES ASSUME NEW i \in OkPositions(r)
              PROVE  [id |-> base[r] + i,
                      call |-> CallAt(r, i),
                      version |-> versions[r][CallAt(r, i)],
                      current |-> TRUE,
                      analyser |-> analyser[r],
                      source |-> buffer[r][i].source.id] \in ReportRow
  BY DEF NewRows
<1>1. i \in Positions(r)
  BY DEF OkPositions
<1>2. i \in Nat \ {0} /\ CallAt(r, i) \in Calls /\ buffer[r][i].source \in TranscriptRow
  BY <1>0, <1>1, ResultTypes
<1>3. CallAt(r, i) \in OkCalls(r)
  BY DEF OkCalls
<1>4. versions[r][CallAt(r, i)] \in Nat \ {0}
  BY <1>3 DEF VersionInv, PlannedVersionsFollow
<1>5. base[r] + i \in Nat
  BY <1>0, <1>2 DEF WorkTypes
<1>6. analyser[r] \in Analysers
  BY DEF VersionInv, AnalyserChosen
<1>7. buffer[r][i].source.id \in Nat
  BY <1>2 DEF TranscriptRow
<1>. QED
  BY <1>2, <1>4, <1>5, <1>6, <1>7 DEF ReportRow

LEMMA InputRowsType ==
    ASSUME VersionInv, NEW r \in Runs, pc[r] = "inputs"
    PROVE  InputRows(r) \subseteq InputRow
<1>0. WorkTypes
  BY DEF VersionInv
<1>. SUFFICES ASSUME NEW i \in OkPositions(r)
              PROVE  [report |-> base[r] + i,
                      report_version |-> versions[r][CallAt(r, i)],
                      source |-> SourceOf(r, CallAt(r, i)).id,
                      source_version |-> SourceOf(r, CallAt(r, i)).version] \in InputRow
  BY DEF InputRows
<1>1. i \in Nat \ {0}
  BY <1>0, ResultTypes DEF OkPositions
<1>2. base[r] + i \in Nat
  BY <1>0, <1>1 DEF WorkTypes
<1>3. CallAt(r, i) \in OkCalls(r)
  BY DEF OkCalls
<1>4. versions[r][CallAt(r, i)] \in Nat \ {0}
  BY <1>3 DEF VersionInv, PlannedVersionsFollow
<1>5. SourceOf(r, CallAt(r, i)) \in TranscriptRow
  BY <1>0, SourceType
<1>6. SourceOf(r, CallAt(r, i)).id \in Nat /\ SourceOf(r, CallAt(r, i)).version \in Nat \ {0}
  BY <1>5 DEF TranscriptRow
<1>. QED
  BY <1>2, <1>4, <1>6 DEF InputRow

LEMMA JournalRowsType ==
    ASSUME VersionInv, NEW r \in Runs, pc[r] = "journal"
    PROVE  JournalRows(r) \subseteq JournalRow
<1>0. WorkTypes
  BY DEF VersionInv
<1>. SUFFICES ASSUME NEW i \in Positions(r), NEW s \in StampsOf(buffer[r][i])
              PROVE  [attempt |-> base[r] + i,
                      stamp |-> s,
                      call |-> CallAt(r, i),
                      kind |-> ArtifactTypeOf(analyser[r]),
                      status |-> IF buffer[r][i].ok THEN "ok" ELSE "failed",
                      artifact |-> ArtifactOf(r, i)] \in JournalRow
  BY DEF JournalRows, JournalRowsOf
<1>1. i \in Nat \ {0} /\ buffer[r][i] \in Result /\ CallAt(r, i) \in Calls
  BY <1>0, ResultTypes
<1>2. base[r] \in Nat
  BY <1>0 DEF WorkTypes
<1>3. s \in Nat
  BY <1>1 DEF StampsOf, Result
<1>4. ArtifactOf(r, i) \in Nat
  <2>. DEFINE own == OkPositionsFor(r, CallAt(r, i))
  <2>1. own \in SUBSET Nat
    BY <1>0, ResultTypes DEF OkPositionsFor, OkPositions
  <2>2. own # {} => Min(own) \in Nat
    BY <2>1, MinOfNaturals
  <2>3. ArtifactOf(r, i) = IF own = {} THEN NoArtifact ELSE base[r] + Min(own)
    BY DEF ArtifactOf
  <2>. HIDE DEF own
  <2>. QED
    BY <1>2, <2>2, <2>3 DEF NoArtifact
<1>5. analyser[r] \in Analysers
  BY DEF VersionInv, AnalyserChosen
<1>6. ArtifactTypeOf(analyser[r]) \in {ArtifactTypeOf(a) : a \in Analysers}
  BY <1>5
<1>7. (IF buffer[r][i].ok THEN "ok" ELSE "failed") \in {"ok", "failed"}
  OBVIOUS
<1>. QED
  BY <1>1, <1>2, <1>3, <1>4, <1>6, <1>7 DEF JournalRow

LEMMA DemotedType ==
    ASSUME NEW table \in SUBSET ReportRow, NEW scope, NEW cs, NEW keep
    PROVE  Demoted(table, scope, cs, keep) \subseteq ReportRow
BY DEF Demoted, ReportRow

LEMMA ChunkDoneType ==
    ASSUME WorkTypes, NEW r \in Runs, ChunkDone(r)
    PROVE  /\ pc' \in [Runs -> {"idle", "analyse", "versions", "insert", "inputs",
                                "journal", "demote"}]
           /\ buffer' \in [Runs -> Seq(Result)]
           /\ base' \in [Runs -> Nat]
           /\ versions' \in [Runs -> [Calls -> Nat]]
BY StaticTypes DEF WorkTypes, ChunkDone

-----------------------------------------------------------------------------
\* How the tables of an empty stand look to the flow.
LEMMA EmptyVersionInv ==
    ASSUME transcriptions \subseteq TranscriptRow, call_reports = {}, report_inputs = {},
           minted \in Nat, InitRuns
    PROVE  VersionInv
<1>1. WorkTypes
  BY StaticTypes DEF InitRuns, WorkTypes
<1>2. \A c \in Calls, a \in Analysers : VersionsOf(ReportsBy(a), c) = 1 .. 0
  BY DEF VersionsOf, RowsOf, ReportsBy
<1>3. VersionsAreIntervals
  BY <1>2 DEF VersionsAreIntervals
<1>4. AnalyserChosen /\ PlannedVersionsFollow
  BY DEF InitRuns, PlannedVersionsFollow, AnalyserChosen
<1>. QED
  BY <1>1, <1>3, <1>4 DEF VersionInv

LEMMA InitVersionInv == Init => VersionInv
<1>. SUFFICES ASSUME Init PROVE VersionInv
  OBVIOUS
<1>. DEFINE ids == {t.id : t \in Transcripts}
            Id == [t \in Transcripts |-> t.id]
            S == {0} \cup ids
<1>1. IsFiniteSet(ids)
  <2>1. Id \in Surjection(Transcripts, ids)
    BY DEF Surjection
  <2>. HIDE DEF Id, ids
  <2>. QED
    BY <2>1, TranscriptsAssumption, FS_Surjection
<1>2. ids \in SUBSET Nat
  BY StaticTypes DEF TranscriptRow
<1>. HIDE DEF ids
<1>3. S \in SUBSET Nat /\ S # {} /\ IsFiniteSet(S)
  BY <1>1, <1>2, FS_AddElement
<1>. HIDE DEF S
<1>4. Max(S) \in S
  BY <1>3, MaxOfNaturals
<1>5. minted \in Nat
  BY <1>3, <1>4 DEF Init, S, ids
<1>. QED
  BY <1>5, StaticTypes, EmptyVersionInv DEF Init

\* An action that adds no report and plans no version keeps the conjuncts about
\* versions, as long as the runs past their reading keep what they planned.
LEMMA VersionsUntouched ==
    ASSUME VersionInv,
           \A c \in Calls, a \in Analysers :
               VersionsOf(ReportsBy(a), c)' = VersionsOf(ReportsBy(a), c),
           \A r \in Runs : pc'[r] \in {"insert", "inputs"} =>
               /\ pc[r] \in {"insert", "inputs"}
               /\ buffer'[r] = buffer[r]
               /\ versions'[r] = versions[r]
               /\ analyser'[r] = analyser[r]
    PROVE  VersionsAreIntervals' /\ PlannedVersionsFollow'
<1>1. VersionsAreIntervals'
  BY DEF VersionInv, VersionsAreIntervals
<1>2. PlannedVersionsFollow'
  <2>. SUFFICES ASSUME NEW r \in Runs, pc'[r] \in {"insert", "inputs"},
                       NEW c \in OkCalls(r)'
                PROVE  /\ versions'[r][c] \in Nat \ {0}
                       /\ \/ versions'[r][c] = 1
                          \/ versions'[r][c] - 1
                                \in VersionsOf(ReportsBy(analyser[r]), c)'
    BY DEF PlannedVersionsFollow
  <2>1. c \in OkCalls(r)
    BY DEF OkCalls, OkPositions, Positions, CallAt
  <2>2. c \in Calls
    BY <2>1, ResultTypes DEF OkCalls, OkPositions, VersionInv
  <2>3. analyser[r] \in Analysers /\ analyser'[r] = analyser[r]
    BY DEF VersionInv, AnalyserChosen
  <2>4. VersionsOf(ReportsBy(analyser[r]), c)' = VersionsOf(ReportsBy(analyser[r]), c)
    <3>. DEFINE a == analyser[r]
    <3>1. VersionsOf(ReportsBy(analyser[r]), c)' = VersionsOf({t \in call_reports' : t.analyser = a}, c)
      BY <2>3 DEF ReportsBy, VersionsOf, RowsOf
    <3>2. VersionsOf({t \in call_reports : t.analyser = a}, c)
              = VersionsOf({t \in call_reports' : t.analyser = a}, c)
      BY <2>2, <2>3 DEF ReportsBy, VersionsOf, RowsOf
    <3>. QED
      BY <3>1, <3>2 DEF ReportsBy
  <2>. QED
    BY <2>1, <2>2, <2>4 DEF VersionInv, PlannedVersionsFollow
<1>. QED
  BY <1>1, <1>2

LEMMA FetchVersionInv ==
    ASSUME VersionInv, NEW r \in Runs, NEW a \in Analysers, Fetch(r, a)
    PROVE  VersionInv'
<1>1. WorkTypes'
  <2>1. PICK P \in Earliest(Candidates(a), Limit, LAMBDA t : t.id) :
            todo' = [todo EXCEPT ![r] = P]
    BY DEF Fetch
  <2>2. P \subseteq TranscriptRow
    BY <2>1 DEF Earliest, Candidates, VersionInv, WorkTypes
  <2>. QED
    BY <2>1, <2>2 DEF Fetch, tables, VersionInv, WorkTypes
<1>2. VersionsAreIntervals' /\ PlannedVersionsFollow'
  <2>1. \A c \in Calls, b \in Analysers :
            VersionsOf(ReportsBy(b), c)' = VersionsOf(ReportsBy(b), c)
    BY DEF Fetch, tables, VersionsOf, RowsOf, ReportsBy
  <2>2. \A q \in Runs : pc'[q] \in {"insert", "inputs"} =>
            /\ pc[q] \in {"insert", "inputs"} /\ buffer'[q] = buffer[q]
            /\ versions'[q] = versions[q] /\ analyser'[q] = analyser[q]
    BY DEF Fetch, VersionInv, WorkTypes
  <2>. QED
    BY <2>1, <2>2, VersionsUntouched
<1>3. AnalyserChosen'
  BY DEF Fetch, VersionInv, WorkTypes, AnalyserChosen
<1>. QED
  BY <1>1, <1>2, <1>3 DEF VersionInv

LEMMA AnalyseVersionInv ==
    ASSUME VersionInv, NEW r \in Runs, Analyse(r) PROVE VersionInv'
<1>1. WorkTypes'
  <2>1. PICK t \in todo[r] :
            /\ todo' = [todo EXCEPT ![r] = @ \ {t}]
            /\ \E res \in Outcomes(t) :
                  buffer' = [buffer EXCEPT ![r] = Append(@, res)]
    BY DEF Analyse
  <2>2. PICK res \in Outcomes(t) :
            buffer' = [buffer EXCEPT ![r] = Append(@, res)]
    BY <2>1
  <2>3. t \in TranscriptRow
    BY DEF VersionInv, WorkTypes
  <2>4. res \in Result
    BY <2>3, OutcomesAreResults
  <2>5. Append(buffer[r], res) \in Seq(Result)
    BY <2>4, AppendProperties DEF VersionInv, WorkTypes
  <2>6. buffer' \in [Runs -> Seq(Result)]
    BY <2>2, <2>5 DEF VersionInv, WorkTypes
  <2>7. todo' \in [Runs -> SUBSET TranscriptRow]
    BY <2>1 DEF VersionInv, WorkTypes
  <2>. QED
    BY <2>6, <2>7 DEF Analyse, tables, VersionInv, WorkTypes
<1>2. VersionsAreIntervals' /\ PlannedVersionsFollow'
  <2>1. \A c \in Calls, b \in Analysers :
            VersionsOf(ReportsBy(b), c)' = VersionsOf(ReportsBy(b), c)
    BY DEF Analyse, tables, VersionsOf, RowsOf, ReportsBy
  <2>2. \A q \in Runs : pc'[q] \in {"insert", "inputs"} =>
            /\ pc[q] \in {"insert", "inputs"} /\ buffer'[q] = buffer[q]
            /\ versions'[q] = versions[q] /\ analyser'[q] = analyser[q]
    BY DEF Analyse, VersionInv, WorkTypes
  <2>. QED
    BY <2>1, <2>2, VersionsUntouched
<1>3. AnalyserChosen'
  BY DEF Analyse, VersionInv, WorkTypes, AnalyserChosen
<1>. QED
  BY <1>1, <1>2, <1>3 DEF VersionInv

\* The answer to max(version) is the first free version of each call.
LEMMA ReadVersionsVersionInv ==
    ASSUME VersionInv, NEW r \in Runs, ReadVersions(r) PROVE VersionInv'
<1>0. /\ pc[r] = "versions" /\ analyser[r] \in Analysers
      /\ analyser' = analyser /\ buffer' = buffer /\ call_reports' = call_reports
  BY DEF ReadVersions, tables, VersionInv, AnalyserChosen
<1>1. \A c \in OkCalls(r) : c \in Calls
  BY ResultTypes DEF OkCalls, OkPositions, VersionInv
<1>. DEFINE mine == ReportsBy(analyser[r])
<1>2. \A c \in Calls : /\ NextVersion(mine, c) \in Nat \ {0}
                       /\ \/ NextVersion(mine, c) = 1
                          \/ NextVersion(mine, c) - 1 \in VersionsOf(mine, c)
  <2>. TAKE c \in Calls
  <2>1. PICK n \in Nat : VersionsOf(mine, c) = 1 .. n
    BY <1>0 DEF VersionInv, VersionsAreIntervals
  <2>. HIDE DEF mine
  <2>2. NextVersion(mine, c) = n + 1
    BY <2>1, NextVersionExtends
  <2>. QED
    BY <2>1, <2>2
<1>3. WorkTypes'
  <2>1. Len(buffer[r]) \in Nat
    BY DEF VersionInv, WorkTypes
  <2>2. [c \in Calls |-> IF c \in OkCalls(r) THEN NextVersion(mine, c) ELSE 0]
            \in [Calls -> Nat]
    BY <1>2
  <2>3. versions' \in [Runs -> [Calls -> Nat]]
    BY <2>2 DEF ReadVersions, VersionInv, WorkTypes
  <2>. QED
    BY <2>1, <2>3 DEF ReadVersions, tables, VersionInv, WorkTypes
<1>4. VersionsAreIntervals'
  BY <1>0 DEF VersionInv, VersionsAreIntervals, VersionsOf, RowsOf, ReportsBy
<1>5. PlannedVersionsFollow'
  <2>. SUFFICES ASSUME NEW q \in Runs, pc'[q] \in {"insert", "inputs"},
                       NEW c \in OkCalls(q)'
                PROVE  /\ versions'[q][c] \in Nat \ {0}
                       /\ \/ versions'[q][c] = 1
                          \/ versions'[q][c] - 1
                                \in VersionsOf(ReportsBy(analyser[q]), c)'
    BY DEF PlannedVersionsFollow
  <2>1. c \in OkCalls(q)
    BY <1>0 DEF OkCalls, OkPositions, Positions, CallAt
  <2>2. VersionsOf(ReportsBy(analyser[q]), c)' = VersionsOf(ReportsBy(analyser[q]), c)
    BY <1>0 DEF VersionsOf, RowsOf, ReportsBy
  <2>3. CASE q = r
    <3>1. versions'[r][c] = NextVersion(mine, c)
      BY <1>1, <2>1, <2>3 DEF ReadVersions, VersionInv, WorkTypes
    <3>. QED
      BY <1>1, <1>2, <2>1, <2>2, <2>3, <3>1
  <2>4. CASE q # r
    <3>1. pc[q] \in {"insert", "inputs"} /\ versions'[q] = versions[q]
      BY <2>4 DEF ReadVersions, VersionInv, WorkTypes
    <3>. QED
      BY <2>1, <2>2, <3>1 DEF VersionInv, PlannedVersionsFollow
  <2>. QED
    BY <2>3, <2>4
<1>6. AnalyserChosen'
  BY <1>0 DEF ReadVersions, VersionInv, WorkTypes, AnalyserChosen
<1>. QED
  BY <1>3, <1>4, <1>5, <1>6 DEF VersionInv

\* What a chunk adds to the versions of a call: the one planned for it, in the
\* rows of the run's analyser, and nothing in those of any other.
LEMMA InsertedVersions ==
    ASSUME VersionInv, NEW r \in Runs, Insert(r), NEW c \in Calls, NEW a \in Analysers
    PROVE  VersionsOf(ReportsBy(a), c)'
               = VersionsOf(ReportsBy(a), c)
                   \cup (IF a = analyser[r] /\ c \in OkCalls(r)
                         THEN {versions[r][c]} ELSE {})
<1>. DEFINE new == {t \in NewRows(r) : t.analyser = a}
<1>1. {t.version : t \in RowsOf(new, c)}
          = IF a = analyser[r] /\ c \in OkCalls(r) THEN {versions[r][c]} ELSE {}
  <2>1. \A t \in RowsOf(new, c) : /\ c \in OkCalls(r) /\ a = analyser[r]
                                  /\ t.version = versions[r][c]
    BY DEF RowsOf, NewRows, OkCalls
  <2>2. ASSUME c \in OkCalls(r), a = analyser[r]
        PROVE \E t \in RowsOf(new, c) : TRUE
    <3>1. PICK i \in OkPositions(r) : c = CallAt(r, i)
      BY <2>2 DEF OkCalls
    <3>. DEFINE t == [id |-> base[r] + i,
                      call |-> CallAt(r, i),
                      version |-> versions[r][CallAt(r, i)],
                      current |-> TRUE,
                      analyser |-> analyser[r],
                      source |-> buffer[r][i].source.id]
    <3>2. t \in NewRows(r)
      BY DEF NewRows
    <3>3. t.call = c /\ t.analyser = a
      BY <2>2, <3>1
    <3>. QED
      BY <3>2, <3>3 DEF RowsOf
  <2>. QED
    BY <2>1, <2>2
<1>2. RowsOf(ReportsBy(a), c)' = RowsOf(ReportsBy(a), c) \cup RowsOf(new, c)
  BY DEF Insert, ReportsBy, RowsOf
<1>. QED
  BY <1>1, <1>2 DEF VersionsOf

LEMMA InsertVersionInv ==
    ASSUME VersionInv, NEW r \in Runs, Insert(r) PROVE VersionInv'
<1>0. pc[r] = "insert" /\ analyser[r] \in Analysers
  BY DEF Insert, VersionInv, AnalyserChosen
<1>1. WorkTypes'
  <2>1. call_reports' \subseteq ReportRow
    BY <1>0, NewRowsType DEF Insert, VersionInv, WorkTypes
  <2>. QED
    BY <2>1 DEF Insert, VersionInv, WorkTypes
<1>2. VersionsAreIntervals'
  <2>. SUFFICES ASSUME NEW c \in Calls, NEW a \in Analysers
                PROVE  \E m \in Nat : VersionsOf(ReportsBy(a), c)' = 1 .. m
    BY DEF VersionsAreIntervals
  <2>1. PICK n \in Nat : VersionsOf(ReportsBy(a), c) = 1 .. n
    BY DEF VersionInv, VersionsAreIntervals
  <2>2. CASE ~ (a = analyser[r] /\ c \in OkCalls(r))
    BY <2>1, <2>2, InsertedVersions
  <2>3. CASE a = analyser[r] /\ c \in OkCalls(r)
    <3>. DEFINE v == versions[r][c]
    <3>1. v \in Nat \ {0} /\ (v = 1 \/ v - 1 \in 1 .. n)
      BY <1>0, <2>1, <2>3 DEF VersionInv, PlannedVersionsFollow
    <3>2. VersionsOf(ReportsBy(a), c)' = (1 .. n) \cup {v}
      BY <2>1, <2>3, InsertedVersions
    <3>. HIDE DEF v
    <3>3. v \in 1 .. n \/ v = n + 1
      BY <3>1
    <3>4. (1 .. n) \cup {v} = 1 .. n \/ (1 .. n) \cup {v} = 1 .. (n + 1)
      BY <3>3
    <3>. QED
      BY <3>2, <3>4
  <2>. QED
    BY <2>2, <2>3
<1>3. PlannedVersionsFollow'
  <2>. SUFFICES ASSUME NEW q \in Runs, pc'[q] \in {"insert", "inputs"},
                       NEW c \in OkCalls(q)'
                PROVE  /\ versions'[q][c] \in Nat \ {0}
                       /\ \/ versions'[q][c] = 1
                          \/ versions'[q][c] - 1
                                \in VersionsOf(ReportsBy(analyser[q]), c)'
    BY DEF PlannedVersionsFollow
  <2>1. c \in OkCalls(q) /\ versions' = versions /\ analyser' = analyser
    BY DEF OkCalls, OkPositions, Positions, CallAt, Insert
  <2>2. c \in Calls
    BY <2>1, ResultTypes DEF OkCalls, OkPositions, VersionInv
  <2>3. pc[q] \in {"insert", "inputs"}
    BY DEF Insert, VersionInv, WorkTypes
  <2>4. analyser[q] \in Analysers
    BY <2>3 DEF VersionInv, AnalyserChosen
  <2>5. VersionsOf(ReportsBy(analyser[q]), c) \subseteq VersionsOf(ReportsBy(analyser[q]), c)'
    BY DEF Insert, VersionsOf, RowsOf, ReportsBy
  <2>. QED
    BY <2>1, <2>3, <2>5 DEF VersionInv, PlannedVersionsFollow
<1>4. AnalyserChosen'
  BY <1>0 DEF Insert, VersionInv, WorkTypes, AnalyserChosen
<1>. QED
  BY <1>1, <1>2, <1>3, <1>4 DEF VersionInv

LEMMA InsertInputsVersionInv ==
    ASSUME VersionInv, NEW r \in Runs, InsertInputs(r) PROVE VersionInv'
<1>1. WorkTypes'
  <2>1. report_inputs' \subseteq InputRow
    BY InputRowsType DEF InsertInputs, VersionInv, WorkTypes
  <2>. QED
    BY <2>1 DEF InsertInputs, VersionInv, WorkTypes
<1>2. VersionsAreIntervals' /\ PlannedVersionsFollow'
  <2>1. \A c \in Calls, b \in Analysers :
            VersionsOf(ReportsBy(b), c)' = VersionsOf(ReportsBy(b), c)
    BY DEF InsertInputs, VersionsOf, RowsOf, ReportsBy
  <2>2. \A q \in Runs : pc'[q] \in {"insert", "inputs"} =>
            /\ pc[q] \in {"insert", "inputs"} /\ buffer'[q] = buffer[q]
            /\ versions'[q] = versions[q] /\ analyser'[q] = analyser[q]
    BY DEF InsertInputs, VersionInv, WorkTypes
  <2>. QED
    BY <2>1, <2>2, VersionsUntouched
<1>3. AnalyserChosen'
  BY DEF InsertInputs, VersionInv, WorkTypes, AnalyserChosen
<1>. QED
  BY <1>1, <1>2, <1>3 DEF VersionInv

LEMMA JournalVersionInv ==
    ASSUME VersionInv, NEW r \in Runs, Journal(r) PROVE VersionInv'
<1>1. WorkTypes'
  <2>1. CASE OkPositions(r) = {}
    BY <2>1, ChunkDoneType DEF Journal, VersionInv, WorkTypes
  <2>2. CASE OkPositions(r) # {}
    BY <2>2 DEF Journal, VersionInv, WorkTypes
  <2>. QED
    BY <2>1, <2>2
<1>2. VersionsAreIntervals' /\ PlannedVersionsFollow'
  <2>1. \A c \in Calls, b \in Analysers :
            VersionsOf(ReportsBy(b), c)' = VersionsOf(ReportsBy(b), c)
    BY DEF Journal, VersionsOf, RowsOf, ReportsBy
  <2>2. \A q \in Runs : pc'[q] \in {"insert", "inputs"} =>
            /\ pc[q] \in {"insert", "inputs"} /\ buffer'[q] = buffer[q]
            /\ versions'[q] = versions[q] /\ analyser'[q] = analyser[q]
    BY DEF Journal, ChunkDone, VersionInv, WorkTypes
  <2>. QED
    BY <2>1, <2>2, VersionsUntouched
<1>3. AnalyserChosen'
  BY DEF Journal, ChunkDone, VersionInv, WorkTypes, AnalyserChosen
<1>. QED
  BY <1>1, <1>2, <1>3 DEF VersionInv

LEMMA ReportRowFields ==
    ASSUME NEW t \in ReportRow
    PROVE  {"id", "call", "version", "current"} \subseteq DOMAIN t
BY DEF ReportRow

\* The reports of one analyser in a table.
By(table, a) == {t \in table : t.analyser = a}

\* Demoting gives no report to another analyser.
LEMMA DemotedByAnalyser ==
    ASSUME NEW table \in SUBSET ReportRow, NEW scope, NEW cs, NEW keep, NEW a
    PROVE  By(Demoted(table, scope, cs, keep), a) = Demoted(By(table, a), scope, cs, keep)
<1>. DEFINE D(t) == IF t \in scope /\ t.call \in cs /\ t.current /\ t.id \notin keep
                    THEN [t EXCEPT !.current = FALSE] ELSE t
<1>1. \A t \in table : D(t).analyser = t.analyser
  BY DEF ReportRow
<1>2. \A T : Demoted(T, scope, cs, keep) = {D(t) : t \in T}
  BY DEF Demoted
<1>. HIDE DEF D
<1>. QED
  BY <1>1, <1>2 DEF By

LEMMA ReportsAfterDemote ==
    ASSUME WorkTypes, NEW r \in Runs, Demote(r), NEW a \in Analysers
    PROVE  ReportsBy(a)' = Demoted(ReportsBy(a), ReportsBy(analyser[r]), OkCalls(r), RowIds(r))
<1>. DEFINE scope == ReportsBy(analyser[r])
            cs == OkCalls(r)
            keep == RowIds(r)
<1>1. call_reports' = Demoted(call_reports, scope, cs, keep)
  BY DEF Demote
<1>2. call_reports \in SUBSET ReportRow
  BY DEF WorkTypes
<1>. HIDE DEF scope, cs, keep
<1>3. By(Demoted(call_reports, scope, cs, keep), a)
          = Demoted(By(call_reports, a), scope, cs, keep)
  BY <1>2, DemotedByAnalyser
<1>4. ReportsBy(a)' = By(call_reports', a) /\ ReportsBy(a) = By(call_reports, a)
  BY DEF ReportsBy, By
<1>. QED
  BY <1>1, <1>3, <1>4 DEF scope, cs, keep

LEMMA DemoteVersionInv ==
    ASSUME VersionInv, NEW r \in Runs, Demote(r) PROVE VersionInv'
<1>0. WorkTypes /\ call_reports \in SUBSET ReportRow
  BY DEF VersionInv, WorkTypes
<1>1. WorkTypes'
  <2>1. call_reports' \subseteq ReportRow
    BY <1>0, DemotedType DEF Demote
  <2>. QED
    BY <2>1, ChunkDoneType DEF Demote, VersionInv, WorkTypes
<1>2. VersionsAreIntervals' /\ PlannedVersionsFollow'
  <2>1. \A c \in Calls, b \in Analysers :
            VersionsOf(ReportsBy(b), c)' = VersionsOf(ReportsBy(b), c)
    <3>. TAKE c \in Calls, b \in Analysers
    <3>. DEFINE mine == ReportsBy(b)
                scope == ReportsBy(analyser[r])
    <3>1. ReportsBy(b)' = Demoted(mine, scope, OkCalls(r), RowIds(r))
      BY <1>0, ReportsAfterDemote
    <3>2. \A t \in mine : {"id", "call", "version", "current"} \subseteq DOMAIN t
      BY <1>0, ReportRowFields DEF ReportsBy
    <3>. HIDE DEF scope, mine
    <3>3. VersionsOf(Demoted(mine, scope, OkCalls(r), RowIds(r)), c) = VersionsOf(mine, c)
      BY <3>2, DemotedKeepsVersions
    <3>4. VersionsOf(ReportsBy(b), c)' = VersionsOf(ReportsBy(b)', c)
      BY DEF VersionsOf, RowsOf
    <3>. QED
      BY <3>1, <3>3, <3>4 DEF mine
  <2>2. \A q \in Runs : pc'[q] \in {"insert", "inputs"} =>
            /\ pc[q] \in {"insert", "inputs"} /\ buffer'[q] = buffer[q]
            /\ versions'[q] = versions[q] /\ analyser'[q] = analyser[q]
    BY DEF Demote, ChunkDone, VersionInv, WorkTypes
  <2>. QED
    BY <2>1, <2>2, VersionsUntouched
<1>3. AnalyserChosen'
  BY DEF Demote, ChunkDone, VersionInv, WorkTypes, AnalyserChosen
<1>. QED
  BY <1>1, <1>2, <1>3 DEF VersionInv

LEMMA CrashVersionInv ==
    ASSUME VersionInv, NEW r \in Runs, Crash(r) PROVE VersionInv'
<1>1. WorkTypes'
  BY StaticTypes DEF Crash, tables, VersionInv, WorkTypes
<1>2. VersionsAreIntervals' /\ PlannedVersionsFollow'
  <2>1. \A c \in Calls, b \in Analysers :
            VersionsOf(ReportsBy(b), c)' = VersionsOf(ReportsBy(b), c)
    BY DEF Crash, tables, VersionsOf, RowsOf, ReportsBy
  <2>2. \A q \in Runs : pc'[q] \in {"insert", "inputs"} =>
            /\ pc[q] \in {"insert", "inputs"} /\ buffer'[q] = buffer[q]
            /\ versions'[q] = versions[q] /\ analyser'[q] = analyser[q]
    BY DEF Crash, VersionInv, WorkTypes
  <2>. QED
    BY <2>1, <2>2, VersionsUntouched
<1>3. AnalyserChosen'
  BY DEF Crash, VersionInv, WorkTypes, AnalyserChosen
<1>. QED
  BY <1>1, <1>2, <1>3 DEF VersionInv

\* VersionInv is inductive.
LEMMA NextVersionInv == VersionInv /\ [Next]_vars => VersionInv'
<1>. SUFFICES ASSUME VersionInv, [Next]_vars PROVE VersionInv'
  OBVIOUS
<1>1. CASE Next
  <2>1. PICK r \in Runs : Start(r) \/ Step(r) \/ Crash(r)
    BY <1>1 DEF Next
  <2>2. CASE Start(r)
    BY <2>2, FetchVersionInv DEF Start
  <2>. QED
    BY <2>1, <2>2, AnalyseVersionInv, ReadVersionsVersionInv, InsertVersionInv,
       InsertInputsVersionInv, JournalVersionInv, DemoteVersionInv, CrashVersionInv
       DEF Step
<1>2. CASE UNCHANGED vars
  <2>1. WorkTypes'
    BY <1>2 DEF vars, VersionInv, WorkTypes
  <2>2. VersionsAreIntervals' /\ PlannedVersionsFollow'
    BY <1>2, VersionsUntouched DEF vars, VersionsOf, RowsOf, ReportsBy
  <2>3. AnalyserChosen'
    BY <1>2 DEF vars, VersionInv, AnalyserChosen
  <2>. QED
    BY <2>1, <2>2, <2>3 DEF VersionInv
<1>. QED
  BY <1>1, <1>2

\* What every theorem of this module starts from.
LEMMA WorkTypesAlways == Spec => []WorkTypes
<1>1. VersionInv => WorkTypes
  BY DEF VersionInv
<1>. QED
  BY <1>1, InitVersionInv, NextVersionInv, PTL DEF Spec

\* The journal and the counters keep their types.
LEMMA NextTypeOK == VersionInv /\ TypeOK /\ [Next]_vars => TypeOK'
<1>. SUFFICES ASSUME VersionInv, TypeOK, [Next]_vars PROVE TypeOK'
  OBVIOUS
<1>1. WorkTypes'
  BY NextVersionInv DEF VersionInv
<1>2. CASE UNCHANGED vars
  BY <1>1, <1>2 DEF vars, TypeOK
<1>3. ASSUME NEW r \in Runs, Start(r) \/ Step(r) \/ Crash(r) PROVE TypeOK'
  <2>1. pc[r] = "journal" => JournalRows(r) \subseteq JournalRow
    BY JournalRowsType
  <2>2. llm_calls' \subseteq JournalRow
    <3>1. \/ llm_calls' = llm_calls
          \/ pc[r] = "journal" /\ llm_calls' = llm_calls \cup JournalRows(r)
      BY <1>3 DEF Start, Step, Fetch, Analyse, ReadVersions, Insert, InsertInputs,
                  Journal, Demote, Crash, tables
    <3>. QED
      BY <2>1, <3>1 DEF TypeOK
  <2>3. starts' \in Nat /\ crashes' \in Nat
    <3>1. starts' \in {starts, starts + 1} /\ crashes' \in {crashes, crashes + 1}
      BY <1>3 DEF Start, Step, Fetch, Analyse, ReadVersions, Insert, InsertInputs,
                  Journal, Demote, Crash
    <3>. QED
      BY <3>1 DEF TypeOK
  <2>. QED
    BY <1>1, <2>2, <2>3 DEF TypeOK
<1>. QED
  BY <1>2, <1>3 DEF Next

\* Every state of CallReportFlow is well typed.
THEOREM TypeCorrect == Spec => []TypeOK
<1>1. Init => TypeOK
  BY InitVersionInv DEF VersionInv, TypeOK, Init, InitRuns
<1>. QED
  BY <1>1, InitVersionInv, NextVersionInv, NextTypeOK, PTL DEF Spec

LEMMA VersionInvContiguous == VersionInv => VersionsContiguous
BY ContiguousIffInterval DEF VersionInv, VersionsAreIntervals, VersionsContiguous

\* Each analyser numbers the reports of a call without a gap, whatever runs of
\* either analyser overlap or die (next_versions_for_calls within one analyser).
THEOREM VersionsStayContiguous == Spec => []VersionsContiguous
BY InitVersionInv, NextVersionInv, VersionInvContiguous, PTL DEF Spec

-----------------------------------------------------------------------------
\* A run past the statement that records lineage has recorded it for its chunk.
RecordedLineage ==
    \A r \in Runs : pc[r] \in {"journal", "demote"} =>
        \A i \in OkPositions(r) : \E l \in report_inputs : l.report = base[r] + i

LineageInv == WorkTypes /\ RecordedLineage /\ JournalledHasLineage

LEMMA InputsOnlyGrow ==
    ASSUME [Next]_vars PROVE report_inputs \subseteq report_inputs'
BY DEF Next, Start, Step, Fetch, Analyse, ReadVersions, Insert, InsertInputs, Journal,
       Demote, Crash, tables, vars

LEMMA StepKeepsRecordedLineage ==
    ASSUME LineageInv, [Next]_vars PROVE RecordedLineage'
<1>. SUFFICES ASSUME NEW q \in Runs, pc'[q] \in {"journal", "demote"},
                     NEW i \in OkPositions(q)'
              PROVE  \E l \in report_inputs' : l.report = base'[q] + i
  BY DEF RecordedLineage
<1>0. WorkTypes
  BY DEF LineageInv
<1>1. CASE pc[q] \in {"journal", "demote"} /\ buffer'[q] = buffer[q] /\ base'[q] = base[q]
  <2>1. i \in OkPositions(q)
    BY <1>1 DEF OkPositions, Positions
  <2>2. PICK l \in report_inputs : l.report = base[q] + i
    BY <1>1, <2>1 DEF LineageInv, RecordedLineage
  <2>. QED
    BY <1>1, <2>2, InputsOnlyGrow
<1>2. CASE Start(q) \/ Analyse(q) \/ Insert(q) \/ Demote(q) \/ Crash(q)
  <2>1. pc'[q] \notin {"journal", "demote"}
    BY <1>0, <1>2 DEF Start, Fetch, Analyse, Insert, Demote, Crash, ChunkDone, WorkTypes
  <2>. QED
    BY <2>1
<1>3. CASE ReadVersions(q)
  <2>1. OkPositions(q) = {} /\ OkPositions(q)' = OkPositions(q)
    BY <1>0, <1>3 DEF ReadVersions, OkPositions, Positions, WorkTypes
  <2>. QED
    BY <2>1
<1>4. CASE InsertInputs(q)
  <2>1. buffer' = buffer /\ base' = base /\ i \in OkPositions(q)
    BY <1>4 DEF InsertInputs, OkPositions, Positions
  <2>. DEFINE l == [report |-> base[q] + i,
                    report_version |-> versions[q][CallAt(q, i)],
                    source |-> SourceOf(q, CallAt(q, i)).id,
                    source_version |-> SourceOf(q, CallAt(q, i)).version]
  <2>2. l \in report_inputs'
    BY <1>4, <2>1 DEF InsertInputs, InputRows
  <2>. QED
    BY <2>1, <2>2
<1>5. CASE Journal(q)
  <2>1. OkPositions(q) # {}
    BY <1>0, <1>5 DEF Journal, ChunkDone, WorkTypes
  <2>2. pc[q] = "journal" /\ buffer'[q] = buffer[q] /\ base'[q] = base[q]
    BY <1>5, <2>1 DEF Journal
  <2>. QED
    BY <1>1, <2>2
<1>6. CASE \E r \in Runs \ {q} : Start(r) \/ Step(r) \/ Crash(r)
  <2>1. PICK r \in Runs \ {q} : Start(r) \/ Step(r) \/ Crash(r)
    BY <1>6
  <2>2. pc'[q] = pc[q] /\ buffer'[q] = buffer[q] /\ base'[q] = base[q]
    BY <1>0, <2>1 DEF Start, Step, Fetch, Analyse, ReadVersions, Insert, InsertInputs,
                      Journal, Demote, Crash, ChunkDone, WorkTypes
  <2>. QED
    BY <1>1, <2>2
<1>7. CASE UNCHANGED vars
  BY <1>1, <1>7 DEF vars
<1>. QED
  BY <1>2, <1>3, <1>4, <1>5, <1>6, <1>7 DEF Next, Step

\* What the journal says of a success names a report whose lineage is recorded.
LEMMA OkRowsHaveLineage ==
    ASSUME LineageInv, NEW r \in Runs, pc[r] = "journal",
           NEW j \in JournalRows(r), j.status = "ok"
    PROVE  \E l \in report_inputs : l.report = j.artifact
<1>0. WorkTypes
  BY DEF LineageInv
<1>1. PICK i \in Positions(r) : j \in JournalRowsOf(r, i)
  BY DEF JournalRows
<1>2. i \in OkPositions(r) /\ j.artifact = ArtifactOf(r, i)
  BY <1>1 DEF JournalRowsOf, OkPositions
<1>. DEFINE own == OkPositionsFor(r, CallAt(r, i))
<1>3. own \in SUBSET Nat /\ own # {}
  BY <1>0, <1>2, ResultTypes DEF OkPositionsFor, OkPositions
<1>4. Min(own) \in own
  <2>. HIDE DEF own
  <2>. QED
    BY <1>3, MinOfNaturals
<1>5. Min(own) \in OkPositions(r) /\ j.artifact = base[r] + Min(own)
  BY <1>2, <1>3, <1>4 DEF ArtifactOf, OkPositionsFor
<1>. HIDE DEF own
<1>. QED
  BY <1>5 DEF LineageInv, RecordedLineage

LEMMA StepKeepsLineage ==
    ASSUME LineageInv, [Next]_vars PROVE JournalledHasLineage'
<1>. SUFFICES ASSUME NEW j \in llm_calls', j.status = "ok"
              PROVE  \E l \in report_inputs' : l.report = j.artifact
  BY DEF JournalledHasLineage
<1>1. CASE j \in llm_calls
  BY <1>1, InputsOnlyGrow DEF LineageInv, JournalledHasLineage
<1>2. CASE j \notin llm_calls
  <2>1. PICK r \in Runs : Journal(r)
    BY <1>2 DEF Next, Start, Step, Fetch, Analyse, ReadVersions, Insert, InsertInputs,
                Demote, Crash, tables, vars
  <2>2. j \in JournalRows(r) /\ pc[r] = "journal"
    BY <1>2, <2>1 DEF Journal
  <2>. QED
    BY <2>2, OkRowsHaveLineage, InputsOnlyGrow
<1>. QED
  BY <1>1, <1>2

\* No report without lineage is called finished by the journal, wherever a run
\* dies: the order of the statements in _persist.
THEOREM FinishedReportsHaveLineage == Spec => []JournalledHasLineage
<1>1. LineageInv => JournalledHasLineage
  BY DEF LineageInv
<1>2. Init => LineageInv
  <2>1. Init => WorkTypes
    BY InitVersionInv DEF VersionInv
  <2>. QED
    BY <2>1 DEF Init, InitRuns, LineageInv, RecordedLineage, JournalledHasLineage
<1>3. LineageInv /\ WorkTypes' /\ [Next]_vars => LineageInv'
  BY StepKeepsRecordedLineage, StepKeepsLineage DEF LineageInv
<1>. QED
  BY <1>1, <1>2, <1>3, WorkTypesAlways, PTL DEF Spec

-----------------------------------------------------------------------------
\* A run past its insert has the reports of its chunk in the table, current or
\* not, as reports of its own analyser.
CommittedReports ==
    \A r \in Runs : pc[r] \in {"inputs", "journal", "demote"} =>
        \A i \in OkPositions(r) : \E t \in call_reports :
            t.id = base[r] + i /\ t.call = CallAt(r, i) /\ t.analyser = analyser[r]

CommitInv == WorkTypes /\ CommittedReports

\* The identity of a report survives every step.
LEMMA StepKeepsIdentity ==
    ASSUME WorkTypes, [Next]_vars, NEW t \in call_reports
    PROVE  \E u \in call_reports' : /\ u.id = t.id /\ u.call = t.call
                                    /\ u.analyser = t.analyser
                                    /\ u.version = t.version /\ u.source = t.source
<1>1. CASE call_reports \subseteq call_reports'
  BY <1>1
<1>2. CASE \E r \in Runs : Demote(r)
  <2>1. t \in ReportRow
    BY DEF WorkTypes
  <2>2. t \in call_reports' \/ [t EXCEPT !.current = FALSE] \in call_reports'
    BY <1>2 DEF Demote, Demoted
  <2>3. CASE t \in call_reports'
    BY <2>3
  <2>4. CASE [t EXCEPT !.current = FALSE] \in call_reports'
    BY <2>1, <2>4 DEF ReportRow
  <2>. QED
    BY <2>2, <2>3, <2>4
<1>. QED
  BY <1>1, <1>2 DEF Next, Start, Step, Fetch, Analyse, ReadVersions, Insert,
                    InsertInputs, Journal, Crash, tables, vars

LEMMA StepKeepsCommittedReports ==
    ASSUME CommitInv, [Next]_vars PROVE CommittedReports'
<1>. SUFFICES ASSUME NEW q \in Runs, pc'[q] \in {"inputs", "journal", "demote"},
                     NEW i \in OkPositions(q)'
              PROVE  \E t \in call_reports' : /\ t.id = base'[q] + i
                                              /\ t.call = CallAt(q, i)'
                                              /\ t.analyser = analyser'[q]
  BY DEF CommittedReports
<1>0. WorkTypes
  BY DEF CommitInv
<1>1. CASE /\ pc[q] \in {"inputs", "journal", "demote"} /\ buffer'[q] = buffer[q]
           /\ base'[q] = base[q] /\ analyser'[q] = analyser[q]
  <2>1. i \in OkPositions(q) /\ CallAt(q, i)' = CallAt(q, i)
    BY <1>1 DEF OkPositions, Positions, CallAt
  <2>2. PICK t \in call_reports : /\ t.id = base[q] + i /\ t.call = CallAt(q, i)
                                  /\ t.analyser = analyser[q]
    BY <1>1, <2>1 DEF CommitInv, CommittedReports
  <2>. QED
    BY <1>0, <1>1, <2>1, <2>2, StepKeepsIdentity
<1>2. CASE Start(q) \/ Analyse(q) \/ Demote(q) \/ Crash(q)
  <2>1. pc'[q] \notin {"inputs", "journal", "demote"}
    BY <1>0, <1>2 DEF Start, Fetch, Analyse, Demote, Crash, ChunkDone, WorkTypes
  <2>. QED
    BY <2>1
<1>3. CASE ReadVersions(q)
  <2>1. OkPositions(q) = {} /\ OkPositions(q)' = OkPositions(q)
    BY <1>0, <1>3 DEF ReadVersions, OkPositions, Positions, WorkTypes
  <2>. QED
    BY <2>1
<1>4. CASE Insert(q)
  <2>1. /\ buffer' = buffer /\ base' = base /\ analyser' = analyser
        /\ i \in OkPositions(q) /\ CallAt(q, i)' = CallAt(q, i)
    BY <1>4 DEF Insert, OkPositions, Positions, CallAt
  <2>. DEFINE t == [id |-> base[q] + i,
                    call |-> CallAt(q, i),
                    version |-> versions[q][CallAt(q, i)],
                    current |-> TRUE,
                    analyser |-> analyser[q],
                    source |-> buffer[q][i].source.id]
  <2>2. t \in call_reports'
    BY <1>4, <2>1 DEF Insert, NewRows
  <2>. QED
    BY <2>1, <2>2
<1>5. CASE InsertInputs(q)
  BY <1>1, <1>5 DEF InsertInputs
<1>6. CASE Journal(q)
  <2>1. OkPositions(q) # {}
    BY <1>0, <1>6 DEF Journal, ChunkDone, WorkTypes
  <2>. QED
    BY <1>1, <1>6, <2>1 DEF Journal
<1>7. CASE \E r \in Runs \ {q} : Start(r) \/ Step(r) \/ Crash(r)
  <2>1. PICK r \in Runs \ {q} : Start(r) \/ Step(r) \/ Crash(r)
    BY <1>7
  <2>2. /\ pc'[q] = pc[q] /\ buffer'[q] = buffer[q]
        /\ base'[q] = base[q] /\ analyser'[q] = analyser[q]
    BY <1>0, <2>1 DEF Start, Step, Fetch, Analyse, ReadVersions, Insert, InsertInputs,
                      Journal, Demote, Crash, ChunkDone, WorkTypes
  <2>. QED
    BY <1>1, <2>2
<1>8. CASE UNCHANGED vars
  BY <1>1, <1>8 DEF vars
<1>. QED
  BY <1>2, <1>3, <1>4, <1>5, <1>6, <1>7, <1>8 DEF Next, Step

\* A report a demote clears has a committed replacement by the same analyser.
LEMMA DemoteHasReplacement ==
    ASSUME CommitInv, [Next]_vars,
           NEW t \in call_reports, t.current, t \notin call_reports'
    PROVE  \E u \in ReportsBy(t.analyser) : u.call = t.call /\ u.id # t.id
<1>1. PICK r \in Runs : Demote(r)
  BY DEF Next, Start, Step, Fetch, Analyse, ReadVersions, Insert, InsertInputs, Journal,
         Crash, tables, vars
<1>2. /\ pc[r] = "demote"
      /\ call_reports' = Demoted(call_reports, ReportsBy(analyser[r]), OkCalls(r),
                                 RowIds(r))
  BY <1>1 DEF Demote
<1>3. t \in ReportsBy(analyser[r]) /\ t.call \in OkCalls(r) /\ t.id \notin RowIds(r)
  BY <1>2 DEF Demoted
<1>4. PICK i \in OkPositions(r) : t.call = CallAt(r, i)
  BY <1>3 DEF OkCalls
<1>5. PICK u \in call_reports : /\ u.id = base[r] + i /\ u.call = CallAt(r, i)
                                /\ u.analyser = analyser[r]
  BY <1>2 DEF CommitInv, CommittedReports
<1>6. u.id \in RowIds(r)
  BY <1>5 DEF RowIds
<1>. QED
  BY <1>3, <1>4, <1>5, <1>6 DEF ReportsBy

\* No report loses is_current before another report of its call by the same
\* analyser is committed: the order of the statements in _persist.
THEOREM DemotedInFavour == Spec => DemotedOnlyWhenReplaced
<1>1. CommitInv /\ [Next]_vars =>
          [\A t \in call_reports :
              (t.current /\ t \notin call_reports')
                  => \E u \in ReportsBy(t.analyser) : u.call = t.call /\ u.id # t.id]_vars
  BY DemoteHasReplacement
<1>2. CommitInv /\ WorkTypes' /\ [Next]_vars => CommitInv'
  BY StepKeepsCommittedReports DEF CommitInv
<1>3. Init => CommitInv
  <2>1. Init => WorkTypes
    BY InitVersionInv DEF VersionInv
  <2>. QED
    BY <2>1 DEF Init, InitRuns, CommitInv, CommittedReports
<1>. QED
  BY <1>1, <1>2, <1>3, WorkTypesAlways, PTL DEF Spec, DemotedOnlyWhenReplaced

-----------------------------------------------------------------------------
\* A step of a run leaves what belongs to another analyser as it was.
LEMMA OthersUntouched ==
    ASSUME WorkTypes, NEW r \in Runs, Start(r) \/ Step(r) \/ Crash(r),
           NEW a \in Analysers, a # analyser[r]
    PROVE  /\ ReportsBy(a)' = ReportsBy(a)
           /\ \A c : FailedRows(llm_calls, ArtifactTypeOf(a), c)'
                       = FailedRows(llm_calls, ArtifactTypeOf(a), c)
<1>1. CASE Insert(r)
  BY <1>1 DEF Insert, NewRows, ReportsBy, FailedRows
<1>2. CASE Journal(r)
  <2>1. \A j \in JournalRows(r) : j.kind = ArtifactTypeOf(analyser[r])
    BY DEF JournalRows, JournalRowsOf
  <2>2. ArtifactTypeOf(analyser[r]) # ArtifactTypeOf(a)
    BY DEF ArtifactTypeOf
  <2>3. llm_calls' = llm_calls \cup JournalRows(r) /\ call_reports' = call_reports
    BY <1>2 DEF Journal
  <2>. QED
    BY <2>1, <2>2, <2>3 DEF ReportsBy, FailedRows
<1>3. CASE Demote(r)
  <2>1. ReportsBy(a)' = Demoted(ReportsBy(a), ReportsBy(analyser[r]), OkCalls(r), RowIds(r))
    BY <1>3, ReportsAfterDemote
  <2>2. \A t \in ReportsBy(a) : t \notin ReportsBy(analyser[r])
    BY DEF ReportsBy
  <2>3. ReportsBy(a)' = ReportsBy(a)
    BY <2>1, <2>2 DEF Demoted
  <2>. QED
    BY <1>3, <2>3 DEF Demote, FailedRows
<1>4. CASE llm_calls' = llm_calls /\ call_reports' = call_reports
  BY <1>4 DEF ReportsBy, FailedRows
<1>. QED
  BY <1>1, <1>2, <1>3, <1>4
     DEF Start, Step, Fetch, Analyse, ReadVersions, InsertInputs, Crash, tables

\* Only the statements that write either table change the reports or the work left,
\* and each of them moves its run on.
LEMMA WritersMoveOn ==
    ASSUME WorkTypes, NEW r \in Runs, Start(r) \/ Step(r) \/ Crash(r)
    PROVE  \/ pc'[r] # pc[r]
           \/ /\ llm_calls' = llm_calls /\ call_reports' = call_reports
              /\ transcriptions' = transcriptions
<1>1. CASE Insert(r) \/ Journal(r) \/ Demote(r)
  BY <1>1 DEF Insert, Journal, Demote, ChunkDone, WorkTypes
<1>. QED
  BY <1>1 DEF Start, Step, Fetch, Analyse, ReadVersions, InsertInputs, Crash, tables

LEMMA StepOfOneAnalyser ==
    ASSUME WorkTypes, [Next]_vars, NEW a \in Analysers,
           ReportsBy(a)' # ReportsBy(a) \/ Candidates(a)' # Candidates(a)
    PROVE  \E r \in Runs : analyser[r] = a /\ pc'[r] # pc[r]
<1>1. ~ (/\ llm_calls' = llm_calls /\ call_reports' = call_reports
         /\ transcriptions' = transcriptions)
  BY DEF ReportsBy, Candidates, CurrentOf, RowsOf, FailedRows
<1>2. PICK r \in Runs : Start(r) \/ Step(r) \/ Crash(r)
  BY <1>1 DEF Next, vars
<1>3. pc'[r] # pc[r]
  BY <1>1, <1>2, WritersMoveOn
<1>4. analyser[r] = a
  <2>. SUFFICES ASSUME analyser[r] # a PROVE FALSE
    OBVIOUS
  <2>1. /\ ReportsBy(a)' = ReportsBy(a)
        /\ \A c : FailedRows(llm_calls, ArtifactTypeOf(a), c)'
                    = FailedRows(llm_calls, ArtifactTypeOf(a), c)
    BY <1>2, OthersUntouched
  <2>2. transcriptions' = transcriptions
    BY <1>2 DEF Start, Step, Fetch, Analyse, ReadVersions, Insert, InsertInputs, Journal,
                Demote, Crash, tables
  <2>3. Candidates(a)' = Candidates(a)
    BY <2>1, <2>2 DEF Candidates, CurrentOf, RowsOf
  <2>. QED
    BY <2>1, <2>3
<1>. QED
  BY <1>3, <1>4

\* The two deployments do not touch one another: the reports of an analyser, and
\* the work it has left, change only by a run of that analyser, for any number of
\* analysers and overlapping runs.
THEOREM AnalysersStayIndependent == Spec => AnalysersIndependent
<1>1. WorkTypes /\ [Next]_vars =>
          [\A a \in Analysers :
              (ReportsBy(a)' # ReportsBy(a) \/ Candidates(a)' # Candidates(a))
                  => \E r \in Runs : analyser[r] = a /\ pc'[r] # pc[r]]_vars
  BY StepOfOneAnalyser
<1>. QED
  BY <1>1, WorkTypesAlways, PTL DEF Spec, AnalysersIndependent

-----------------------------------------------------------------------------
\* No call has two current transcripts: so it is when calls were transcribed by
\* runs that do not overlap.
CurrentTranscripts == {t \in transcriptions : t.current}
OneCurrentTranscriptEach ==
    \A t, u \in CurrentTranscripts : t.call = u.call => t = u

\* The same of the transcripts the flow was given.
OneCurrentGiven ==
    \A t, u \in Transcripts : t.current /\ u.current /\ t.call = u.call => t = u

\* A run only works on transcripts that were current when it fetched, and still
\* are: nothing takes them away meanwhile.
SourcesRead ==
    \A r \in Runs : /\ todo[r] \subseteq CurrentTranscripts
                     /\ \A i \in Positions(r) : buffer[r][i].source \in CurrentTranscripts

\* A run about to record lineage has its reports in the table as it planned them.
PlannedReports ==
    \A r \in Runs : pc[r] = "inputs" =>
        \A i \in OkPositions(r) : \E t \in call_reports :
            /\ t.id = base[r] + i /\ t.call = CallAt(r, i)
            /\ t.version = versions[r][CallAt(r, i)]
            /\ t.analyser = analyser[r]
            /\ t.source = buffer[r][i].source.id

TruthInv == WorkTypes /\ SourcesRead /\ PlannedReports /\ LineageTruthful

LEMMA StepKeepsSources ==
    ASSUME WorkTypes, SourcesRead, [Next]_vars PROVE SourcesRead'
<1>. SUFFICES ASSUME NEW q \in Runs
              PROVE  /\ todo'[q] \subseteq CurrentTranscripts
                     /\ \A i \in Positions(q)' : buffer'[q][i].source \in CurrentTranscripts
  <2>1. transcriptions' = transcriptions
    BY DEF Next, Start, Step, Fetch, Analyse, ReadVersions, Insert, InsertInputs, Journal,
           Demote, Crash, tables, vars
  <2>. QED
    BY <2>1 DEF SourcesRead, CurrentTranscripts
<1>1. CASE todo'[q] \subseteq todo[q] /\ buffer'[q] \in {buffer[q], <<>>}
  BY <1>1 DEF SourcesRead, Positions
<1>2. CASE Start(q)
  <2>1. PICK a \in Analysers : Fetch(q, a)
    BY <1>2 DEF Start
  <2>2. PICK P \in Earliest(Candidates(a), Limit, LAMBDA t : t.id) :
            todo' = [todo EXCEPT ![q] = P]
    BY <2>1 DEF Fetch
  <2>3. P \subseteq CurrentTranscripts
    BY <2>2 DEF Earliest, Candidates, SourcesRead, CurrentTranscripts
  <2>4. todo'[q] = P /\ buffer'[q] = buffer[q]
    BY <2>1, <2>2 DEF Fetch, WorkTypes
  <2>. QED
    BY <2>3, <2>4 DEF SourcesRead, Positions
<1>3. CASE Analyse(q)
  <2>1. PICK t \in todo[q] :
            /\ todo' = [todo EXCEPT ![q] = @ \ {t}]
            /\ \E res \in Outcomes(t) :
                  buffer' = [buffer EXCEPT ![q] = Append(@, res)]
    BY <1>3 DEF Analyse
  <2>2. PICK res \in Outcomes(t) :
            buffer' = [buffer EXCEPT ![q] = Append(@, res)]
    BY <2>1
  <2>3. res.source = t /\ t \in CurrentTranscripts /\ res \in Result
    BY <2>1, OutcomesAreResults DEF Outcomes, SourcesRead, WorkTypes
  <2>4. buffer[q] \in Seq(Result) /\ buffer'[q] = Append(buffer[q], res)
    BY <2>2 DEF WorkTypes
  <2>5. ASSUME NEW i \in Positions(q)'
        PROVE  buffer'[q][i].source \in CurrentTranscripts
    <3>1. i \in 1 .. Len(buffer[q]) + 1 /\ Len(buffer[q]) \in Nat
      BY <2>3, <2>4 DEF Positions
    <3>2. CASE i = Len(buffer[q]) + 1
      BY <2>3, <2>4, <3>2
    <3>3. CASE i # Len(buffer[q]) + 1
      <4>1. i \in 1 .. Len(buffer[q])
        BY <3>1, <3>3
      <4>2. buffer'[q][i] = buffer[q][i] /\ i \in Positions(q)
        BY <2>3, <2>4, <4>1 DEF Positions
      <4>. QED
        BY <4>2 DEF SourcesRead
    <3>. QED
      BY <3>2, <3>3
  <2>6. todo'[q] \subseteq todo[q]
    BY <2>1 DEF WorkTypes
  <2>. QED
    BY <2>5, <2>6 DEF SourcesRead
<1>4. CASE ReadVersions(q) \/ Insert(q) \/ InsertInputs(q) \/ Journal(q) \/ Demote(q)
           \/ Crash(q)
  <2>1. todo'[q] \subseteq todo[q] /\ buffer'[q] \in {buffer[q], <<>>}
    BY <1>4 DEF ReadVersions, Insert, InsertInputs, Journal, Demote, Crash, ChunkDone, WorkTypes
  <2>. QED
    BY <1>1, <2>1
<1>5. CASE \E r \in Runs \ {q} : Start(r) \/ Step(r) \/ Crash(r)
  <2>1. PICK r \in Runs \ {q} : Start(r) \/ Step(r) \/ Crash(r)
    BY <1>5
  <2>2. todo'[q] = todo[q] /\ buffer'[q] = buffer[q]
    BY <2>1 DEF Start, Step, Fetch, Analyse, ReadVersions, Insert, InsertInputs,
                Journal, Demote, Crash, ChunkDone, WorkTypes
  <2>. QED
    BY <1>1, <2>2
<1>6. CASE UNCHANGED vars
  BY <1>1, <1>6 DEF vars
<1>. QED
  BY <1>2, <1>3, <1>4, <1>5, <1>6 DEF Next, Step

LEMMA StepKeepsPlannedReports ==
    ASSUME WorkTypes, PlannedReports, [Next]_vars PROVE PlannedReports'
<1>. SUFFICES ASSUME NEW q \in Runs, pc'[q] = "inputs", NEW i \in OkPositions(q)'
              PROVE  \E t \in call_reports' :
                         /\ t.id = base'[q] + i /\ t.call = CallAt(q, i)'
                         /\ t.version = versions'[q][CallAt(q, i)']
                         /\ t.analyser = analyser'[q]
                         /\ t.source = buffer'[q][i].source.id
  BY DEF PlannedReports
<1>1. CASE /\ pc[q] = "inputs" /\ buffer'[q] = buffer[q] /\ analyser'[q] = analyser[q]
           /\ base'[q] = base[q] /\ versions'[q] = versions[q]
  <2>1. i \in OkPositions(q) /\ CallAt(q, i)' = CallAt(q, i)
    BY <1>1 DEF OkPositions, Positions, CallAt
  <2>2. PICK t \in call_reports : /\ t.id = base[q] + i /\ t.call = CallAt(q, i)
                                  /\ t.version = versions[q][CallAt(q, i)]
                                  /\ t.analyser = analyser[q]
                                  /\ t.source = buffer[q][i].source.id
    BY <1>1, <2>1 DEF PlannedReports
  <2>. QED
    BY <1>1, <2>1, <2>2, StepKeepsIdentity
<1>2. CASE Insert(q)
  <2>1. /\ buffer' = buffer /\ base' = base /\ versions' = versions
        /\ analyser' = analyser
        /\ i \in OkPositions(q) /\ CallAt(q, i)' = CallAt(q, i)
    BY <1>2 DEF Insert, OkPositions, Positions, CallAt
  <2>. DEFINE t == [id |-> base[q] + i,
                    call |-> CallAt(q, i),
                    version |-> versions[q][CallAt(q, i)],
                    current |-> TRUE,
                    analyser |-> analyser[q],
                    source |-> buffer[q][i].source.id]
  <2>2. t \in call_reports'
    BY <1>2, <2>1 DEF Insert, NewRows
  <2>. QED
    BY <2>1, <2>2
<1>3. CASE Start(q) \/ Crash(q) \/ (Step(q) /\ ~ Insert(q))
  <2>1. pc'[q] # "inputs"
    BY <1>3 DEF Start, Step, Fetch, Analyse, ReadVersions, InsertInputs, Journal, Demote,
                Crash, ChunkDone, WorkTypes
  <2>. QED
    BY <2>1
<1>4. CASE \E r \in Runs \ {q} : Start(r) \/ Step(r) \/ Crash(r)
  <2>1. PICK r \in Runs \ {q} : Start(r) \/ Step(r) \/ Crash(r)
    BY <1>4
  <2>2. /\ pc'[q] = pc[q] /\ buffer'[q] = buffer[q] /\ analyser'[q] = analyser[q]
        /\ base'[q] = base[q] /\ versions'[q] = versions[q]
    BY <2>1 DEF Start, Step, Fetch, Analyse, ReadVersions, Insert, InsertInputs,
                Journal, Demote, Crash, ChunkDone, WorkTypes
  <2>. QED
    BY <1>1, <2>2
<1>5. CASE UNCHANGED vars
  BY <1>1, <1>5 DEF vars
<1>. QED
  BY <1>2, <1>3, <1>4, <1>5 DEF Next

\* The lookup by call finds the transcript the report was computed from.
LEMMA LookupFindsSource ==
    ASSUME OneCurrentTranscriptEach, WorkTypes, SourcesRead,
           NEW r \in Runs, NEW i \in OkPositions(r)
    PROVE  /\ SourceOf(r, CallAt(r, i)) = buffer[r][i].source
           /\ buffer[r][i].source \in transcriptions
<1>1. PICK k \in OkPositions(r) : /\ SourceOf(r, CallAt(r, i)) = buffer[r][k].source
                                  /\ CallAt(r, k) = CallAt(r, i)
  BY SourceIsOfTheCall
<1>2. /\ buffer[r][k].source \in CurrentTranscripts
      /\ buffer[r][i].source \in CurrentTranscripts
  BY <1>1 DEF SourcesRead, OkPositions
<1>. QED
  BY <1>1, <1>2 DEF OneCurrentTranscriptEach, CallAt, SourcesRead, CurrentTranscripts

LEMMA StepKeepsTruth ==
    ASSUME OneCurrentTranscriptEach, TruthInv, [Next]_vars PROVE LineageTruthful'
<1>0. WorkTypes /\ SourcesRead /\ PlannedReports /\ LineageTruthful
  BY DEF TruthInv
<1>1. transcriptions' = transcriptions
  BY DEF Next, Start, Step, Fetch, Analyse, ReadVersions, Insert, InsertInputs, Journal,
         Demote, Crash, tables, vars
<1>. SUFFICES ASSUME NEW l \in report_inputs'
              PROVE  \E rep \in call_reports' :
                         /\ rep.id = l.report
                         /\ rep.version = l.report_version
                         /\ rep.source = l.source
                         /\ \E t \in transcriptions : /\ t.id = l.source
                                                      /\ t.call = rep.call
                                                      /\ t.version = l.source_version
  BY <1>1 DEF LineageTruthful
<1>2. CASE l \in report_inputs
  <2>1. PICK rep \in call_reports :
            /\ rep.id = l.report
            /\ rep.version = l.report_version
            /\ rep.source = l.source
            /\ \E t \in transcriptions : /\ t.id = l.source
                                         /\ t.call = rep.call
                                         /\ t.version = l.source_version
    BY <1>0, <1>2 DEF LineageTruthful
  <2>2. PICK u \in call_reports' : /\ u.id = rep.id /\ u.call = rep.call
                                   /\ u.version = rep.version /\ u.source = rep.source
    BY <1>0, StepKeepsIdentity
  <2>. QED
    BY <2>1, <2>2
<1>3. CASE l \notin report_inputs
  <2>1. PICK r \in Runs : InsertInputs(r)
    BY <1>3 DEF Next, Start, Step, Fetch, Analyse, ReadVersions, Insert, Journal, Demote,
                Crash, tables, vars
  <2>2. pc[r] = "inputs" /\ l \in InputRows(r) /\ call_reports' = call_reports
    BY <1>3, <2>1 DEF InsertInputs
  <2>3. PICK i \in OkPositions(r) :
            l = [report |-> base[r] + i,
                 report_version |-> versions[r][CallAt(r, i)],
                 source |-> SourceOf(r, CallAt(r, i)).id,
                 source_version |-> SourceOf(r, CallAt(r, i)).version]
    BY <2>2 DEF InputRows
  <2>4. PICK rep \in call_reports : /\ rep.id = base[r] + i /\ rep.call = CallAt(r, i)
                                    /\ rep.version = versions[r][CallAt(r, i)]
                                    /\ rep.source = buffer[r][i].source.id
    BY <1>0, <2>2 DEF PlannedReports
  <2>5. /\ SourceOf(r, CallAt(r, i)) = buffer[r][i].source
        /\ buffer[r][i].source \in transcriptions
    BY <1>0, LookupFindsSource
  <2>6. /\ l.report = base[r] + i
        /\ l.report_version = versions[r][CallAt(r, i)]
        /\ l.source = buffer[r][i].source.id
        /\ l.source_version = buffer[r][i].source.version
    BY <2>3, <2>5
  <2>. QED
    BY <2>2, <2>4, <2>5, <2>6 DEF CallAt
<1>. QED
  BY <1>2, <1>3

\* The flow only reads the transcripts.
LEMMA OnlyReadsTranscripts == [Next]_vars => transcriptions' = transcriptions
BY DEF Next, Start, Step, Fetch, Analyse, ReadVersions, Insert, InsertInputs, Journal,
       Demote, Crash, tables, vars

\* Lineage tells the truth however runs overlap and die, as long as no call has
\* two current transcripts: the lookup of the source by call id rests on that.
THEOREM LineageIsTruthful ==
    ASSUME OneCurrentGiven PROVE Spec => []LineageTruthful
<1>. DEFINE IInv == transcriptions = Transcripts /\ TruthInv
<1>0. transcriptions = Transcripts => OneCurrentTranscriptEach
  BY DEF OneCurrentGiven, OneCurrentTranscriptEach, CurrentTranscripts
<1>1. IInv => LineageTruthful
  BY DEF TruthInv
<1>2. Init => IInv
  <2>1. Init => WorkTypes
    BY InitVersionInv DEF VersionInv
  <2>. QED
    BY <2>1 DEF Init, InitRuns, TruthInv, SourcesRead, Positions, PlannedReports,
                LineageTruthful
<1>3. IInv /\ WorkTypes' /\ [Next]_vars => IInv'
  BY <1>0, OnlyReadsTranscripts, StepKeepsSources, StepKeepsPlannedReports, StepKeepsTruth
     DEF TruthInv
<1>. HIDE DEF IInv
<1>. QED
  BY <1>1, <1>2, <1>3, WorkTypesAlways, PTL DEF Spec
-----------------------------------------------------------------------------
(***************************************************************************)
(* What a run holds.                                                       *)
(***************************************************************************)
\* A run that is not in flight holds nothing, one that is has an analyser of its
\* slot, and a chunk never outgrows ChunkSize.
ChunkFits(r) ==
    /\ pc[r] = "idle" => todo[r] = {} /\ buffer[r] = <<>>
    /\ pc[r] # "idle" => analyser[r] \in Serves[r]
    /\ Len(buffer[r]) <= ChunkSize
    /\ pc[r] = "analyse" => Len(buffer[r]) < ChunkSize

\* The calls of a run's results and of its remaining candidates all differ.
CallsDiffer(r) ==
    /\ \A i, j \in Positions(r) : CallAt(r, i) = CallAt(r, j) => i = j
    /\ \A t \in todo[r], i \in Positions(r) : t.call # CallAt(r, i)

\* What the other programs of the stand may do between two steps of the flow:
\* write transcripts and take identifiers; and, when transcription runs do not
\* overlap, only add transcripts (TranscriptionFlowProofs).
Elsewhere ==
    /\ transcriptions' \subseteq TranscriptRow
    /\ minted' \in Nat /\ minted <= minted'
    /\ UNCHANGED <<call_reports, report_inputs, pc, analyser, todo, buffer, base,
                   versions>>
Neighbour == Elsewhere /\ transcriptions \subseteq transcriptions'

WorkInv ==
    /\ WorkTypes /\ OneCurrentTranscriptEach /\ SourcesRead
    /\ \A r \in Runs : ChunkFits(r) /\ CallsDiffer(r)

\* A step of one run leaves what the others hold alone.
LEMMA OtherRunsUntouched ==
    ASSUME WorkTypes, NEW r \in Runs, NEW q \in Runs, q # r,
           Start(q) \/ Step(q) \/ Crash(q)
    PROVE  /\ pc'[r] = pc[r]
           /\ analyser'[r] = analyser[r]
           /\ todo'[r] = todo[r]
           /\ buffer'[r] = buffer[r]
           /\ base'[r] = base[r]
           /\ versions'[r] = versions[r]
<1>1. CASE Start(q)
  BY <1>1 DEF Start, Fetch, WorkTypes
<1>2. CASE Analyse(q)
  BY <1>2 DEF Analyse, WorkTypes
<1>3. CASE ReadVersions(q)
  BY <1>3 DEF ReadVersions, WorkTypes
<1>4. CASE Insert(q) \/ InsertInputs(q)
  BY <1>4 DEF Insert, InsertInputs, WorkTypes
<1>5. CASE Journal(q)
  BY <1>5 DEF Journal, ChunkDone, WorkTypes
<1>6. CASE Demote(q)
  BY <1>6 DEF Demote, ChunkDone, WorkTypes
<1>7. CASE Crash(q)
  BY <1>7 DEF Crash, WorkTypes
<1>. QED
  BY <1>1, <1>2, <1>3, <1>4, <1>5, <1>6, <1>7 DEF Step

\* What Analyse does to the run that takes it.
LEMMA AnalyseOf ==
    ASSUME WorkTypes, NEW r \in Runs, Analyse(r)
    PROVE  \E t \in todo[r], res \in Result :
              /\ res.source = t
              /\ res.ok \/ res.stamps = 0
              /\ todo'[r] = todo[r] \ {t}
              /\ Len(buffer'[r]) = Len(buffer[r]) + 1
              /\ buffer'[r][Len(buffer[r]) + 1] = res
              /\ \A i \in Positions(r) : buffer'[r][i] = buffer[r][i]
              /\ Positions(r) = 1 .. Len(buffer[r])
              /\ Positions(r)' = 1 .. (Len(buffer[r]) + 1)
              /\ pc'[r] = IF Len(buffer[r]) + 1 >= ChunkSize \/ todo'[r] = {}
                          THEN "versions" ELSE "analyse"
<1>1. PICK t \in todo[r] :
          /\ todo' = [todo EXCEPT ![r] = @ \ {t}]
          /\ \E res \in Outcomes(t) :
                buffer' = [buffer EXCEPT ![r] = Append(@, res)]
  BY DEF Analyse
<1>2. PICK res \in Outcomes(t) :
          buffer' = [buffer EXCEPT ![r] = Append(@, res)]
  BY <1>1
<1>3. t \in TranscriptRow
  BY DEF WorkTypes
<1>4. res \in Result
  BY <1>3, OutcomesAreResults
<1>5. res.source = t /\ (res.ok \/ res.stamps = 0)
  BY DEF Outcomes
<1>6. buffer[r] \in Seq(Result) /\ buffer'[r] = Append(buffer[r], res)
  BY <1>2 DEF WorkTypes
<1>7. /\ Len(buffer'[r]) = Len(buffer[r]) + 1
      /\ buffer'[r] \in Seq(Result)
      /\ buffer'[r][Len(buffer[r]) + 1] = res
      /\ \A i \in 1 .. Len(buffer[r]) : buffer'[r][i] = buffer[r][i]
  BY <1>4, <1>6, AppendProperties
<1>8. todo'[r] = todo[r] \ {t}
  BY <1>1 DEF WorkTypes
<1>9. pc'[r] = IF Len(buffer'[r]) >= ChunkSize \/ todo'[r] = {}
               THEN "versions" ELSE "analyse"
  BY DEF Analyse, WorkTypes
<1>. QED
  BY <1>4, <1>5, <1>6, <1>7, <1>8, <1>9 DEF Positions

LEMMA EmptyChunk ==
    ASSUME NEW r \in Runs, buffer[r] = <<>>
    PROVE  Positions(r) = {} /\ OkPositions(r) = {} /\ Len(buffer[r]) = 0
BY DEF OkPositions, Positions

LEMMA StutterIsNeighbour == ASSUME WorkTypes, UNCHANGED vars PROVE Neighbour
BY DEF WorkTypes, vars, Neighbour, Elsewhere

LEMMA ElsewhereVersionInv ==
    ASSUME VersionInv, Elsewhere PROVE VersionInv'
<1>1. WorkTypes'
  BY DEF Elsewhere, VersionInv, WorkTypes
<1>2. VersionsAreIntervals' /\ PlannedVersionsFollow'
  BY VersionsUntouched DEF Elsewhere, VersionInv, VersionsOf, RowsOf, ReportsBy
<1>3. AnalyserChosen'
  BY DEF Elsewhere, VersionInv, AnalyserChosen
<1>. QED
  BY <1>1, <1>2, <1>3 DEF VersionInv

\* What Fetch does to the run that starts.
LEMMA FetchOf ==
    ASSUME WorkTypes, NEW r \in Runs, NEW a \in Analysers, Fetch(r, a)
    PROVE  /\ pc[r] = "idle" /\ pc'[r] = "analyse"
           /\ a \in Serves[r] /\ analyser'[r] = a
           /\ todo'[r] \subseteq Candidates(a)
           /\ buffer' = buffer /\ base' = base
           /\ UNCHANGED <<tables, minted>>
<1>1. PICK P \in Earliest(Candidates(a), Limit, LAMBDA t : t.id) :
          todo' = [todo EXCEPT ![r] = P]
  BY DEF Fetch
<1>. QED
  BY <1>1 DEF Fetch, Earliest, WorkTypes

LEMMA StepChunkFits ==
    ASSUME WorkTypes, Next \/ Neighbour, NEW r \in Runs, ChunkFits(r)
    PROVE  ChunkFits(r)'
<1>0. ChunkSize \in Nat \ {0} /\ Len(buffer[r]) \in Nat
  BY ReportLimitsAssumption DEF WorkTypes
<1>1. CASE Start(r)
  <2>1. PICK a \in Analysers : Fetch(r, a)
    BY <1>1 DEF Start
  <2>2. /\ pc[r] = "idle" /\ pc'[r] = "analyse" /\ buffer'[r] = buffer[r]
        /\ analyser'[r] \in Serves[r]
    BY <2>1, FetchOf
  <2>3. buffer'[r] = <<>>
    BY <2>2 DEF ChunkFits
  <2>4. Len(buffer'[r]) = 0
    BY <2>3
  <2>. QED
    BY <1>0, <2>2, <2>4 DEF ChunkFits
<1>2. CASE Analyse(r)
  <2>1. /\ Len(buffer'[r]) = Len(buffer[r]) + 1
        /\ pc'[r] = IF Len(buffer[r]) + 1 >= ChunkSize \/ todo'[r] = {}
                    THEN "versions" ELSE "analyse"
    BY <1>2, AnalyseOf
  <2>2. Len(buffer[r]) < ChunkSize /\ pc[r] # "idle" /\ analyser' = analyser
    BY <1>2 DEF Analyse, ChunkFits
  <2>. QED
    BY <1>0, <2>1, <2>2 DEF ChunkFits
<1>3. CASE \/ ReadVersions(r) \/ Insert(r) \/ InsertInputs(r)
           \/ (Journal(r) /\ OkPositions(r) # {})
  <2>1. /\ pc'[r] \notin {"idle", "analyse"} /\ pc[r] # "idle"
        /\ buffer'[r] = buffer[r] /\ analyser'[r] = analyser[r]
    BY <1>3 DEF ReadVersions, Insert, InsertInputs, Journal, WorkTypes
  <2>. QED
    BY <2>1 DEF ChunkFits
<1>4. CASE (Journal(r) /\ OkPositions(r) = {}) \/ Demote(r)
  <2>1. /\ pc'[r] = IF todo[r] = {} THEN "idle" ELSE "analyse"
        /\ pc[r] # "idle" /\ analyser'[r] = analyser[r]
        /\ todo'[r] = todo[r] /\ buffer'[r] = <<>>
    BY <1>4 DEF Journal, Demote, ChunkDone, WorkTypes
  <2>2. Len(buffer'[r]) = 0
    BY <2>1
  <2>. QED
    BY <1>0, <2>1, <2>2 DEF ChunkFits
<1>5. CASE Crash(r)
  <2>1. pc'[r] = "idle" /\ todo'[r] = {} /\ buffer'[r] = <<>>
    BY <1>5 DEF Crash, WorkTypes
  <2>2. Len(buffer'[r]) = 0
    BY <2>1
  <2>. QED
    BY <1>0, <2>1, <2>2 DEF ChunkFits
<1>6. CASE \E q \in Runs \ {r} : Start(q) \/ Step(q) \/ Crash(q)
  <2>1. /\ pc'[r] = pc[r] /\ todo'[r] = todo[r] /\ buffer'[r] = buffer[r]
        /\ analyser'[r] = analyser[r]
    BY <1>6, OtherRunsUntouched
  <2>. QED
    BY <2>1 DEF ChunkFits
<1>7. CASE Neighbour
  BY <1>7 DEF ChunkFits, Neighbour, Elsewhere
<1>. QED
  BY <1>1, <1>2, <1>3, <1>4, <1>5, <1>6, <1>7 DEF Next, Step

\* Distinct current transcripts are of distinct calls.
LEMMA StepCallsDiffer ==
    ASSUME WorkInv, Next \/ Neighbour, NEW r \in Runs
    PROVE  CallsDiffer(r)'
<1>0. WorkTypes /\ ChunkFits(r) /\ CallsDiffer(r)
  BY DEF WorkInv
<1>1. CASE Start(r)
  <2>1. PICK a \in Analysers : Fetch(r, a)
    BY <1>1 DEF Start
  <2>2. buffer'[r] = <<>>
    BY <1>0, <2>1, FetchOf DEF ChunkFits
  <2>. QED
    BY <2>2 DEF CallsDiffer, Positions
<1>2. CASE Analyse(r)
  <2>1. PICK t \in todo[r], res \in Result :
              /\ res.source = t
              /\ res.ok \/ res.stamps = 0
              /\ todo'[r] = todo[r] \ {t}
              /\ Len(buffer'[r]) = Len(buffer[r]) + 1
              /\ buffer'[r][Len(buffer[r]) + 1] = res
              /\ \A i \in Positions(r) : buffer'[r][i] = buffer[r][i]
              /\ Positions(r) = 1 .. Len(buffer[r])
              /\ Positions(r)' = 1 .. (Len(buffer[r]) + 1)
              /\ pc'[r] = IF Len(buffer[r]) + 1 >= ChunkSize \/ todo'[r] = {}
                          THEN "versions" ELSE "analyse"
    BY <1>0, <1>2, AnalyseOf
  <2>. DEFINE n == Len(buffer[r])
  <2>2. n \in Nat
    BY <1>0 DEF WorkTypes
  <2>3. \A u \in todo[r] \ {t} : u.call # t.call
    BY DEF WorkInv, SourcesRead, OneCurrentTranscriptEach
  <2>4. \A i \in Positions(r)' : i \in Positions(r) \/ i = n + 1
    BY <2>1, <2>2
  <2>5. /\ \A i \in Positions(r) : CallAt(r, i)' = CallAt(r, i) /\ CallAt(r, i) # t.call
        /\ \A i : i = n + 1 => CallAt(r, i)' = t.call
    BY <1>0, <2>1 DEF CallsDiffer, CallAt
  <2>6. todo'[r] = todo[r] \ {t}
    BY <2>1
  <2>. HIDE DEF n
  <2>7. \A i, j \in Positions(r)' : CallAt(r, i)' = CallAt(r, j)' => i = j
    BY <1>0, <2>4, <2>5 DEF CallsDiffer
  <2>8. \A u \in todo'[r], i \in Positions(r)' : u.call # CallAt(r, i)'
    BY <1>0, <2>3, <2>4, <2>5, <2>6 DEF CallsDiffer
  <2>. QED
    BY <2>7, <2>8 DEF CallsDiffer
<1>3. CASE \/ ReadVersions(r) \/ Insert(r) \/ InsertInputs(r) \/ Journal(r)
           \/ Demote(r) \/ Crash(r)
  <2>1. /\ todo'[r] \subseteq todo[r]
        /\ buffer'[r] = buffer[r] \/ buffer'[r] = <<>>
    BY <1>0, <1>3 DEF ReadVersions, Insert, InsertInputs, Journal, Demote, Crash,
                      ChunkDone, WorkTypes
  <2>. QED
    BY <1>0, <2>1 DEF CallsDiffer, Positions, CallAt
<1>4. CASE \E q \in Runs \ {r} : Start(q) \/ Step(q) \/ Crash(q)
  <2>1. todo'[r] = todo[r] /\ buffer'[r] = buffer[r]
    BY <1>0, <1>4, OtherRunsUntouched
  <2>. QED
    BY <1>0, <2>1 DEF CallsDiffer, Positions, CallAt
<1>5. CASE Neighbour
  BY <1>0, <1>5 DEF CallsDiffer, Positions, CallAt, Neighbour, Elsewhere
<1>. QED
  BY <1>1, <1>2, <1>3, <1>4, <1>5 DEF Next, Step

LEMMA StepWorkInv ==
    ASSUME WorkInv, Next \/ Neighbour, WorkTypes', OneCurrentTranscriptEach'
    PROVE  WorkInv'
<1>1. SourcesRead'
  <2>1. CASE Next
    BY <2>1, StepKeepsSources DEF WorkInv
  <2>2. CASE Neighbour
    BY <2>2 DEF WorkInv, Neighbour, Elsewhere, SourcesRead, CurrentTranscripts, Positions
  <2>. QED
    BY <2>1, <2>2
<1>. QED
  BY <1>1, StepChunkFits, StepCallsDiffer DEF WorkInv

LEMMA InitWorkInv ==
    ASSUME WorkTypes, OneCurrentTranscriptEach, InitRuns PROVE WorkInv
<1>1. \A r \in Runs : /\ Positions(r) = {} /\ Len(buffer[r]) = 0
                      /\ todo[r] = {} /\ pc[r] = "idle" /\ buffer[r] = <<>>
  BY EmptyChunk DEF InitRuns
<1>. QED
  BY <1>1, ReportLimitsAssumption DEF WorkInv, SourcesRead, ChunkFits, CallsDiffer

-----------------------------------------------------------------------------
(***************************************************************************)
(* What lineage still says when a call has several current transcripts.    *)
(***************************************************************************)
ChunkInv ==
    /\ WorkTypes /\ SourcesRead /\ PlannedReports /\ LineageWithinChunk
    /\ \A r \in Runs : ChunkFits(r)

\* The report a lineage row is about, and the one whose transcript it names, are
\* both planned by the run that writes the row.
LEMMA PlannedLineage ==
    ASSUME WorkTypes, SourcesRead, PlannedReports, NEW r \in Runs, ChunkFits(r),
           pc[r] = "inputs", NEW l \in InputRows(r)
    PROVE  \E rep, used \in call_reports :
               /\ rep.id = l.report
               /\ rep.version = l.report_version
               /\ used.call = rep.call
               /\ used.analyser = rep.analyser
               /\ used.version = rep.version
               /\ used.id \in rep.id .. rep.id + ChunkSize - 1
               /\ used.source = l.source
               /\ \E t \in transcriptions : /\ t.id = l.source
                                            /\ t.call = rep.call
                                            /\ t.version = l.source_version
<1>1. PICK i \in OkPositions(r) :
          l = [report |-> base[r] + i,
               report_version |-> versions[r][CallAt(r, i)],
               source |-> SourceOf(r, CallAt(r, i)).id,
               source_version |-> SourceOf(r, CallAt(r, i)).version]
  BY DEF InputRows
<1>2. PICK k \in OkPositions(r) : /\ SourceOf(r, CallAt(r, i)) = buffer[r][k].source
                                  /\ CallAt(r, k) = CallAt(r, i)
                                  /\ i <= k
  BY SourceIsOfTheCall
<1>3. PICK rep \in call_reports : /\ rep.id = base[r] + i /\ rep.call = CallAt(r, i)
                                  /\ rep.version = versions[r][CallAt(r, i)]
                                  /\ rep.analyser = analyser[r]
  BY DEF PlannedReports
<1>4. PICK used \in call_reports : /\ used.id = base[r] + k /\ used.call = CallAt(r, k)
                                   /\ used.version = versions[r][CallAt(r, k)]
                                   /\ used.analyser = analyser[r]
                                   /\ used.source = buffer[r][k].source.id
  BY DEF PlannedReports
<1>5. used.id \in rep.id .. rep.id + ChunkSize - 1
  <2>1. /\ base[r] \in Nat /\ ChunkSize \in Nat /\ Len(buffer[r]) \in Nat
        /\ i \in 1 .. Len(buffer[r]) /\ k \in 1 .. Len(buffer[r])
    BY ReportLimitsAssumption DEF WorkTypes, OkPositions, Positions
  <2>2. Len(buffer[r]) <= ChunkSize
    BY DEF ChunkFits
  <2>. QED
    BY <1>2, <1>3, <1>4, <2>1, <2>2
<1>6. buffer[r][k].source \in transcriptions
  BY DEF SourcesRead, OkPositions, CurrentTranscripts
<1>7. /\ l.report = base[r] + i
      /\ l.report_version = versions[r][CallAt(r, i)]
      /\ l.source = buffer[r][k].source.id
      /\ l.source_version = buffer[r][k].source.version
  BY <1>1, <1>2
<1>. QED
  BY <1>2, <1>3, <1>4, <1>5, <1>6, <1>7 DEF CallAt

LEMMA StepKeepsLineageWithinChunk ==
    ASSUME ChunkInv, [Next]_vars PROVE LineageWithinChunk'
<1>0. WorkTypes /\ SourcesRead /\ PlannedReports /\ LineageWithinChunk
  BY DEF ChunkInv
<1>1. transcriptions' = transcriptions /\ ChunkSize \in Nat
  BY OnlyReadsTranscripts, ReportLimitsAssumption
<1>2. ASSUME NEW l \in report_inputs'
      PROVE  \E rep, used \in call_reports :
                 /\ rep.id = l.report
                 /\ rep.version = l.report_version
                 /\ used.call = rep.call
                 /\ used.analyser = rep.analyser
                 /\ used.version = rep.version
                 /\ used.id \in rep.id .. rep.id + ChunkSize - 1
                 /\ used.source = l.source
                 /\ \E t \in transcriptions : /\ t.id = l.source
                                              /\ t.call = rep.call
                                              /\ t.version = l.source_version
  <2>1. CASE l \in report_inputs
    BY <1>0, <2>1 DEF LineageWithinChunk
  <2>2. CASE l \notin report_inputs
    <3>1. PICK r \in Runs : InsertInputs(r)
      BY <1>2, <2>2 DEF Next, Start, Step, Fetch, Analyse, ReadVersions, Insert, Journal,
                        Demote, Crash, tables, vars
    <3>2. pc[r] = "inputs" /\ l \in InputRows(r)
      BY <1>2, <2>2, <3>1 DEF InsertInputs
    <3>. QED
      BY <1>0, <3>2, PlannedLineage DEF ChunkInv
  <2>. QED
    BY <2>1, <2>2
<1>. SUFFICES ASSUME NEW l \in report_inputs'
              PROVE  \E rep, used \in call_reports' :
                         /\ rep.id = l.report
                         /\ rep.version = l.report_version
                         /\ used.call = rep.call
                         /\ used.analyser = rep.analyser
                         /\ used.version = rep.version
                         /\ used.id \in rep.id .. rep.id + ChunkSize - 1
                         /\ used.source = l.source
                         /\ \E t \in transcriptions : /\ t.id = l.source
                                                      /\ t.call = rep.call
                                                      /\ t.version = l.source_version
  BY <1>1 DEF LineageWithinChunk
<1>3. PICK rep \in call_reports : \E used \in call_reports :
          /\ rep.id = l.report
          /\ rep.version = l.report_version
          /\ used.call = rep.call
          /\ used.analyser = rep.analyser
          /\ used.version = rep.version
          /\ used.id \in rep.id .. rep.id + ChunkSize - 1
          /\ used.source = l.source
          /\ \E t \in transcriptions : /\ t.id = l.source
                                       /\ t.call = rep.call
                                       /\ t.version = l.source_version
  BY <1>2
<1>4. PICK used \in call_reports :
          /\ used.call = rep.call
          /\ used.analyser = rep.analyser
          /\ used.version = rep.version
          /\ used.id \in rep.id .. rep.id + ChunkSize - 1
          /\ used.source = l.source
  BY <1>3
<1>5. PICK rep1 \in call_reports' : /\ rep1.id = rep.id /\ rep1.call = rep.call
                                    /\ rep1.analyser = rep.analyser
                                    /\ rep1.version = rep.version
  BY <1>0, StepKeepsIdentity
<1>6. PICK used1 \in call_reports' : /\ used1.id = used.id /\ used1.call = used.call
                                     /\ used1.analyser = used.analyser
                                     /\ used1.version = used.version
                                     /\ used1.source = used.source
  BY <1>0, StepKeepsIdentity
<1>. QED
  BY <1>3, <1>4, <1>5, <1>6

\* However runs overlap and die, and however many current transcripts a call has:
\* lineage never names a transcript outside the chunk its report was written in,
\* nor one no report of that call, analyser and version was computed from.
THEOREM LineageStaysInChunk == Spec => []LineageWithinChunk
<1>1. Init => ChunkInv
  <2>. SUFFICES ASSUME Init PROVE ChunkInv
    OBVIOUS
  <2>1. WorkTypes
    BY InitVersionInv DEF VersionInv
  <2>2. \A r \in Runs : /\ Positions(r) = {} /\ Len(buffer[r]) = 0
                        /\ todo[r] = {} /\ pc[r] = "idle" /\ buffer[r] = <<>>
    BY EmptyChunk DEF Init, InitRuns
  <2>3. report_inputs = {}
    BY DEF Init
  <2>. QED
    BY <2>1, <2>2, <2>3, ReportLimitsAssumption
       DEF ChunkInv, SourcesRead, PlannedReports, LineageWithinChunk, ChunkFits
<1>2. ChunkInv /\ WorkTypes' /\ [Next]_vars => ChunkInv'
  <2>. SUFFICES ASSUME ChunkInv, WorkTypes', [Next]_vars PROVE ChunkInv'
    OBVIOUS
  <2>1. WorkTypes /\ SourcesRead /\ PlannedReports /\ \A r \in Runs : ChunkFits(r)
    BY DEF ChunkInv
  <2>2. Next \/ Neighbour
    BY <2>1, StutterIsNeighbour
  <2>3. \A r \in Runs : ChunkFits(r)'
    BY <2>1, <2>2, StepChunkFits
  <2>. QED
    BY <2>1, <2>3, StepKeepsSources, StepKeepsPlannedReports, StepKeepsLineageWithinChunk
       DEF ChunkInv
<1>3. ChunkInv => LineageWithinChunk
  BY DEF ChunkInv
<1>. QED
  BY <1>1, <1>2, <1>3, WorkTypesAlways, PTL DEF Spec

-----------------------------------------------------------------------------
(***************************************************************************)
(* Runs of one analyser that do not overlap one another: no two slots      *)
(* serve one analyser, which is how one deployment with a concurrency      *)
(* limit of one would be run.                                              *)
(***************************************************************************)
OneSlotEach == \A r, q \in Runs : Serves[r] \cap Serves[q] # {} => r = q

\* The calls a run still has before its insert have no report of its analyser.
FreshWork(r) ==
    pc[r] # "idle" =>
        /\ \A u \in todo[r], t \in ReportsBy(analyser[r]) : t.call # u.call
        /\ pc[r] \in {"analyse", "versions", "insert"} =>
              \A i \in Positions(r), t \in ReportsBy(analyser[r]) :
                  t.call # CallAt(r, i)

\* A call has one report of an analyser at most, and it is current.
SingleReports ==
    /\ \A t \in call_reports : t.current
    /\ \A t, u \in call_reports : t.call = u.call /\ t.analyser = u.analyser => t = u

SingleInv ==
    /\ WorkInv
    /\ CommittedReports
    /\ SingleReports
    /\ \A r \in Runs : FreshWork(r)

\* What is demoted are other rows of the chunk's calls, and there are none.
LEMMA DemoteChangesNothing ==
    ASSUME SingleInv, NEW r \in Runs, Demote(r)
    PROVE  call_reports' = call_reports
<1>1. /\ pc[r] = "demote"
      /\ call_reports' = Demoted(call_reports, ReportsBy(analyser[r]), OkCalls(r),
                                 RowIds(r))
  BY DEF Demote
<1>2. ASSUME NEW t \in ReportsBy(analyser[r]), t.call \in OkCalls(r)
      PROVE  t.id \in RowIds(r)
  <2>1. PICK i \in OkPositions(r) : t.call = CallAt(r, i)
    BY <1>2 DEF OkCalls
  <2>2. PICK u \in call_reports : /\ u.id = base[r] + i /\ u.call = t.call
                                  /\ u.analyser = analyser[r]
    BY <1>1, <2>1 DEF SingleInv, CommittedReports
  <2>3. t = u
    BY <2>2 DEF SingleInv, SingleReports, ReportsBy
  <2>. QED
    BY <2>2, <2>3 DEF RowIds
<1>3. \A t \in call_reports :
          (IF t \in ReportsBy(analyser[r]) /\ t.call \in OkCalls(r)
              /\ t.current /\ t.id \notin RowIds(r)
           THEN [t EXCEPT !.current = FALSE] ELSE t) = t
  BY <1>2
<1>. QED
  BY <1>1, <1>3 DEF Demoted

\* The new rows of a chunk are for calls that had none of the analyser, one each.
LEMMA NewRowsAreFirst ==
    ASSUME SingleInv, NEW r \in Runs, pc[r] = "insert"
    PROVE  /\ \A t \in NewRows(r) : t.current /\ t.analyser = analyser[r]
           /\ \A t, u \in NewRows(r) : t.call = u.call => t = u
           /\ \A t \in NewRows(r), u \in ReportsBy(analyser[r]) : t.call # u.call
           /\ \A t \in NewRows(r), u \in todo[r] : t.call # u.call
<1>1. ASSUME NEW t \in NewRows(r)
      PROVE  \E i \in Positions(r) :
                 t = [id |-> base[r] + i,
                      call |-> CallAt(r, i),
                      version |-> versions[r][CallAt(r, i)],
                      current |-> TRUE,
                      analyser |-> analyser[r],
                      source |-> buffer[r][i].source.id]
  BY <1>1 DEF NewRows, OkPositions
<1>2. CallsDiffer(r) /\ FreshWork(r)
  BY DEF SingleInv, WorkInv
<1>3. \A t \in NewRows(r) : \E i \in Positions(r) :
          t.current /\ t.call = CallAt(r, i) /\ t.analyser = analyser[r]
  BY <1>1
<1>4. \A t, u \in NewRows(r) : t.call = u.call => t = u
  <2>. SUFFICES ASSUME NEW t \in NewRows(r), NEW u \in NewRows(r), t.call = u.call
                PROVE  t = u
    OBVIOUS
  <2>1. PICK i \in Positions(r) :
                 t = [id |-> base[r] + i,
                      call |-> CallAt(r, i),
                      version |-> versions[r][CallAt(r, i)],
                      current |-> TRUE,
                      analyser |-> analyser[r],
                      source |-> buffer[r][i].source.id]
    BY <1>1
  <2>2. PICK j \in Positions(r) :
                 u = [id |-> base[r] + j,
                      call |-> CallAt(r, j),
                      version |-> versions[r][CallAt(r, j)],
                      current |-> TRUE,
                      analyser |-> analyser[r],
                      source |-> buffer[r][j].source.id]
    BY <1>1
  <2>3. t.call = CallAt(r, i) /\ u.call = CallAt(r, j)
    BY <2>1, <2>2
  <2>4. i = j
    BY <1>2, <2>3 DEF CallsDiffer
  <2>. QED
    BY <2>1, <2>2, <2>4
<1>5. \A t \in NewRows(r), u \in ReportsBy(analyser[r]) : t.call # u.call
  BY <1>2, <1>3 DEF FreshWork
<1>6. \A t \in NewRows(r), u \in todo[r] : t.call # u.call
  BY <1>2, <1>3 DEF CallsDiffer
<1>. QED
  BY <1>3, <1>4, <1>5, <1>6

\* Reports are added and nothing else happens to them.
LEMMA ReportsOnlyGrow ==
    ASSUME SingleInv, Next \/ Neighbour PROVE call_reports \subseteq call_reports'
BY DemoteChangesNothing
   DEF Next, Start, Step, Fetch, Analyse, ReadVersions, Insert, InsertInputs, Journal,
       Crash, tables, Neighbour, Elsewhere

LEMMA StepSingleReports ==
    ASSUME SingleInv, Next \/ Neighbour PROVE SingleReports'
<1>1. CASE call_reports' = call_reports
  BY <1>1 DEF SingleInv, SingleReports
<1>2. CASE \E r \in Runs : Insert(r)
  <2>1. PICK r \in Runs : /\ pc[r] = "insert"
                          /\ call_reports' = call_reports \cup NewRows(r)
    BY <1>2 DEF Insert
  <2>2. /\ \A t \in NewRows(r) : t.current /\ t.analyser = analyser[r]
        /\ \A t, u \in NewRows(r) : t.call = u.call => t = u
        /\ \A t \in NewRows(r), u \in ReportsBy(analyser[r]) : t.call # u.call
    BY <2>1, NewRowsAreFirst
  <2>. QED
    BY <2>1, <2>2 DEF SingleInv, SingleReports, ReportsBy
<1>. QED
  BY <1>1, <1>2, DemoteChangesNothing
     DEF Next, Start, Step, Fetch, Analyse, ReadVersions, InsertInputs, Journal, Crash,
         tables, Neighbour, Elsewhere

LEMMA StepFreshWork ==
    ASSUME OneSlotEach, SingleInv, Next \/ Neighbour, NEW r \in Runs
    PROVE  FreshWork(r)'
<1>0. WorkTypes /\ ChunkFits(r) /\ CallsDiffer(r) /\ FreshWork(r)
  BY DEF SingleInv, WorkInv
<1>1. CASE Start(r)
  <2>1. PICK a \in Analysers : Fetch(r, a)
    BY <1>1 DEF Start
  <2>2. /\ pc[r] = "idle" /\ analyser'[r] = a /\ todo'[r] \subseteq Candidates(a)
        /\ buffer' = buffer /\ call_reports' = call_reports
    BY <1>0, <2>1, FetchOf DEF tables
  <2>3. Positions(r)' = {}
    BY <1>0, <2>2 DEF ChunkFits, Positions
  <2>4. \A u \in Candidates(a), t \in ReportsBy(a) : t.call # u.call
    BY DEF Candidates, CurrentOf, RowsOf, SingleInv, SingleReports, ReportsBy
  <2>5. ReportsBy(analyser[r])' = ReportsBy(a)
    BY <2>2 DEF ReportsBy
  <2>. QED
    BY <2>2, <2>3, <2>4, <2>5 DEF FreshWork
<1>2. CASE Analyse(r)
  <2>1. PICK u \in todo[r], res \in Result :
              /\ res.source = u
              /\ res.ok \/ res.stamps = 0
              /\ todo'[r] = todo[r] \ {u}
              /\ Len(buffer'[r]) = Len(buffer[r]) + 1
              /\ buffer'[r][Len(buffer[r]) + 1] = res
              /\ \A i \in Positions(r) : buffer'[r][i] = buffer[r][i]
              /\ Positions(r) = 1 .. Len(buffer[r])
              /\ Positions(r)' = 1 .. (Len(buffer[r]) + 1)
              /\ pc'[r] = IF Len(buffer[r]) + 1 >= ChunkSize \/ todo'[r] = {}
                          THEN "versions" ELSE "analyse"
    BY <1>0, <1>2, AnalyseOf
  <2>2. /\ pc[r] = "analyse" /\ call_reports' = call_reports /\ analyser' = analyser
    BY <1>2 DEF Analyse, tables
  <2>3. Len(buffer[r]) \in Nat
    BY <1>0 DEF WorkTypes
  <2>4. \A i \in Positions(r)' : i \in Positions(r) \/ i = Len(buffer[r]) + 1
    BY <2>1, <2>3
  <2>5. ReportsBy(analyser[r])' = ReportsBy(analyser[r])
    BY <2>2 DEF ReportsBy
  <2>6. \A t \in ReportsBy(analyser[r]) :
            /\ t.call # u.call
            /\ \A i \in Positions(r) : t.call # CallAt(r, i)
            /\ \A v \in todo[r] : t.call # v.call
    BY <1>0, <2>2 DEF FreshWork
  <2>7. /\ \A i \in Positions(r) : CallAt(r, i)' = CallAt(r, i)
        /\ \A i : i = Len(buffer[r]) + 1 => CallAt(r, i)' = u.call
    BY <2>1 DEF CallAt
  <2>8. \A i \in Positions(r)', t \in ReportsBy(analyser[r]) : t.call # CallAt(r, i)'
    BY <2>4, <2>6, <2>7
  <2>. QED
    BY <2>1, <2>5, <2>6, <2>8 DEF FreshWork
<1>3. CASE ReadVersions(r) \/ Neighbour
  <2>1. /\ pc'[r] \in {"analyse", "versions", "insert"} =>
                pc[r] \in {"analyse", "versions", "insert"}
        /\ pc[r] = "idle" => pc'[r] = "idle"
        /\ todo' = todo /\ buffer' = buffer /\ call_reports' = call_reports
        /\ analyser' = analyser
    BY <1>0, <1>3 DEF ReadVersions, Neighbour, Elsewhere, tables, WorkTypes
  <2>. QED
    BY <1>0, <2>1 DEF FreshWork, Positions, CallAt, ReportsBy
<1>4. CASE Insert(r)
  <2>1. /\ pc[r] = "insert" /\ pc'[r] = "inputs" /\ todo' = todo
        /\ analyser' = analyser /\ call_reports' = call_reports \cup NewRows(r)
    BY <1>0, <1>4 DEF Insert, WorkTypes
  <2>2. \A t \in ReportsBy(analyser[r])' : t \in ReportsBy(analyser[r]) \/ t \in NewRows(r)
    BY <2>1 DEF ReportsBy
  <2>. QED
    BY <1>0, <2>1, <2>2, NewRowsAreFirst DEF FreshWork
<1>5. CASE InsertInputs(r) \/ Journal(r) \/ Demote(r) \/ Crash(r)
  <2>1. call_reports' = call_reports /\ analyser' = analyser
    BY <1>5, DemoteChangesNothing DEF InsertInputs, Journal, Demote, Crash, tables
  <2>2. /\ todo'[r] \subseteq todo[r] /\ pc[r] # "idle"
        /\ pc'[r] \in {"journal", "demote"} \/ buffer'[r] = <<>>
    BY <1>0, <1>5 DEF InsertInputs, Journal, Demote, Crash, ChunkDone, WorkTypes
  <2>3. ReportsBy(analyser[r])' = ReportsBy(analyser[r])
    BY <2>1 DEF ReportsBy
  <2>. QED
    BY <1>0, <2>2, <2>3 DEF FreshWork, Positions
<1>6. CASE \E q \in Runs \ {r} : Start(q) \/ Step(q) \/ Crash(q)
  <2>1. PICK q \in Runs \ {r} : Start(q) \/ Step(q) \/ Crash(q)
    BY <1>6
  <2>2. /\ pc'[r] = pc[r] /\ todo'[r] = todo[r] /\ buffer'[r] = buffer[r]
        /\ analyser'[r] = analyser[r]
    BY <1>0, <2>1, OtherRunsUntouched
  <2>3. pc[r] # "idle" => ReportsBy(analyser[r])' = ReportsBy(analyser[r])
    <3>. SUFFICES ASSUME pc[r] # "idle"
                  PROVE  ReportsBy(analyser[r])' = ReportsBy(analyser[r])
      OBVIOUS
    <3>1. CASE call_reports' = call_reports
      BY <2>2, <3>1 DEF ReportsBy
    <3>2. CASE Insert(q)
      <4>1. pc[q] = "insert" /\ call_reports' = call_reports \cup NewRows(q)
        BY <3>2 DEF Insert
      <4>2. analyser[q] \in Serves[q] /\ analyser[r] \in Serves[r]
        BY <1>0, <4>1 DEF SingleInv, WorkInv, ChunkFits
      <4>3. analyser[q] # analyser[r]
        BY <2>1, <4>2 DEF OneSlotEach
      <4>4. \A t \in NewRows(q) : t.analyser = analyser[q]
        BY DEF NewRows
      <4>. QED
        BY <2>2, <4>1, <4>3, <4>4 DEF ReportsBy
    <3>. QED
      BY <2>1, <3>1, <3>2, DemoteChangesNothing
         DEF Start, Step, Fetch, Analyse, ReadVersions, InsertInputs, Journal, Crash,
             tables
  <2>. QED
    BY <1>0, <2>2, <2>3 DEF FreshWork, Positions, CallAt
<1>. QED
  BY <1>1, <1>2, <1>3, <1>4, <1>5, <1>6 DEF Next, Step

LEMMA StepCommitted ==
    ASSUME WorkTypes, CommittedReports, Next \/ Neighbour PROVE CommittedReports'
<1>1. CASE Next
  BY <1>1, StepKeepsCommittedReports DEF CommitInv
<1>2. CASE Neighbour
  BY <1>2 DEF Neighbour, Elsewhere, CommittedReports, OkPositions, Positions, CallAt
<1>. QED
  BY <1>1, <1>2

\* SingleInv is inductive, whatever the rest of the stand does, as long as no call
\* gets a second current transcript.
LEMMA NextSingleInv ==
    ASSUME OneSlotEach, SingleInv, Next \/ Neighbour, WorkTypes',
           OneCurrentTranscriptEach'
    PROVE  SingleInv'
<1>1. WorkInv'
  BY StepWorkInv DEF SingleInv
<1>2. CommittedReports'
  BY StepCommitted DEF SingleInv, WorkInv
<1>. QED
  BY <1>1, <1>2, StepSingleReports, StepFreshWork DEF SingleInv

LEMMA InitSingleInv ==
    ASSUME WorkTypes, OneCurrentTranscriptEach, InitRuns, call_reports = {}
    PROVE  SingleInv
<1>1. WorkInv
  BY InitWorkInv
<1>2. \A r \in Runs : pc[r] = "idle"
  BY DEF InitRuns
<1>. QED
  BY <1>1, <1>2 DEF SingleInv, CommittedReports, SingleReports, FreshWork

LEMMA SingleReportsCount ==
    ASSUME SingleReports PROVE OneCurrentReportEach
<1>. SUFFICES ASSUME NEW c \in Calls, NEW a \in Analysers,
                     RowsOf(ReportsBy(a), c) # {}
              PROVE  /\ Cardinality(RowsOf(ReportsBy(a), c)) = 1
                     /\ \A t \in RowsOf(ReportsBy(a), c) : t.current
  BY DEF OneCurrentReportEach
<1>1. PICK t : RowsOf(ReportsBy(a), c) = {t}
  BY DEF RowsOf, ReportsBy, SingleReports
<1>2. Cardinality({t}) = 1
  BY FS_Singleton
<1>3. \A u \in RowsOf(ReportsBy(a), c) : u.current
  BY DEF RowsOf, ReportsBy, SingleReports
<1>. QED
  BY <1>1, <1>2, <1>3

\* Runs of one analyser that do not overlap leave each call they reported on with
\* one report of that analyser, a current one, whatever the others' runs do and
\* wherever a run dies.
THEOREM OneReportEach ==
    ASSUME OneSlotEach, OneCurrentGiven PROVE Spec => []OneCurrentReportEach
<1>. DEFINE IInv == transcriptions = Transcripts /\ SingleInv
<1>0. transcriptions = Transcripts => OneCurrentTranscriptEach
  BY DEF OneCurrentGiven, OneCurrentTranscriptEach, CurrentTranscripts
<1>1. Init => IInv
  <2>1. Init => WorkTypes /\ InitRuns /\ transcriptions = Transcripts /\ call_reports = {}
    BY InitVersionInv DEF VersionInv, Init
  <2>. QED
    BY <1>0, <2>1, InitSingleInv
<1>2. IInv /\ WorkTypes' /\ [Next]_vars => IInv'
  <2>. SUFFICES ASSUME IInv, WorkTypes', [Next]_vars PROVE IInv'
    OBVIOUS
  <2>1. transcriptions' = Transcripts
    BY OnlyReadsTranscripts
  <2>2. OneCurrentTranscriptEach'
    BY <1>0, <2>1 DEF SingleInv, WorkInv, OneCurrentTranscriptEach, CurrentTranscripts
  <2>3. Next \/ Neighbour
    BY StutterIsNeighbour DEF SingleInv, WorkInv
  <2>. QED
    BY <2>1, <2>2, <2>3, NextSingleInv
<1>3. IInv => OneCurrentReportEach
  BY SingleReportsCount DEF SingleInv
<1>. HIDE DEF IInv
<1>. QED
  BY <1>1, <1>2, <1>3, WorkTypesAlways, PTL DEF Spec
-----------------------------------------------------------------------------
\* A failure is one journal row: its result carries no stamps.
FailuresUnstamped(r) ==
    \A i \in Positions(r) : buffer[r][i].ok \/ buffer[r][i].stamps = 0

\* The slots an analyser may be started in, its failed journal rows of a call, and
\* the runs that may still add one: they have the call before them, or hold its
\* failure and have not journalled it.
Slots(a) == {r \in Runs : a \in Serves[r]}
Failed(a, c) == FailedRows(llm_calls, ArtifactTypeOf(a), c)
MayFail(r, a, c) ==
    /\ analyser[r] = a
    /\ \/ \E t \in todo[r] : t.call = c
       \/ /\ pc[r] # "demote"
          /\ \E i \in Positions(r) : ~ buffer[r][i].ok /\ CallAt(r, i) = c
Pending(a, c) == {r \in Slots(a) : MayFail(r, a, c)}

\* A run may be given a call whose budget has one failure left; then every slot of
\* the analyser may hold that failure.
BudgetKept(a, c) ==
    /\ IsFiniteSet(Failed(a, c))
    /\ Cardinality(Failed(a, c)) + Cardinality(Pending(a, c))
          <= MaxFailed - 1 + Cardinality(Slots(a))

BudgetInv ==
    /\ WorkInv
    /\ \A r \in Runs : FailuresUnstamped(r)
    /\ \A c \in Calls, a \in Analysers : BudgetKept(a, c)

LEMMA StepFailuresUnstamped ==
    ASSUME WorkTypes, [Next]_vars, NEW r \in Runs, FailuresUnstamped(r)
    PROVE  FailuresUnstamped(r)'
<1>1. CASE Analyse(r)
  <2>1. PICK res \in Result :
              /\ res.ok \/ res.stamps = 0
              /\ buffer'[r][Len(buffer[r]) + 1] = res
              /\ \A i \in Positions(r) : buffer'[r][i] = buffer[r][i]
              /\ Positions(r) = 1 .. Len(buffer[r])
              /\ Positions(r)' = 1 .. (Len(buffer[r]) + 1)
    BY <1>1, AnalyseOf
  <2>2. Len(buffer[r]) \in Nat
    BY DEF WorkTypes
  <2>3. \A i \in Positions(r)' : i \in Positions(r) \/ i = Len(buffer[r]) + 1
    BY <2>1, <2>2
  <2>. QED
    BY <2>1, <2>3 DEF FailuresUnstamped
<1>2. CASE \/ Start(r) \/ ReadVersions(r) \/ Insert(r) \/ InsertInputs(r) \/ Journal(r)
           \/ Demote(r) \/ Crash(r)
  <2>1. buffer'[r] = buffer[r] \/ buffer'[r] = <<>>
    BY <1>2 DEF Start, Fetch, ReadVersions, Insert, InsertInputs, Journal, Demote, Crash,
                ChunkDone, WorkTypes
  <2>. QED
    BY <2>1 DEF FailuresUnstamped, Positions
<1>3. CASE \E q \in Runs \ {r} : Start(q) \/ Step(q) \/ Crash(q)
  <2>1. buffer'[r] = buffer[r]
    BY <1>3, OtherRunsUntouched
  <2>. QED
    BY <2>1 DEF FailuresUnstamped, Positions
<1>4. CASE UNCHANGED vars
  BY <1>4 DEF vars, FailuresUnstamped, Positions
<1>. QED
  BY <1>1, <1>2, <1>3, <1>4 DEF Next, Step

\* No step but a fetch makes a run one that may add a failure.
LEMMA PendingOnlyShrinks ==
    ASSUME WorkInv, NEW r \in Runs, NEW c \in Calls, NEW a \in Analysers,
           \/ Step(r) \/ Crash(r)
           \/ Start(r) /\ (analyser'[r] # a \/ \A t \in todo'[r] : t.call # c)
    PROVE  Pending(a, c)' \subseteq Pending(a, c)
<1>0. WorkTypes /\ ChunkFits(r)
  BY DEF WorkInv
<1>1. ASSUME NEW q \in Runs, q # r PROVE MayFail(q, a, c)' <=> MayFail(q, a, c)
  BY <1>0, <1>1, OtherRunsUntouched DEF MayFail, Positions, CallAt
<1>2. ASSUME MayFail(r, a, c)' PROVE MayFail(r, a, c)
  <2>1. CASE Start(r)
    <3>1. buffer'[r] = <<>> /\ pc[r] = "idle"
      BY <1>0, <2>1 DEF Start, Fetch, ChunkFits
    <3>2. analyser'[r] # a \/ \A t \in todo'[r] : t.call # c
      BY <3>1 DEF Step, Analyse, ReadVersions, Insert, InsertInputs, Journal, Demote, Crash
    <3>. QED
      BY <1>2, <3>1, <3>2 DEF MayFail, Positions
  <2>2. CASE Analyse(r)
    <3>1. PICK t \in todo[r], res \in Result :
              /\ res.source = t
              /\ todo'[r] = todo[r] \ {t}
              /\ buffer'[r][Len(buffer[r]) + 1] = res
              /\ \A i \in Positions(r) : buffer'[r][i] = buffer[r][i]
              /\ Positions(r) = 1 .. Len(buffer[r])
              /\ Positions(r)' = 1 .. (Len(buffer[r]) + 1)
      BY <1>0, <2>2, AnalyseOf
    <3>2. Len(buffer[r]) \in Nat /\ pc[r] = "analyse" /\ analyser' = analyser
      BY <1>0, <2>2 DEF WorkTypes, Analyse
    <3>3. \A i \in Positions(r)' : i \in Positions(r) \/ i = Len(buffer[r]) + 1
      BY <3>1, <3>2
    <3>. QED
      BY <1>2, <3>1, <3>2, <3>3 DEF MayFail, CallAt
  <2>3. CASE ReadVersions(r) \/ Insert(r) \/ InsertInputs(r)
    <3>1. pc[r] # "demote" /\ todo' = todo /\ buffer' = buffer /\ analyser' = analyser
      BY <2>3 DEF ReadVersions, Insert, InsertInputs
    <3>. QED
      BY <1>2, <3>1 DEF MayFail, Positions, CallAt
  <2>4. CASE Journal(r) \/ Demote(r) \/ Crash(r)
    <3>1. /\ todo'[r] \subseteq todo[r] /\ analyser' = analyser
          /\ pc'[r] = "demote" \/ buffer'[r] = <<>>
      BY <1>0, <2>4 DEF Journal, Demote, Crash, ChunkDone, WorkTypes
    <3>. QED
      BY <1>2, <3>1 DEF MayFail, Positions
  <2>. QED
    BY <2>1, <2>2, <2>3, <2>4 DEF Step
<1>. QED
  BY <1>1, <1>2 DEF Pending, Slots

\* A chunk's journal has at most one failed row of a call, and then the run was
\* pending for it and is no more.
LEMMA JournalSettlesFailure ==
    ASSUME BudgetInv, NEW r \in Runs, NEW c \in Calls, NEW a \in Analysers, Journal(r),
           analyser[r] = a
    PROVE  \/ Failed(a, c)' = Failed(a, c)
           \/ /\ \E j : Failed(a, c)' = Failed(a, c) \cup {j}
              /\ r \in Pending(a, c) /\ r \notin Pending(a, c)'
<1>. DEFINE new == FailedRows(JournalRows(r), ArtifactTypeOf(a), c)
<1>0. WorkTypes /\ ChunkFits(r) /\ CallsDiffer(r) /\ FailuresUnstamped(r)
  BY DEF BudgetInv, WorkInv
<1>1. Failed(a, c)' = Failed(a, c) \cup new
  BY DEF Journal, Failed, FailedRows
<1>2. ASSUME NEW j \in new
      PROVE  \E i \in Positions(r) :
                 ~ buffer[r][i].ok /\ CallAt(r, i) = c
                 /\ j = [attempt |-> base[r] + i, stamp |-> 0,
                         call |-> CallAt(r, i), kind |-> ArtifactTypeOf(analyser[r]),
                         status |-> "failed", artifact |-> ArtifactOf(r, i)]
  <2>1. PICK i \in Positions(r) : j \in JournalRowsOf(r, i)
    BY <1>2 DEF FailedRows, JournalRows
  <2>2. PICK s \in StampsOf(buffer[r][i]) :
            j = [attempt |-> base[r] + i,
                 stamp |-> s,
                 call |-> CallAt(r, i),
                 kind |-> ArtifactTypeOf(analyser[r]),
                 status |-> IF buffer[r][i].ok THEN "ok" ELSE "failed",
                 artifact |-> ArtifactOf(r, i)]
    BY <2>1 DEF JournalRowsOf
  <2>3. j.call = c /\ j.status = "failed"
    BY <1>2 DEF FailedRows
  <2>4. ~ buffer[r][i].ok /\ CallAt(r, i) = c
    BY <2>2, <2>3
  <2>5. s = 0
    BY <1>0, <2>2, <2>4 DEF FailuresUnstamped, StampsOf
  <2>. QED
    BY <2>2, <2>4, <2>5
<1>. HIDE DEF new
<1>3. CASE new = {}
  BY <1>1, <1>3
<1>4. CASE new # {}
  <2>1. PICK j : j \in new
    BY <1>4
  <2>2. PICK i \in Positions(r) :
                 ~ buffer[r][i].ok /\ CallAt(r, i) = c
                 /\ j = [attempt |-> base[r] + i, stamp |-> 0,
                         call |-> CallAt(r, i), kind |-> ArtifactTypeOf(analyser[r]),
                         status |-> "failed", artifact |-> ArtifactOf(r, i)]
    BY <1>2, <2>1
  <2>3. \A l \in new : l = j
    <3>. TAKE l \in new
    <3>1. PICK p \in Positions(r) :
                 ~ buffer[r][p].ok /\ CallAt(r, p) = c
                 /\ l = [attempt |-> base[r] + p, stamp |-> 0,
                         call |-> CallAt(r, p), kind |-> ArtifactTypeOf(analyser[r]),
                         status |-> "failed", artifact |-> ArtifactOf(r, p)]
      BY <1>2
    <3>2. p = i
      BY <1>0, <2>2, <3>1 DEF CallsDiffer
    <3>. QED
      BY <2>2, <3>1, <3>2
  <2>4. Failed(a, c)' = Failed(a, c) \cup {j}
    BY <1>1, <2>1, <2>3
  <2>5. r \in Pending(a, c)
    BY <1>0, <2>2 DEF Journal, Pending, Slots, MayFail, ChunkFits
  <2>6. \A t \in todo[r] : t.call # c
    BY <1>0, <2>2 DEF CallsDiffer
  <2>7. todo'[r] = todo[r] /\ (pc'[r] = "demote" \/ buffer'[r] = <<>>)
    BY <1>0 DEF Journal, ChunkDone, WorkTypes
  <2>8. r \notin Pending(a, c)'
    BY <2>6, <2>7 DEF Pending, MayFail, Positions
  <2>. QED
    BY <2>4, <2>5, <2>8
<1>. QED
  BY <1>3, <1>4

\* Only the analyser's own Journal writes its failures.
LEMMA FailedOtherwise ==
    ASSUME WorkTypes, NEW r \in Runs, NEW c \in Calls, NEW a \in Analysers,
           Start(r) \/ Step(r) \/ Crash(r), ~ (Journal(r) /\ analyser[r] = a)
    PROVE  Failed(a, c)' = Failed(a, c)
<1>1. CASE analyser[r] # a
  BY <1>1, OthersUntouched DEF Failed
<1>2. CASE ~ Journal(r)
  BY <1>2 DEF Start, Step, Fetch, Analyse, ReadVersions, Insert, InsertInputs, Demote,
              Crash, tables, Failed
<1>. QED
  BY <1>1, <1>2

LEMMA StepBudgetKept ==
    ASSUME BudgetInv, [Next]_vars, NEW c \in Calls, NEW a \in Analysers
    PROVE  BudgetKept(a, c)'
<1>0. BudgetKept(a, c) /\ WorkInv /\ WorkTypes /\ MaxFailed \in Nat
  BY ReportLimitsAssumption DEF BudgetInv, WorkInv
<1>1. /\ IsFiniteSet(Slots(a)) /\ Cardinality(Slots(a)) \in Nat
      /\ IsFiniteSet(Pending(a, c)) /\ Cardinality(Pending(a, c)) \in Nat
      /\ Pending(a, c)' \subseteq Slots(a)
      /\ IsFiniteSet(Failed(a, c)) /\ Cardinality(Failed(a, c)) \in Nat
  <2>1. Slots(a) \subseteq Runs /\ Pending(a, c) \subseteq Slots(a)
        /\ Pending(a, c)' \subseteq Slots(a)
    BY DEF Slots, Pending
  <2>2. IsFiniteSet(Slots(a))
    BY <2>1, ReportRunsAssumption, FS_Subset
  <2>3. IsFiniteSet(Pending(a, c))
    BY <2>1, <2>2, FS_Subset
  <2>. QED
    BY <1>0, <2>1, <2>2, <2>3, FS_CardinalityType DEF BudgetKept
<1>2. /\ IsFiniteSet(Pending(a, c)') /\ Cardinality(Pending(a, c)') \in Nat
      /\ Cardinality(Pending(a, c)') <= Cardinality(Slots(a))
  BY <1>1, FS_Subset, FS_CardinalityType
<1>3. CASE UNCHANGED vars
  BY <1>0, <1>3 DEF vars, BudgetKept, Failed, Pending, MayFail, Positions, CallAt
<1>4. ASSUME NEW r \in Runs, Start(r) \/ Step(r) \/ Crash(r)
      PROVE  BudgetKept(a, c)'
  <2>0. Slots(a)' = Slots(a)
    BY DEF Slots
  <2>1. CASE Pending(a, c)' \subseteq Pending(a, c) /\ Failed(a, c)' = Failed(a, c)
    <3>1. Cardinality(Pending(a, c)') <= Cardinality(Pending(a, c))
      BY <1>1, <2>1, FS_Subset
    <3>. QED
      BY <1>0, <1>1, <1>2, <2>0, <2>1, <3>1 DEF BudgetKept
  <2>2. CASE Start(r) /\ analyser'[r] = a /\ \E t \in todo'[r] : t.call = c
    <3>1. PICK b \in Analysers : Fetch(r, b)
      BY <2>2 DEF Start
    <3>2. b = a /\ todo'[r] \subseteq Candidates(a) /\ UNCHANGED tables
      BY <1>0, <2>2, <3>1, FetchOf
    <3>3. Cardinality(Failed(a, c)) < MaxFailed
      BY <2>2, <3>2 DEF Candidates, Failed
    <3>4. Failed(a, c)' = Failed(a, c)
      BY <3>2 DEF tables, Failed
    <3>. QED
      BY <1>0, <1>1, <1>2, <2>0, <3>3, <3>4 DEF BudgetKept
  <2>3. CASE Journal(r) /\ analyser[r] = a
    <3>1. Pending(a, c)' \subseteq Pending(a, c)
      BY <1>0, <2>3, PendingOnlyShrinks DEF Step
    <3>2. CASE Failed(a, c)' = Failed(a, c)
      BY <2>1, <3>1, <3>2
    <3>3. CASE /\ \E j : Failed(a, c)' = Failed(a, c) \cup {j}
               /\ r \in Pending(a, c) /\ r \notin Pending(a, c)'
      <4>1. PICK j : Failed(a, c)' = Failed(a, c) \cup {j}
        BY <3>3
      <4>2. /\ IsFiniteSet(Failed(a, c)')
            /\ Cardinality(Failed(a, c)') <= Cardinality(Failed(a, c)) + 1
            /\ Cardinality(Failed(a, c)') \in Nat
        <5>1. Cardinality(Failed(a, c) \cup {j}) \in
                  {Cardinality(Failed(a, c)), Cardinality(Failed(a, c)) + 1}
          BY <1>1, FS_AddElement
        <5>2. IsFiniteSet(Failed(a, c) \cup {j})
          BY <1>1, FS_AddElement
        <5>. QED
          BY <1>1, <4>1, <5>1, <5>2
      <4>3. Pending(a, c)' \subseteq Pending(a, c) \ {r}
        BY <3>1, <3>3
      <4>4. /\ IsFiniteSet(Pending(a, c) \ {r})
            /\ Cardinality(Pending(a, c) \ {r}) = Cardinality(Pending(a, c)) - 1
        BY <1>1, <3>3, FS_RemoveElement
      <4>5. Cardinality(Pending(a, c)') <= Cardinality(Pending(a, c)) - 1
        BY <4>3, <4>4, FS_Subset
      <4>. QED
        BY <1>0, <1>1, <1>2, <2>0, <4>2, <4>5 DEF BudgetKept
    <3>. QED
      BY <2>3, <3>2, <3>3, JournalSettlesFailure
  <2>4. CASE /\ ~ (Journal(r) /\ analyser[r] = a)
             /\ \/ Step(r) \/ Crash(r) \/ analyser'[r] # a
                \/ \A t \in todo'[r] : t.call # c
    <3>1. Pending(a, c)' \subseteq Pending(a, c)
      BY <1>0, <1>4, <2>4, PendingOnlyShrinks
    <3>2. Failed(a, c)' = Failed(a, c)
      BY <1>0, <1>4, <2>4, FailedOtherwise
    <3>. QED
      BY <2>1, <3>1, <3>2
  <2>. QED
    BY <1>4, <2>2, <2>3, <2>4
<1>. QED
  BY <1>3, <1>4 DEF Next

LEMMA InitBudgetInv ==
    ASSUME Init, WorkTypes, OneCurrentTranscriptEach,
           \A a \in Analysers : MaxFailed + Cardinality(Slots(a)) > 0
    PROVE  BudgetInv
<1>1. \A r \in Runs : /\ Positions(r) = {}
                      /\ buffer[r] = <<>> /\ todo[r] = {}
  BY EmptyChunk DEF Init, InitRuns
<1>2. WorkInv
  BY InitWorkInv DEF Init
<1>3. ASSUME NEW c \in Calls, NEW a \in Analysers PROVE BudgetKept(a, c)
  <2>1. Failed(a, c) = {} /\ Pending(a, c) = {}
    BY <1>1 DEF Init, Failed, FailedRows, Pending, Slots, MayFail
  <2>2. Cardinality(Slots(a)) \in Nat
    BY ReportRunsAssumption, FS_Subset, FS_CardinalityType DEF Slots
  <2>. QED
    BY <2>1, <2>2, FS_EmptySet, ReportLimitsAssumption DEF BudgetKept
<1>. QED
  BY <1>1, <1>2, <1>3 DEF BudgetInv, FailuresUnstamped

\* The retry budget is kept per analyser: beyond the first, each slot of an analyser
\* adds at most one failure to a call, and the other analysers' failures do not
\* count.  (An analyser has a budget, or a slot.)
THEOREM BudgetOvershoot ==
    ASSUME OneCurrentGiven,
           \A a \in Analysers : MaxFailed + Cardinality(Slots(a)) > 0
    PROVE  Spec => []RetryBudget
<1>. DEFINE IInv == transcriptions = Transcripts /\ BudgetInv
<1>0. transcriptions = Transcripts => OneCurrentTranscriptEach
  BY DEF OneCurrentGiven, OneCurrentTranscriptEach, CurrentTranscripts
<1>1. Init => IInv
  <2>1. Init => WorkTypes /\ transcriptions = Transcripts
    BY InitVersionInv DEF VersionInv, Init
  <2>. QED
    BY <1>0, <2>1, InitBudgetInv
<1>2. IInv /\ WorkTypes' /\ [Next]_vars => IInv'
  <2>. SUFFICES ASSUME IInv, WorkTypes', [Next]_vars PROVE IInv'
    OBVIOUS
  <2>1. transcriptions' = Transcripts
    BY OnlyReadsTranscripts
  <2>2. OneCurrentTranscriptEach'
    BY <1>0, <2>1 DEF BudgetInv, WorkInv, OneCurrentTranscriptEach, CurrentTranscripts
  <2>3. WorkInv /\ WorkTypes
    BY DEF BudgetInv, WorkInv
  <2>4. Next \/ Neighbour
    BY <2>3, StutterIsNeighbour
  <2>5. WorkInv'
    BY <2>2, <2>3, <2>4, StepWorkInv
  <2>. QED
    BY <2>1, <2>3, <2>5, StepFailuresUnstamped, StepBudgetKept DEF BudgetInv
<1>3. IInv => RetryBudget
  <2>0. ASSUME NEW t \in Transcripts, t.current
        PROVE  Cardinality(CurrentGiven(t.call)) = 1
    <3>1. CurrentGiven(t.call) = {t}
      BY <2>0 DEF OneCurrentGiven, CurrentGiven
    <3>. QED
      BY <3>1, FS_Singleton
  <2>. SUFFICES ASSUME BudgetInv, NEW c \in Calls, NEW a \in Analysers
                PROVE  Cardinality(Failed(a, c)) <= MaxFailed - 1 + Cardinality(Slots(a))
    <3>1. SUFFICES ASSUME \A c \in Calls, a \in Analysers :
                              Cardinality(Failed(a, c))
                                  <= MaxFailed - 1 + Cardinality(Slots(a)),
                          NEW a \in Analysers, NEW t \in Transcripts, t.current
                   PROVE  Cardinality(Failed(a, t.call))
                              <= MaxFailed - 1
                                   + Cardinality(Slots(a)) * Cardinality(CurrentGiven(t.call))
      BY DEF RetryBudget, Failed, Slots
    <3>2. t.call \in Calls
      BY TranscriptsAssumption DEF TranscriptRow
    <3>3. Cardinality(Slots(a)) \in Nat
      BY ReportRunsAssumption, FS_Subset, FS_CardinalityType DEF Slots
    <3>4. Cardinality(CurrentGiven(t.call)) = 1
      BY <2>0, <3>1
    <3>. QED
      BY <3>1, <3>2, <3>3, <3>4
  <2>1. BudgetKept(a, c)
    BY DEF BudgetInv
  <2>2. IsFiniteSet(Slots(a)) /\ Pending(a, c) \subseteq Slots(a)
    BY ReportRunsAssumption, FS_Subset DEF Slots, Pending
  <2>3. /\ Cardinality(Failed(a, c)) \in Nat /\ Cardinality(Pending(a, c)) \in Nat
        /\ Cardinality(Slots(a)) \in Nat
    BY <2>1, <2>2, FS_Subset, FS_CardinalityType DEF BudgetKept
  <2>. QED
    BY <2>1, <2>3, ReportLimitsAssumption DEF BudgetKept
<1>. HIDE DEF IInv
<1>. QED
  BY <1>1, <1>2, <1>3, WorkTypesAlways, PTL DEF Spec
-----------------------------------------------------------------------------
\* A chunk owns the identifiers from its base on until it is done with.
Claimed(r) == pc[r] \in {"insert", "inputs", "journal", "demote"}
ChunkIds(r) == base[r] + 1 .. base[r] + Len(buffer[r])

\* No identifier is given to two reports, and the reports of a chunk are the only
\* ones with the chunk's identifiers.
IdsFresh ==
    /\ \A t \in call_reports : t.id \in 1 .. minted
    /\ \A t, u \in call_reports : t.id = u.id => t = u
    /\ \A r \in Runs : Claimed(r) => base[r] + Len(buffer[r]) <= minted
    /\ \A r, q \in Runs :
          r # q /\ Claimed(r) /\ Claimed(q) => ChunkIds(r) \cap ChunkIds(q) = {}
    /\ \A r \in Runs :
          pc[r] = "insert" => \A t \in call_reports : t.id \notin ChunkIds(r)

LEMMA RowIdsInChunk ==
    ASSUME WorkTypes, NEW r \in Runs
    PROVE  /\ RowIds(r) \subseteq ChunkIds(r)
           /\ base[r] \in Nat /\ Len(buffer[r]) \in Nat
           /\ IsFiniteSet(ChunkIds(r)) /\ Cardinality(ChunkIds(r)) = Len(buffer[r])
<1>1. base[r] \in Nat /\ Len(buffer[r]) \in Nat /\ Positions(r) = 1 .. Len(buffer[r])
  BY DEF WorkTypes, Positions
<1>2. RowIds(r) \subseteq ChunkIds(r)
  BY <1>1 DEF RowIds, ChunkIds, OkPositions
<1>3. IsFiniteSet(ChunkIds(r)) /\ Cardinality(ChunkIds(r)) = Len(buffer[r])
  BY <1>1, IntervalOfChunk DEF ChunkIds
<1>. QED
  BY <1>1, <1>2, <1>3

\* Steps that mint nothing and claim nothing keep the identifiers apart.
LEMMA IdsUntouched ==
    ASSUME WorkTypes, IdsFresh, minted' = minted,
           \A t \in call_reports' : \E u \in call_reports : u.id = t.id,
           \A t, u \in call_reports' : t.id = u.id => t = u,
           \A r \in Runs : Claimed(r)' =>
               /\ Claimed(r) /\ base'[r] = base[r] /\ buffer'[r] = buffer[r]
               /\ pc'[r] = "insert" => pc[r] = "insert"
    PROVE  IdsFresh'
<1>1. \A t \in call_reports' : t.id \in 1 .. minted'
  BY DEF IdsFresh
<1>2. \A r \in Runs : Claimed(r)' => base'[r] + Len(buffer'[r]) <= minted'
  BY DEF IdsFresh
<1>3. \A r \in Runs : Claimed(r)' => ChunkIds(r)' = ChunkIds(r)
  BY DEF ChunkIds
<1>4. \A r, q \in Runs :
          r # q /\ Claimed(r)' /\ Claimed(q)' => ChunkIds(r)' \cap ChunkIds(q)' = {}
  BY <1>3 DEF IdsFresh
<1>5. \A r \in Runs :
          pc'[r] = "insert" => \A t \in call_reports' : t.id \notin ChunkIds(r)'
  BY <1>3 DEF IdsFresh, Claimed
<1>. QED
  BY <1>1, <1>2, <1>4, <1>5 DEF IdsFresh

\* A demote changes no identifier.
LEMMA DemoteKeepsIds ==
    ASSUME WorkTypes, NEW r \in Runs, Demote(r)
    PROVE  /\ \A t \in call_reports' : \E u \in call_reports : u.id = t.id
           /\ (\A t, u \in call_reports : t.id = u.id => t = u) =>
                  \A t, u \in call_reports' : t.id = u.id => t = u
<1>. DEFINE D(t) == IF t \in ReportsBy(analyser[r]) /\ t.call \in OkCalls(r)
                          /\ t.current /\ t.id \notin RowIds(r)
                    THEN [t EXCEPT !.current = FALSE] ELSE t
<1>1. call_reports' = {D(t) : t \in call_reports}
  BY DEF Demote, Demoted
<1>2. \A t \in call_reports : D(t).id = t.id
  <2>1. \A t \in call_reports : t \in ReportRow
    BY DEF WorkTypes
  <2>. QED
    BY <2>1 DEF ReportRow
<1>. HIDE DEF D
<1>. QED
  BY <1>1, <1>2

LEMMA StepIdsFresh ==
    ASSUME WorkTypes, IdsFresh, [Next]_vars PROVE IdsFresh'
<1>1. ASSUME NEW r \in Runs,
             Start(r) \/ Analyse(r) \/ InsertInputs(r) \/ Journal(r) \/ Crash(r)
      PROVE  IdsFresh'
  <2>1. minted' = minted /\ call_reports' = call_reports
    BY <1>1 DEF Start, Fetch, Analyse, InsertInputs, Journal, Crash, tables
  <2>2. Claimed(r)' => /\ Claimed(r) /\ base'[r] = base[r]
                       /\ buffer'[r] = buffer[r] /\ pc'[r] # "insert"
    BY <1>1 DEF Start, Fetch, Analyse, InsertInputs, Journal, Crash, ChunkDone, Claimed,
                WorkTypes
  <2>3. \A q \in Runs : q # r => /\ pc'[q] = pc[q] /\ base'[q] = base[q]
                                 /\ buffer'[q] = buffer[q]
    BY <1>1, OtherRunsUntouched DEF Step
  <2>4. \A q \in Runs : Claimed(q)' =>
               /\ Claimed(q) /\ base'[q] = base[q] /\ buffer'[q] = buffer[q]
               /\ pc'[q] = "insert" => pc[q] = "insert"
    BY <2>2, <2>3 DEF Claimed
  <2>5. \A t, u \in call_reports' : t.id = u.id => t = u
    BY <2>1 DEF IdsFresh
  <2>. QED
    BY <2>1, <2>4, <2>5, IdsUntouched
<1>2. ASSUME NEW r \in Runs, Demote(r) PROVE IdsFresh'
  <2>1. minted' = minted
    BY <1>2 DEF Demote
  <2>2. ~ Claimed(r)'
    BY <1>2 DEF Demote, ChunkDone, Claimed, WorkTypes
  <2>3. \A q \in Runs : q # r => /\ pc'[q] = pc[q] /\ base'[q] = base[q]
                                 /\ buffer'[q] = buffer[q]
    BY <1>2, OtherRunsUntouched DEF Step
  <2>4. \A q \in Runs : Claimed(q)' =>
               /\ Claimed(q) /\ base'[q] = base[q] /\ buffer'[q] = buffer[q]
               /\ pc'[q] = "insert" => pc[q] = "insert"
    BY <2>2, <2>3 DEF Claimed
  <2>5. /\ \A t \in call_reports' : \E u \in call_reports : u.id = t.id
        /\ \A t, u \in call_reports' : t.id = u.id => t = u
    BY <1>2, DemoteKeepsIds DEF IdsFresh
  <2>. QED
    BY <2>1, <2>4, <2>5, IdsUntouched
<1>3. ASSUME NEW r \in Runs, ReadVersions(r) PROVE IdsFresh'
  <2>1. /\ base' = [base EXCEPT ![r] = minted] /\ base'[r] = minted
        /\ minted' = minted + Len(buffer[r])
        /\ call_reports' = call_reports /\ buffer' = buffer
        /\ minted \in Nat /\ Len(buffer[r]) \in Nat
    BY <1>3 DEF ReadVersions, WorkTypes, tables
  <2>2. \A q \in Runs : q # r => pc'[q] = pc[q] /\ base'[q] = base[q]
    BY <1>3, OtherRunsUntouched DEF Step
  <2>3. ChunkIds(r)' = minted + 1 .. minted + Len(buffer[r])
    BY <2>1 DEF ChunkIds
  <2>4. \A q \in Runs : q # r => /\ ChunkIds(q)' = ChunkIds(q)
                                 /\ Claimed(q)' <=> Claimed(q)
    BY <2>1, <2>2 DEF ChunkIds, Claimed
  <2>5. \A q \in Runs : Claimed(q) => \A x \in ChunkIds(q) : x <= minted
    BY <2>1, RowIdsInChunk DEF IdsFresh, ChunkIds
  <2>6. \A t \in call_reports' : t.id \in 1 .. minted'
    BY <2>1 DEF IdsFresh
  <2>7. \A q \in Runs : Claimed(q)' => base'[q] + Len(buffer'[q]) <= minted'
    <3>. SUFFICES ASSUME NEW q \in Runs, Claimed(q)'
                  PROVE  base'[q] + Len(buffer'[q]) <= minted'
      OBVIOUS
    <3>1. CASE q = r
      BY <2>1, <3>1
    <3>2. CASE q # r
      BY <2>1, <2>2, <2>4, <3>2, RowIdsInChunk DEF IdsFresh
    <3>. QED
      BY <3>1, <3>2
  <2>8. \A q, s \in Runs : q # s /\ Claimed(q)' /\ Claimed(s)'
                              => ChunkIds(q)' \cap ChunkIds(s)' = {}
    <3>. SUFFICES ASSUME NEW q \in Runs, NEW s \in Runs, q # s,
                         Claimed(q)', Claimed(s)'
                  PROVE  ChunkIds(q)' \cap ChunkIds(s)' = {}
      OBVIOUS
    <3>1. CASE q # r /\ s # r
      BY <2>4, <3>1 DEF IdsFresh
    <3>2. CASE q = r
      BY <2>1, <2>3, <2>4, <2>5, <3>2
    <3>3. CASE s = r
      BY <2>1, <2>3, <2>4, <2>5, <3>3
    <3>. QED
      BY <3>1, <3>2, <3>3
  <2>9. \A q \in Runs : pc'[q] = "insert" =>
            \A t \in call_reports' : t.id \notin ChunkIds(q)'
    <3>. SUFFICES ASSUME NEW q \in Runs, pc'[q] = "insert", NEW t \in call_reports
                  PROVE  t.id \notin ChunkIds(q)'
      BY <2>1
    <3>1. CASE q = r
      BY <2>1, <2>3, <3>1 DEF IdsFresh
    <3>2. CASE q # r
      BY <2>2, <2>4, <3>2 DEF IdsFresh
    <3>. QED
      BY <3>1, <3>2
  <2>. QED
    BY <2>1, <2>6, <2>7, <2>8, <2>9 DEF IdsFresh
<1>4. ASSUME NEW r \in Runs, Insert(r) PROVE IdsFresh'
  <2>1. /\ pc[r] = "insert" /\ pc'[r] = "inputs" /\ minted' = minted
        /\ base' = base /\ buffer' = buffer
        /\ call_reports' = call_reports \cup NewRows(r)
    BY <1>4 DEF Insert, WorkTypes
  <2>2. \A q \in Runs : q # r => pc'[q] = pc[q]
    BY <1>4, OtherRunsUntouched DEF Step
  <2>3. \A q \in Runs : /\ ChunkIds(q)' = ChunkIds(q)
                        /\ Claimed(q)' <=> Claimed(q)
    BY <2>1, <2>2 DEF ChunkIds, Claimed
  <2>4. \A t \in NewRows(r) : \E i \in OkPositions(r) :
            t = [id |-> base[r] + i,
                 call |-> CallAt(r, i),
                 version |-> versions[r][CallAt(r, i)],
                 current |-> TRUE,
                 analyser |-> analyser[r],
                 source |-> buffer[r][i].source.id]
    BY DEF NewRows
  <2>5. OkPositions(r) \subseteq Nat /\ base[r] \in Nat /\ minted \in Nat
    BY ResultTypes DEF OkPositions, WorkTypes
  <2>6. \A t \in NewRows(r) : t.id \in ChunkIds(r)
    BY <2>4, RowIdsInChunk DEF RowIds
  <2>7. \A t, u \in NewRows(r) : t.id = u.id => t = u
    <3>. SUFFICES ASSUME NEW t \in NewRows(r), NEW u \in NewRows(r), t.id = u.id
                  PROVE  t = u
      OBVIOUS
    <3>1. PICK i \in OkPositions(r) :
            t = [id |-> base[r] + i,
                 call |-> CallAt(r, i),
                 version |-> versions[r][CallAt(r, i)],
                 current |-> TRUE,
                 analyser |-> analyser[r],
                 source |-> buffer[r][i].source.id]
      BY <2>4
    <3>2. PICK j \in OkPositions(r) :
            u = [id |-> base[r] + j,
                 call |-> CallAt(r, j),
                 version |-> versions[r][CallAt(r, j)],
                 current |-> TRUE,
                 analyser |-> analyser[r],
                 source |-> buffer[r][j].source.id]
      BY <2>4
    <3>3. base[r] + i = base[r] + j
      BY <3>1, <3>2
    <3>4. i = j
      BY <2>5, <3>3
    <3>. QED
      BY <3>1, <3>2, <3>4
  <2>8. ChunkIds(r) \subseteq 1 .. minted
    BY <2>1, <2>5, RowIdsInChunk DEF ChunkIds, IdsFresh, Claimed
  <2>9. \A t \in call_reports' : t.id \in 1 .. minted'
    BY <2>1, <2>6, <2>8 DEF IdsFresh
  <2>10. \A t, u \in call_reports' : t.id = u.id => t = u
    BY <2>1, <2>6, <2>7 DEF IdsFresh
  <2>11. \A q \in Runs : pc'[q] = "insert" =>
             \A t \in call_reports' : t.id \notin ChunkIds(q)'
    <3>. SUFFICES ASSUME NEW q \in Runs, pc'[q] = "insert",
                         NEW t \in call_reports'
                  PROVE  t.id \notin ChunkIds(q)
      BY <2>3
    <3>1. q # r /\ pc[q] = "insert"
      BY <2>1, <2>2
    <3>2. ChunkIds(q) \cap ChunkIds(r) = {}
      BY <2>1, <3>1 DEF IdsFresh, Claimed
    <3>. QED
      BY <2>1, <2>6, <3>1, <3>2 DEF IdsFresh
  <2>12. \A q \in Runs : Claimed(q)' => base'[q] + Len(buffer'[q]) <= minted'
    BY <2>1, <2>3 DEF IdsFresh
  <2>13. \A q, s \in Runs : q # s /\ Claimed(q)' /\ Claimed(s)'
                               => ChunkIds(q)' \cap ChunkIds(s)' = {}
    BY <2>3 DEF IdsFresh
  <2>. QED
    BY <2>9, <2>10, <2>11, <2>12, <2>13 DEF IdsFresh
<1>5. CASE UNCHANGED vars
  BY <1>5, IdsUntouched DEF vars, Claimed, IdsFresh
<1>. QED
  BY <1>1, <1>2, <1>3, <1>4, <1>5 DEF Next, Step

-----------------------------------------------------------------------------
\* The identifiers of the reports whose lineage nobody is going to write any more.
LostIds ==
    {x \in {t.id : t \in call_reports} :
        x \notin AboutToWriteInputs /\ \A l \in report_inputs : l.report # x}

LossInv ==
    /\ WorkTypes
    /\ \A r \in Runs : ChunkFits(r)
    /\ IdsFresh
    /\ crashes \in Nat
    /\ Cardinality(LostIds) <= crashes * ChunkSize

LEMMA LostIdsFinite ==
    ASSUME WorkTypes, IdsFresh
    PROVE  IsFiniteSet(LostIds) /\ Cardinality(LostIds) \in Nat
<1>1. LostIds \subseteq 1 .. minted
  BY DEF LostIds, IdsFresh
<1>2. IsFiniteSet(1 .. minted)
  BY FS_Interval DEF WorkTypes
<1>. QED
  BY <1>1, <1>2, FS_Subset, FS_CardinalityType

\* Whatever is not a crash loses nothing: the statement after the insert records
\* lineage for the whole chunk.
LEMMA StepLosesNothing ==
    ASSUME WorkTypes, NEW r \in Runs, Start(r) \/ Step(r)
    PROVE  LostIds' \subseteq LostIds
<1>1. report_inputs \subseteq report_inputs'
  BY DEF Start, Step, Fetch, Analyse, ReadVersions, Insert, InsertInputs, Journal, Demote,
         tables
<1>2. \A q \in Runs : q # r => pc'[q] = pc[q] /\ RowIds(q)' = RowIds(q)
  BY OtherRunsUntouched DEF RowIds, OkPositions, Positions
<1>. SUFFICES ASSUME NEW x \in LostIds' PROVE x \in LostIds
  OBVIOUS
<1>3. /\ \A l \in report_inputs : l.report # x
      /\ \A q \in Runs : pc'[q] = "inputs" => x \notin RowIds(q)'
      /\ \E t \in call_reports' : t.id = x
  BY <1>1 DEF LostIds, AboutToWriteInputs
<1>4. \A q \in Runs : q # r /\ pc[q] = "inputs" => x \notin RowIds(q)
  BY <1>2, <1>3
<1>5. \E t \in call_reports : t.id = x
  <2>1. CASE Insert(r)
    <3>1. /\ pc'[r] = "inputs" /\ buffer' = buffer /\ base' = base
          /\ call_reports' = call_reports \cup NewRows(r)
      BY <2>1 DEF Insert, WorkTypes
    <3>2. RowIds(r)' = RowIds(r)
      BY <3>1 DEF RowIds, OkPositions, Positions
    <3>3. \A t \in NewRows(r) : t.id \in RowIds(r)
      BY DEF NewRows, RowIds
    <3>. QED
      BY <1>3, <3>1, <3>2, <3>3
  <2>2. CASE Demote(r)
    BY <1>3, <2>2, DemoteKeepsIds
  <2>3. CASE Start(r) \/ Analyse(r) \/ ReadVersions(r) \/ InsertInputs(r) \/ Journal(r)
    BY <1>3, <2>3 DEF Start, Fetch, Analyse, ReadVersions, InsertInputs, Journal, tables
  <2>. QED
    BY <2>1, <2>2, <2>3 DEF Step
<1>6. pc[r] = "inputs" => x \notin RowIds(r)
  <2>. SUFFICES ASSUME pc[r] = "inputs", x \in RowIds(r) PROVE FALSE
    OBVIOUS
  <2>1. InsertInputs(r)
    BY DEF Start, Step, Fetch, Analyse, ReadVersions, Insert, Journal, Demote
  <2>2. PICK i \in OkPositions(r) : x = base[r] + i
    BY DEF RowIds
  <2>. DEFINE l == [report |-> base[r] + i,
                    report_version |-> versions[r][CallAt(r, i)],
                    source |-> SourceOf(r, CallAt(r, i)).id,
                    source_version |-> SourceOf(r, CallAt(r, i)).version]
  <2>3. l \in report_inputs'
    BY <2>1 DEF InsertInputs, InputRows
  <2>. QED
    BY <2>2, <2>3 DEF LostIds
<1>7. x \notin AboutToWriteInputs
  BY <1>4, <1>6 DEF AboutToWriteInputs
<1>. QED
  BY <1>3, <1>5, <1>7 DEF LostIds

\* A crash loses the chunk at hand.
LEMMA CrashLosesAChunk ==
    ASSUME WorkTypes, NEW r \in Runs, Crash(r)
    PROVE  LostIds' \subseteq LostIds \cup ChunkIds(r)
<1>1. call_reports' = call_reports /\ report_inputs' = report_inputs
  BY DEF Crash, tables
<1>2. \A q \in Runs : q # r => pc'[q] = pc[q] /\ RowIds(q)' = RowIds(q)
  BY OtherRunsUntouched DEF RowIds, OkPositions, Positions
<1>. SUFFICES ASSUME NEW x \in LostIds', x \notin ChunkIds(r) PROVE x \in LostIds
  OBVIOUS
<1>3. \A q \in Runs : pc'[q] = "inputs" => x \notin RowIds(q)'
  BY DEF LostIds, AboutToWriteInputs
<1>4. \A q \in Runs : pc[q] = "inputs" => x \notin RowIds(q)
  BY <1>2, <1>3, RowIdsInChunk
<1>5. x \notin AboutToWriteInputs
  BY <1>4 DEF AboutToWriteInputs
<1>. QED
  BY <1>1, <1>5 DEF LostIds

LEMMA StepLossInv ==
    ASSUME LossInv, [Next]_vars, WorkTypes'
    PROVE  LossInv'
<1>0. WorkTypes /\ IdsFresh /\ ChunkSize \in Nat /\ crashes \in Nat
  BY ReportLimitsAssumption DEF LossInv
<1>1. (\A r \in Runs : ChunkFits(r)') /\ IdsFresh'
  <2>1. Next \/ Neighbour
    BY <1>0, StutterIsNeighbour
  <2>. QED
    BY <1>0, <2>1, StepChunkFits, StepIdsFresh DEF LossInv
<1>2. /\ IsFiniteSet(LostIds) /\ Cardinality(LostIds) \in Nat
      /\ IsFiniteSet(LostIds') /\ Cardinality(LostIds') \in Nat
  <2>1. LostIds' \subseteq 1 .. minted' /\ minted' \in Nat
    BY <1>1 DEF LostIds, IdsFresh, WorkTypes
  <2>2. IsFiniteSet(1 .. minted')
    BY <2>1, FS_Interval
  <2>. QED
    BY <1>0, <2>1, <2>2, LostIdsFinite, FS_Subset, FS_CardinalityType
<1>3. crashes * ChunkSize \in Nat /\ (crashes + 1) * ChunkSize = crashes * ChunkSize + ChunkSize
  BY <1>0, OneMoreChunk
<1>4. CASE LostIds' \subseteq LostIds /\ crashes' = crashes
  <2>1. Cardinality(LostIds') <= Cardinality(LostIds)
    BY <1>2, <1>4, FS_Subset
  <2>2. Cardinality(LostIds') <= crashes * ChunkSize
    BY <1>2, <1>3, <2>1 DEF LossInv
  <2>. QED
    BY <1>1, <1>4, <2>2 DEF LossInv
<1>5. ASSUME NEW r \in Runs, Crash(r) PROVE LossInv'
  <2>1. LostIds' \subseteq LostIds \cup ChunkIds(r)
    BY <1>0, <1>5, CrashLosesAChunk
  <2>2. /\ IsFiniteSet(ChunkIds(r))
        /\ Cardinality(ChunkIds(r)) \in Nat /\ Cardinality(ChunkIds(r)) <= ChunkSize
    BY <1>0, RowIdsInChunk DEF LossInv, ChunkFits
  <2>3. /\ IsFiniteSet(LostIds \cup ChunkIds(r))
        /\ Cardinality(LostIds \cup ChunkIds(r))
               = Cardinality(LostIds) + Cardinality(ChunkIds(r))
                     - Cardinality(LostIds \cap ChunkIds(r))
    BY <1>2, <2>2, FS_Union
  <2>4. Cardinality(LostIds \cap ChunkIds(r)) \in Nat
    <3>1. LostIds \cap ChunkIds(r) \subseteq LostIds
      OBVIOUS
    <3>. QED
      BY <1>2, <3>1, FS_Subset, FS_CardinalityType
  <2>5. Cardinality(LostIds') <= Cardinality(LostIds \cup ChunkIds(r))
    BY <2>1, <2>3, FS_Subset
  <2>6. crashes' = crashes + 1 /\ crashes + 1 \in Nat
    BY <1>0, <1>5 DEF Crash
  <2>7. Cardinality(LostIds') <= crashes * ChunkSize + ChunkSize
    BY <1>0, <1>2, <1>3, <2>2, <2>3, <2>4, <2>5 DEF LossInv
  <2>. QED
    BY <1>1, <1>3, <2>6, <2>7 DEF LossInv
<1>6. CASE UNCHANGED vars
  BY <1>4, <1>6 DEF vars, LostIds, AboutToWriteInputs, RowIds, OkPositions, Positions
<1>7. ASSUME NEW r \in Runs, Start(r) \/ Step(r) PROVE LossInv'
  <2>1. LostIds' \subseteq LostIds
    BY <1>0, <1>7, StepLosesNothing
  <2>2. crashes' = crashes
    BY <1>7 DEF Start, Step, Fetch, Analyse, ReadVersions, Insert, InsertInputs, Journal,
                Demote
  <2>. QED
    BY <1>4, <2>1, <2>2
<1>. QED
  BY <1>5, <1>6, <1>7 DEF Next

LEMMA InitLossInv ==
    ASSUME Init, WorkTypes PROVE LossInv
<1>1. \A r \in Runs : /\ Len(buffer[r]) = 0
                      /\ buffer[r] = <<>> /\ todo[r] = {} /\ pc[r] = "idle"
  BY EmptyChunk DEF Init, InitRuns
<1>2. IdsFresh /\ \A r \in Runs : ChunkFits(r)
  BY <1>1, ReportLimitsAssumption DEF Init, IdsFresh, Claimed, ChunkFits
<1>3. LostIds = {} /\ crashes = 0
  BY DEF Init, InitRuns, LostIds
<1>4. Cardinality(LostIds) = 0 /\ 0 * ChunkSize = 0
  BY <1>3, FS_EmptySet, ReportLimitsAssumption
<1>. QED
  BY <1>2, <1>3, <1>4 DEF LossInv

\* Reports without lineage: at most a chunk for every run that died, besides those
\* whose runs are about to write it.
THEOREM LineageLoss == Spec => []LineageLossBounded
<1>1. Init /\ WorkTypes => LossInv
  BY InitLossInv
<1>2. LossInv /\ WorkTypes' /\ [Next]_vars => LossInv'
  BY StepLossInv
<1>3. LossInv => LineageLossBounded
  <2>. SUFFICES ASSUME LossInv PROVE LineageLossBounded
    OBVIOUS
  <2>. DEFINE lost == {t \in call_reports :
                          /\ t.id \notin AboutToWriteInputs
                          /\ \A l \in report_inputs : l.report # t.id}
  <2>1. WorkTypes /\ IdsFresh
    BY DEF LossInv
  <2>2. \A t \in lost : t.id \in LostIds
    BY DEF LostIds
  <2>3. \A t, u \in lost : t.id = u.id => t = u
    BY <2>1 DEF IdsFresh
  <2>. HIDE DEF lost
  <2>4. IsFiniteSet(lost) /\ Cardinality(lost) <= Cardinality(LostIds)
    BY <2>1, <2>2, <2>3, LostIdsFinite, RowsByIds
  <2>5. /\ Cardinality(lost) \in Nat /\ Cardinality(LostIds) \in Nat
        /\ crashes * ChunkSize \in Nat
    BY <2>1, <2>4, LostIdsFinite, FS_CardinalityType, OneMoreChunk, ReportLimitsAssumption
       DEF LossInv
  <2>6. Cardinality(lost) <= crashes * ChunkSize
    BY <2>4, <2>5 DEF LossInv
  <2>. QED
    BY <2>6 DEF LineageLossBounded, lost
<1>. QED
  BY <1>1, <1>2, <1>3, WorkTypesAlways, PTL DEF Spec
-----------------------------------------------------------------------------
\* A report is of the call of the transcript it was computed from, and that
\* transcript is in the table.
ReportsHaveSource ==
    \A rep \in call_reports : \E t \in transcriptions : /\ t.id = rep.source
                                                        /\ t.call = rep.call

LEMMA StepReportsHaveSource ==
    ASSUME WorkTypes, SourcesRead, ReportsHaveSource, Next \/ Neighbour
    PROVE  ReportsHaveSource'
<1>1. transcriptions \subseteq transcriptions'
  BY OnlyReadsTranscripts DEF Neighbour, Elsewhere
<1>2. CASE call_reports' = call_reports
  BY <1>1, <1>2 DEF ReportsHaveSource
<1>3. CASE \E r \in Runs : Insert(r)
  <2>1. PICK r \in Runs : call_reports' = call_reports \cup NewRows(r)
    BY <1>3 DEF Insert
  <2>2. \A rep \in NewRows(r) : \E i \in OkPositions(r) :
            rep.source = buffer[r][i].source.id /\ rep.call = CallAt(r, i)
    BY DEF NewRows
  <2>3. \A i \in OkPositions(r) : buffer[r][i].source \in transcriptions
    BY DEF SourcesRead, OkPositions, CurrentTranscripts
  <2>. QED
    BY <1>1, <2>1, <2>2, <2>3 DEF ReportsHaveSource, CallAt
<1>4. CASE \E r \in Runs : Demote(r)
  <2>1. PICK r \in Runs : call_reports' = Demoted(call_reports, ReportsBy(analyser[r]),
                                                  OkCalls(r), RowIds(r))
    BY <1>4 DEF Demote
  <2>2. \A u \in call_reports' : \E t \in call_reports :
            u.source = t.source /\ u.call = t.call
    <3>. SUFFICES ASSUME NEW u \in call_reports'
                  PROVE  \E t \in call_reports : u.source = t.source /\ u.call = t.call
      OBVIOUS
    <3>1. PICK t \in call_reports : u = t \/ u = [t EXCEPT !.current = FALSE]
      BY <2>1 DEF Demoted
    <3>2. t \in ReportRow
      BY DEF WorkTypes
    <3>. QED
      BY <3>1, <3>2 DEF ReportRow
  <2>. QED
    BY <1>1, <2>2 DEF ReportsHaveSource
<1>. QED
  BY <1>2, <1>3, <1>4
     DEF Next, Start, Step, Fetch, Analyse, ReadVersions, InsertInputs, Journal, Crash,
         tables, Neighbour, Elsewhere

\* Lineage stays true next to programs that only add transcripts.
LEMMA StepTruthInv ==
    ASSUME OneCurrentTranscriptEach, TruthInv, Next \/ Neighbour, WorkTypes'
    PROVE  TruthInv'
<1>1. CASE Next
  BY <1>1, StepKeepsSources, StepKeepsPlannedReports, StepKeepsTruth DEF TruthInv
<1>2. CASE Neighbour
  <2>1. SourcesRead'
    BY <1>2 DEF Neighbour, Elsewhere, TruthInv, SourcesRead, CurrentTranscripts, Positions
  <2>2. PlannedReports'
    BY <1>2 DEF Neighbour, Elsewhere, TruthInv, PlannedReports, OkPositions, Positions,
                CallAt
  <2>3. LineageTruthful'
    BY <1>2 DEF Neighbour, Elsewhere, TruthInv, LineageTruthful
  <2>. QED
    BY <2>1, <2>2, <2>3 DEF TruthInv
<1>. QED
  BY <1>1, <1>2

LEMMA InitTruthInv ==
    ASSUME WorkTypes, InitRuns, report_inputs = {} PROVE TruthInv
BY DEF InitRuns, TruthInv, SourcesRead, Positions, PlannedReports, LineageTruthful

\* Identifiers are only handed out.
LEMMA MintedGrows ==
    ASSUME WorkTypes, Next PROVE minted' \in Nat /\ minted <= minted'
<1>1. PICK r \in Runs : Start(r) \/ Step(r) \/ Crash(r)
  BY DEF Next
<1>2. minted' = minted \/ minted' = minted + Len(buffer[r])
  BY <1>1 DEF Start, Step, Fetch, Analyse, ReadVersions, Insert, InsertInputs, Journal,
              Demote, Crash
<1>3. minted \in Nat /\ Len(buffer[r]) \in Nat
  BY DEF WorkTypes
<1>. QED
  BY <1>2, <1>3
===============================================================================
