----------------------- MODULE TranscriptionFlowProofs -----------------------
(***************************************************************************)
(* Theorems about TranscriptionFlow for every set of calls, every number   *)
(* of overlapping runs and every bound.                                    *)
(***************************************************************************)
EXTENDS TranscriptionFlow, AnalysisTablesProofs, SequenceTheorems

\* Every call's versions are an interval that starts at 1.
VersionsAreIntervals ==
    \A c \in Calls : \E n \in Nat : VersionsOf(transcriptions, c) = 1 .. n

\* A version a run has read and not used yet follows a version its call already
\* has: rows are only added, so the answer may be overtaken, never be too large.
PlannedVersionsFollow ==
    \A r \in Runs : pc[r] = "insert" =>
        \A c \in OkCalls(r) :
            /\ versions[r][c] \in Nat \ {0}
            /\ \/ versions[r][c] = 1
               \/ versions[r][c] - 1 \in VersionsOf(transcriptions, c)

VersionInv == WorkTypes /\ VersionsAreIntervals /\ PlannedVersionsFollow

-----------------------------------------------------------------------------
LEMMA StaticTypes ==
    /\ NotAsked \in [Calls -> Nat]
    /\ \A k \in SeededCalls : k.call \in Calls
BY DEF NotAsked, Calls

\* A result is for a call that was seeded.
LEMMA ResultCalls ==
    ASSUME WorkTypes, NEW r \in Runs, NEW i \in Positions(r)
    PROVE  /\ i \in Nat \ {0}
           /\ buffer[r][i] \in Result
           /\ buffer[r][i].call \in Calls
<1>1. buffer[r] \in Seq(Result)
  BY DEF WorkTypes
<1>2. i \in 1 .. Len(buffer[r])
  BY <1>1 DEF Positions
<1>3. buffer[r][i] \in Result
  BY <1>1, <1>2
<1>. QED
  BY <1>2, <1>3 DEF Result

LEMMA OutcomesAreResults ==
    ASSUME NEW c \in Calls PROVE Outcomes(c) \subseteq Result
<1>1. \A n \in StampCounts : n \in Nat
  BY StampCountsAssumption
<1>. SUFFICES ASSUME NEW res \in Outcomes(c) PROVE res \in Result
  OBVIOUS
<1>2. CASE \E n \in StampCounts :
              res = [call |-> c, ok |-> TRUE, stamps |-> n]
  BY <1>1, <1>2 DEF Result
<1>3. CASE res = [call |-> c, ok |-> FALSE, stamps |-> 0]
  BY <1>3 DEF Result
<1>. QED
  BY <1>2, <1>3 DEF Outcomes

\* The rows of a chunk have the type of the table once their versions were read.
LEMMA NewRowsType ==
    ASSUME VersionInv, NEW r \in Runs, pc[r] = "insert"
    PROVE  NewRows(r) \subseteq TranscriptRow
<1>. SUFFICES ASSUME NEW i \in OkPositions(r)
              PROVE  [id |-> base[r] + i,
                      call |-> buffer[r][i].call,
                      version |-> versions[r][buffer[r][i].call],
                      current |-> TRUE] \in TranscriptRow
  BY DEF NewRows
<1>1. i \in Positions(r)
  BY DEF OkPositions
<1>2. i \in Nat \ {0} /\ buffer[r][i].call \in Calls
  BY <1>1, ResultCalls DEF VersionInv
<1>3. buffer[r][i].call \in OkCalls(r)
  BY DEF OkCalls
<1>4. versions[r][buffer[r][i].call] \in Nat \ {0}
  BY <1>3 DEF VersionInv, PlannedVersionsFollow
<1>5. base[r] + i \in Nat
  BY <1>2 DEF VersionInv, WorkTypes
<1>. QED
  BY <1>2, <1>4, <1>5 DEF TranscriptRow

LEMMA JournalRowsType ==
    ASSUME WorkTypes, NEW r \in Runs
    PROVE  JournalRows(r) \subseteq JournalRow
<1>. SUFFICES ASSUME NEW i \in Positions(r), NEW s \in StampsOf(buffer[r][i])
              PROVE  [attempt |-> base[r] + i,
                      stamp |-> s,
                      call |-> buffer[r][i].call,
                      kind |-> ArtifactType,
                      status |-> IF buffer[r][i].ok THEN "ok" ELSE "failed",
                      artifact |-> ArtifactOf(r, i)] \in JournalRow
  BY DEF JournalRows, JournalRowsOf
<1>1. i \in Nat \ {0} /\ buffer[r][i] \in Result /\ buffer[r][i].call \in Calls
  BY ResultCalls
<1>2. base[r] \in Nat
  BY DEF WorkTypes
<1>3. s \in Nat
  BY <1>1 DEF StampsOf, Result
<1>4. ArtifactOf(r, i) \in Nat
  <2>. DEFINE own == {p \in OkPositions(r) : buffer[r][p].call = buffer[r][i].call}
  <2>1. own \in SUBSET Nat
    BY ResultCalls DEF OkPositions
  <2>2. own # {} => Min(own) \in Nat
    BY <2>1, MinOfNaturals
  <2>3. ArtifactOf(r, i) = IF own = {} THEN NoArtifact ELSE base[r] + Min(own)
    BY DEF ArtifactOf
  <2>. HIDE DEF own
  <2>. QED
    BY <1>2, <2>2, <2>3 DEF NoArtifact
<1>. QED
  BY <1>1, <1>2, <1>3, <1>4 DEF JournalRow

\* Demoting keeps the type of the table.
LEMMA DemotedType ==
    ASSUME NEW table \in SUBSET TranscriptRow, NEW scope, NEW cs, NEW keep
    PROVE  Demoted(table, scope, cs, keep) \subseteq TranscriptRow
BY DEF Demoted, TranscriptRow

LEMMA ChunkDoneType ==
    ASSUME WorkTypes, NEW r \in Runs, ChunkDone(r)
    PROVE  /\ pc' \in [Runs -> {"idle", "analyse", "versions", "insert",
                                "journal", "demote"}]
           /\ buffer' \in [Runs -> Seq(Result)]
           /\ base' \in [Runs -> Nat]
           /\ versions' \in [Runs -> [Calls -> Nat]]
BY StaticTypes DEF WorkTypes, ChunkDone

-----------------------------------------------------------------------------
\* How the tables of an empty stand look to the flow.
LEMMA EmptyVersionInv ==
    ASSUME calls \subseteq SeededCalls, transcriptions = {}, minted \in Nat, InitRuns
    PROVE  VersionInv
<1>1. WorkTypes
  BY StaticTypes DEF InitRuns, WorkTypes
<1>2. \A c \in Calls : VersionsOf(transcriptions, c) = 1 .. 0
  BY DEF VersionsOf, RowsOf
<1>3. VersionsAreIntervals
  BY <1>2 DEF VersionsAreIntervals
<1>4. PlannedVersionsFollow
  BY DEF InitRuns, PlannedVersionsFollow
<1>. QED
  BY <1>1, <1>3, <1>4 DEF VersionInv

LEMMA InitVersionInv == Init => VersionInv
BY EmptyVersionInv DEF Init

\* An action that adds no row and plans no version keeps the two conjuncts about
\* versions, as long as no run enters "insert" and the runs that are there keep
\* what they planned.
LEMMA VersionsUntouched ==
    ASSUME VersionInv,
           \A c \in Calls : VersionsOf(transcriptions, c)'
                                = VersionsOf(transcriptions, c),
           \A r \in Runs : pc'[r] = "insert" =>
               /\ pc[r] = "insert"
               /\ buffer'[r] = buffer[r]
               /\ versions'[r] = versions[r]
    PROVE  VersionsAreIntervals' /\ PlannedVersionsFollow'
<1>1. VersionsAreIntervals'
  BY DEF VersionInv, VersionsAreIntervals
<1>2. PlannedVersionsFollow'
  <2>. SUFFICES ASSUME NEW r \in Runs, pc'[r] = "insert", NEW c \in OkCalls(r)'
                PROVE  /\ versions'[r][c] \in Nat \ {0}
                       /\ \/ versions'[r][c] = 1
                          \/ versions'[r][c] - 1 \in VersionsOf(transcriptions, c)'
    BY DEF PlannedVersionsFollow
  <2>1. c \in OkCalls(r)
    BY DEF OkCalls, OkPositions, Positions
  <2>2. c \in Calls
    BY <2>1, ResultCalls DEF OkCalls, OkPositions, VersionInv
  <2>. QED
    BY <2>1, <2>2 DEF VersionInv, PlannedVersionsFollow
<1>. QED
  BY <1>1, <1>2

LEMMA FetchVersionInv ==
    ASSUME VersionInv, NEW r \in Runs, Fetch(r) PROVE VersionInv'
<1>1. WorkTypes'
  <2>1. PICK P \in Earliest(Candidates, Limit, LAMBDA k : k.started) :
            todo' = [todo EXCEPT ![r] = P]
    BY DEF Fetch
  <2>2. P \subseteq calls
    BY <2>1 DEF Earliest, Candidates, VersionInv, WorkTypes
  <2>. QED
    BY <2>1, <2>2 DEF Fetch, VersionInv, WorkTypes
<1>2. VersionsAreIntervals' /\ PlannedVersionsFollow'
  BY VersionsUntouched DEF Fetch, VersionInv, WorkTypes, VersionsOf, RowsOf
<1>. QED
  BY <1>1, <1>2 DEF VersionInv

LEMMA AnalyseVersionInv ==
    ASSUME VersionInv, NEW r \in Runs, Analyse(r) PROVE VersionInv'
<1>1. WorkTypes'
  <2>1. PICK k \in todo[r] :
            /\ todo' = [todo EXCEPT ![r] = @ \ {k}]
            /\ \E res \in Outcomes(k.call) :
                  buffer' = [buffer EXCEPT ![r] = Append(@, res)]
    BY DEF Analyse
  <2>2. PICK res \in Outcomes(k.call) :
            buffer' = [buffer EXCEPT ![r] = Append(@, res)]
    BY <2>1
  <2>3. k \in SeededCalls
    BY DEF VersionInv, WorkTypes
  <2>4. res \in Result
    BY <2>3, StaticTypes, OutcomesAreResults
  <2>5. Append(buffer[r], res) \in Seq(Result)
    BY <2>4, AppendProperties DEF VersionInv, WorkTypes
  <2>6. buffer' \in [Runs -> Seq(Result)]
    BY <2>2, <2>5 DEF VersionInv, WorkTypes
  <2>7. todo' \in [Runs -> SUBSET calls]
    BY <2>1 DEF VersionInv, WorkTypes
  <2>. QED
    BY <2>6, <2>7 DEF Analyse, VersionInv, WorkTypes
<1>2. VersionsAreIntervals' /\ PlannedVersionsFollow'
  <2>1. \A c \in Calls : VersionsOf(transcriptions, c)'
                            = VersionsOf(transcriptions, c)
    BY DEF Analyse, VersionsOf, RowsOf
  <2>2. \A q \in Runs : pc'[q] = "insert" =>
            pc[q] = "insert" /\ buffer'[q] = buffer[q] /\ versions'[q] = versions[q]
    BY DEF Analyse, VersionInv, WorkTypes
  <2>. QED
    BY <2>1, <2>2, VersionsUntouched
<1>. QED
  BY <1>1, <1>2 DEF VersionInv

\* The answer to max(version) is the first free version of each call.
LEMMA ReadVersionsVersionInv ==
    ASSUME VersionInv, NEW r \in Runs, ReadVersions(r) PROVE VersionInv'
<1>1. \A c \in OkCalls(r) : c \in Calls
  BY ResultCalls DEF OkCalls, OkPositions, VersionInv
<1>2. \A c \in Calls : /\ NextVersion(transcriptions, c) \in Nat \ {0}
                       /\ \/ NextVersion(transcriptions, c) = 1
                          \/ NextVersion(transcriptions, c) - 1
                                \in VersionsOf(transcriptions, c)
  <2>. TAKE c \in Calls
  <2>1. PICK n \in Nat : VersionsOf(transcriptions, c) = 1 .. n
    BY DEF VersionInv, VersionsAreIntervals
  <2>2. NextVersion(transcriptions, c) = n + 1
    BY <2>1, NextVersionExtends
  <2>. QED
    BY <2>1, <2>2
<1>3. WorkTypes'
  <2>1. Len(buffer[r]) \in Nat
    BY DEF VersionInv, WorkTypes
  <2>2. [c \in Calls |-> IF c \in OkCalls(r)
                         THEN NextVersion(transcriptions, c) ELSE 0]
            \in [Calls -> Nat]
    BY <1>2
  <2>3. versions' \in [Runs -> [Calls -> Nat]]
    BY <2>2 DEF ReadVersions, VersionInv, WorkTypes
  <2>. QED
    BY <2>1, <2>3 DEF ReadVersions, VersionInv, WorkTypes
<1>4. VersionsAreIntervals'
  BY DEF ReadVersions, VersionInv, VersionsAreIntervals, VersionsOf, RowsOf
<1>5. PlannedVersionsFollow'
  <2>. SUFFICES ASSUME NEW q \in Runs, pc'[q] = "insert", NEW c \in OkCalls(q)'
                PROVE  /\ versions'[q][c] \in Nat \ {0}
                       /\ \/ versions'[q][c] = 1
                          \/ versions'[q][c] - 1 \in VersionsOf(transcriptions, c)'
    BY DEF PlannedVersionsFollow
  <2>1. c \in OkCalls(q)
    BY DEF OkCalls, OkPositions, Positions, ReadVersions
  <2>2. VersionsOf(transcriptions, c)' = VersionsOf(transcriptions, c)
    BY DEF ReadVersions, VersionsOf, RowsOf
  <2>3. CASE q = r
    <3>1. versions'[r][c] = NextVersion(transcriptions, c)
      BY <1>1, <2>1, <2>3 DEF ReadVersions, VersionInv, WorkTypes
    <3>. QED
      BY <1>1, <1>2, <2>1, <2>2, <2>3, <3>1
  <2>4. CASE q # r
    <3>1. pc[q] = "insert" /\ versions'[q] = versions[q]
      BY <2>4 DEF ReadVersions, VersionInv, WorkTypes
    <3>. QED
      BY <2>1, <2>2, <3>1 DEF VersionInv, PlannedVersionsFollow
  <2>. QED
    BY <2>3, <2>4
<1>. QED
  BY <1>3, <1>4, <1>5 DEF VersionInv

\* The rows of a chunk extend each interval by at most one: a version that was
\* overtaken since it was read repeats a version, and leaves no gap.
LEMMA InsertVersionInv ==
    ASSUME VersionInv, NEW r \in Runs, Insert(r) PROVE VersionInv'
<1>0. pc[r] = "insert" /\ transcriptions' = transcriptions \cup NewRows(r)
  BY DEF Insert
<1>1. WorkTypes'
  <2>1. transcriptions' \subseteq TranscriptRow
    BY <1>0, NewRowsType DEF VersionInv, WorkTypes
  <2>. QED
    BY <2>1 DEF Insert, VersionInv, WorkTypes
<1>2. ASSUME NEW c \in Calls
      PROVE  VersionsOf(transcriptions, c)'
                 = VersionsOf(transcriptions, c)
                     \cup (IF c \in OkCalls(r) THEN {versions[r][c]} ELSE {})
  <2>1. {t.version : t \in RowsOf(NewRows(r), c)}
            = IF c \in OkCalls(r) THEN {versions[r][c]} ELSE {}
    <3>1. \A t \in RowsOf(NewRows(r), c) : c \in OkCalls(r)
                                               /\ t.version = versions[r][c]
      BY DEF RowsOf, NewRows, OkCalls
    <3>2. ASSUME c \in OkCalls(r) PROVE \E t \in RowsOf(NewRows(r), c) : TRUE
      <4>1. PICK i \in OkPositions(r) : c = buffer[r][i].call
        BY <3>2 DEF OkCalls
      <4>. DEFINE t == [id |-> base[r] + i,
                        call |-> buffer[r][i].call,
                        version |-> versions[r][buffer[r][i].call],
                        current |-> TRUE]
      <4>2. t \in NewRows(r)
        BY DEF NewRows
      <4>3. t.call = c
        BY <4>1
      <4>. QED
        BY <4>2, <4>3 DEF RowsOf
    <3>. QED
      BY <3>1, <3>2
  <2>2. RowsOf(transcriptions, c)'
            = RowsOf(transcriptions, c) \cup RowsOf(NewRows(r), c)
    BY <1>0 DEF RowsOf
  <2>. QED
    BY <2>1, <2>2 DEF VersionsOf
<1>3. VersionsAreIntervals'
  <2>. SUFFICES ASSUME NEW c \in Calls
                PROVE  \E m \in Nat : VersionsOf(transcriptions, c)' = 1 .. m
    BY DEF VersionsAreIntervals
  <2>1. PICK n \in Nat : VersionsOf(transcriptions, c) = 1 .. n
    BY DEF VersionInv, VersionsAreIntervals
  <2>2. CASE c \notin OkCalls(r)
    BY <1>2, <2>1, <2>2
  <2>3. CASE c \in OkCalls(r)
    <3>. DEFINE v == versions[r][c]
    <3>1. v \in Nat \ {0} /\ (v = 1 \/ v - 1 \in 1 .. n)
      BY <1>0, <2>1, <2>3 DEF VersionInv, PlannedVersionsFollow
    <3>2. VersionsOf(transcriptions, c)' = (1 .. n) \cup {v}
      BY <1>2, <2>1, <2>3
    <3>. HIDE DEF v
    <3>3. v \in 1 .. n \/ v = n + 1
      BY <3>1
    <3>4. (1 .. n) \cup {v} = 1 .. n \/ (1 .. n) \cup {v} = 1 .. (n + 1)
      BY <3>3
    <3>. QED
      BY <3>2, <3>4
  <2>. QED
    BY <2>2, <2>3
<1>4. PlannedVersionsFollow'
  <2>. SUFFICES ASSUME NEW q \in Runs, pc'[q] = "insert", NEW c \in OkCalls(q)'
                PROVE  /\ versions'[q][c] \in Nat \ {0}
                       /\ \/ versions'[q][c] = 1
                          \/ versions'[q][c] - 1 \in VersionsOf(transcriptions, c)'
    BY DEF PlannedVersionsFollow
  <2>1. c \in OkCalls(q) /\ versions' = versions
    BY DEF OkCalls, OkPositions, Positions, Insert
  <2>2. c \in Calls
    BY <2>1, ResultCalls DEF OkCalls, OkPositions, VersionInv
  <2>3. pc[q] = "insert"
    BY DEF Insert, VersionInv, WorkTypes
  <2>. QED
    BY <1>2, <2>1, <2>2, <2>3 DEF VersionInv, PlannedVersionsFollow
<1>. QED
  BY <1>1, <1>3, <1>4 DEF VersionInv

LEMMA JournalVersionInv ==
    ASSUME VersionInv, NEW r \in Runs, Journal(r) PROVE VersionInv'
<1>1. WorkTypes'
  <2>2. CASE OkPositions(r) = {}
    BY <2>2, ChunkDoneType DEF Journal, VersionInv, WorkTypes
  <2>3. CASE OkPositions(r) # {}
    BY <2>3 DEF Journal, VersionInv, WorkTypes
  <2>. QED
    BY <2>2, <2>3
<1>2. VersionsAreIntervals' /\ PlannedVersionsFollow'
  <2>1. \A c \in Calls : VersionsOf(transcriptions, c)'
                            = VersionsOf(transcriptions, c)
    BY DEF Journal, VersionsOf, RowsOf
  <2>2. \A q \in Runs : pc'[q] = "insert" =>
            pc[q] = "insert" /\ buffer'[q] = buffer[q] /\ versions'[q] = versions[q]
    BY DEF Journal, ChunkDone, VersionInv, WorkTypes
  <2>. QED
    BY <2>1, <2>2, VersionsUntouched
<1>. QED
  BY <1>1, <1>2 DEF VersionInv

LEMMA TranscriptRowFields ==
    ASSUME NEW t \in TranscriptRow
    PROVE  {"id", "call", "version", "current"} \subseteq DOMAIN t
BY DEF TranscriptRow

LEMMA DemoteVersionInv ==
    ASSUME VersionInv, NEW r \in Runs, Demote(r) PROVE VersionInv'
<1>0. transcriptions \subseteq TranscriptRow
  BY DEF VersionInv, WorkTypes
<1>1. WorkTypes'
  <2>1. transcriptions' \subseteq TranscriptRow
    BY <1>0, DemotedType DEF Demote
  <2>. QED
    BY <2>1, ChunkDoneType DEF Demote, VersionInv, WorkTypes
<1>2. VersionsAreIntervals' /\ PlannedVersionsFollow'
  <2>1. \A c \in Calls : VersionsOf(transcriptions, c)'
                            = VersionsOf(transcriptions, c)
    <3>. TAKE c \in Calls
    <3>1. VersionsOf(transcriptions, c)' = VersionsOf(transcriptions', c)
      BY DEF VersionsOf, RowsOf
    <3>. QED
      BY <1>0, <3>1, TranscriptRowFields, DemotedKeepsVersions DEF Demote
  <2>2. \A q \in Runs : pc'[q] = "insert" =>
            pc[q] = "insert" /\ buffer'[q] = buffer[q] /\ versions'[q] = versions[q]
    BY DEF Demote, ChunkDone, VersionInv, WorkTypes
  <2>. QED
    BY <2>1, <2>2, VersionsUntouched
<1>. QED
  BY <1>1, <1>2 DEF VersionInv

LEMMA CrashVersionInv ==
    ASSUME VersionInv, NEW r \in Runs, Crash(r) PROVE VersionInv'
<1>1. WorkTypes'
  BY StaticTypes DEF Crash, tables, VersionInv, WorkTypes
<1>2. VersionsAreIntervals' /\ PlannedVersionsFollow'
  <2>1. \A c \in Calls : VersionsOf(transcriptions, c)'
                            = VersionsOf(transcriptions, c)
    BY DEF Crash, tables, VersionsOf, RowsOf
  <2>2. \A q \in Runs : pc'[q] = "insert" =>
            pc[q] = "insert" /\ buffer'[q] = buffer[q] /\ versions'[q] = versions[q]
    BY DEF Crash, VersionInv, WorkTypes
  <2>. QED
    BY <2>1, <2>2, VersionsUntouched
<1>. QED
  BY <1>1, <1>2 DEF VersionInv

\* VersionInv is inductive.
LEMMA NextVersionInv == VersionInv /\ [Next]_vars => VersionInv'
<1>. SUFFICES ASSUME VersionInv, [Next]_vars PROVE VersionInv'
  OBVIOUS
<1>1. CASE Next
  <2>1. PICK r \in Runs : Fetch(r) \/ Step(r) \/ Crash(r)
    BY <1>1 DEF Next
  <2>. QED
    BY <2>1, FetchVersionInv, AnalyseVersionInv, ReadVersionsVersionInv,
       InsertVersionInv, JournalVersionInv, DemoteVersionInv, CrashVersionInv
       DEF Step
<1>2. CASE UNCHANGED vars
  <2>1. WorkTypes'
    BY <1>2 DEF vars, VersionInv, WorkTypes
  <2>2. VersionsAreIntervals' /\ PlannedVersionsFollow'
    BY <1>2, VersionsUntouched DEF vars, VersionsOf, RowsOf
  <2>. QED
    BY <2>1, <2>2 DEF VersionInv
<1>. QED
  BY <1>1, <1>2

\* The journal and the counters keep their types.
LEMMA NextTypeOK == VersionInv /\ TypeOK /\ [Next]_vars => TypeOK'
<1>. SUFFICES ASSUME VersionInv, TypeOK, [Next]_vars PROVE TypeOK'
  OBVIOUS
<1>1. WorkTypes'
  BY NextVersionInv DEF VersionInv
<1>2. CASE UNCHANGED vars
  BY <1>1, <1>2 DEF vars, TypeOK
<1>3. ASSUME NEW r \in Runs, Fetch(r) \/ Step(r) \/ Crash(r) PROVE TypeOK'
  <2>1. JournalRows(r) \subseteq JournalRow
    BY JournalRowsType DEF VersionInv
  <2>2. llm_calls' \subseteq JournalRow
    <3>1. llm_calls' = llm_calls \/ llm_calls' = llm_calls \cup JournalRows(r)
      BY <1>3 DEF Step, Fetch, Analyse, ReadVersions, Insert, Journal, Demote,
                  Crash, tables
    <3>. QED
      BY <2>1, <3>1 DEF TypeOK
  <2>3. starts' \in Nat /\ crashes' \in Nat
    <3>1. starts' \in {starts, starts + 1} /\ crashes' \in {crashes, crashes + 1}
      BY <1>3 DEF Step, Fetch, Analyse, ReadVersions, Insert, Journal, Demote,
                  Crash
    <3>. QED
      BY <3>1 DEF TypeOK
  <2>. QED
    BY <1>1, <2>2, <2>3 DEF TypeOK
<1>. QED
  BY <1>2, <1>3 DEF Next

\* Every state of TranscriptionFlow is well typed.
THEOREM TypeCorrect == Spec => []TypeOK
<1>1. Init => TypeOK
  BY InitVersionInv DEF VersionInv, TypeOK, Init, InitRuns
<1>. QED
  BY <1>1, InitVersionInv, NextVersionInv, NextTypeOK, PTL DEF Spec

\* What every theorem of this module starts from.
LEMMA VersionsInvariant == Spec => []VersionInv
BY InitVersionInv, NextVersionInv, PTL DEF Spec

LEMMA VersionInvContiguous == VersionInv => VersionsContiguous
BY ContiguousIffInterval DEF VersionInv, VersionsAreIntervals, VersionsContiguous

\* The versions of a call's transcripts have no gap, whatever runs overlap and
\* wherever they die (next_versions_for_calls and the statements around it).
THEOREM VersionsStayContiguous == Spec => []VersionsContiguous
BY InitVersionInv, NextVersionInv, VersionInvContiguous, PTL DEF Spec

-----------------------------------------------------------------------------
\* What a step may do to a row that is there: keep it, or clear its flag.
KeptOrDemoted(t) ==
    \/ t \in transcriptions'
    \/ t.current /\ [t EXCEPT !.current = FALSE] \in transcriptions'

LEMMA StepKeepsOrDemotes ==
    ASSUME [Next]_vars, NEW t \in transcriptions PROVE KeptOrDemoted(t)
<1>1. CASE \E r \in Runs : Demote(r)
  <2>1. PICK r \in Runs : transcriptions' = Demoted(transcriptions,
                              transcriptions, OkCalls(r), RowIds(r))
    BY <1>1 DEF Demote
  <2>. QED
    BY <2>1 DEF Demoted, KeptOrDemoted
<1>2. CASE transcriptions \subseteq transcriptions'
  BY <1>2 DEF KeptOrDemoted
<1>. QED
  BY <1>1, <1>2
     DEF Next, Step, Fetch, Analyse, ReadVersions, Insert, Journal, Crash,
         tables, vars

\* Committed transcripts are never rewritten: is_current is the only column that
\* ever changes, and only from true to false.
THEOREM RowsOnlyDemoted == Spec => OnlyDemotes
<1>1. [Next]_vars =>
          [\A t \in transcriptions :
              \/ t \in transcriptions'
              \/ t.current /\ [t EXCEPT !.current = FALSE] \in transcriptions']_vars
  BY StepKeepsOrDemotes DEF KeptOrDemoted
<1>. QED
  BY <1>1, PTL DEF Spec, OnlyDemotes

-----------------------------------------------------------------------------
\* A run past its insert has the rows of its chunk in the table, current or not.
CommittedRows ==
    \A r \in Runs : pc[r] \in {"journal", "demote"} =>
        \A i \in OkPositions(r) : \E t \in transcriptions :
            t.id = base[r] + i /\ t.call = buffer[r][i].call

\* A run past its journal has, for each call it transcribed, a journal row that
\* names one of the chunk's transcripts of that call.
JournalledChunks ==
    \A r \in Runs : pc[r] = "demote" =>
        \A i \in OkPositions(r) : \E p \in OkPositions(r), j \in llm_calls :
            /\ buffer[r][p].call = buffer[r][i].call
            /\ j.artifact = base[r] + p

JournalInv ==
    WorkTypes /\ CommittedRows /\ JournalledChunks /\ JournalRefersToArtifact

\* The identity of a row survives every step.
LEMMA StepKeepsIdentity ==
    ASSUME WorkTypes, [Next]_vars, NEW t \in transcriptions
    PROVE  \E u \in transcriptions' : u.id = t.id /\ u.call = t.call
<1>1. t \in TranscriptRow
  BY DEF WorkTypes
<1>2. CASE t \in transcriptions'
  BY <1>2
<1>3. CASE [t EXCEPT !.current = FALSE] \in transcriptions'
  BY <1>1, <1>3 DEF TranscriptRow
<1>. QED
  BY <1>2, <1>3, StepKeepsOrDemotes DEF KeptOrDemoted

\* The artifact a result's journal rows name.
LEMMA ArtifactOfResult ==
    ASSUME WorkTypes, NEW r \in Runs, NEW i \in Positions(r)
    PROVE  \/ /\ \A p \in OkPositions(r) : buffer[r][p].call # buffer[r][i].call
              /\ ArtifactOf(r, i) = NoArtifact
           \/ \E p \in OkPositions(r) : /\ buffer[r][p].call = buffer[r][i].call
                                        /\ ArtifactOf(r, i) = base[r] + p
<1>. DEFINE own == {p \in OkPositions(r) : buffer[r][p].call = buffer[r][i].call}
<1>1. ArtifactOf(r, i) = IF own = {} THEN NoArtifact ELSE base[r] + Min(own)
  BY DEF ArtifactOf
<1>2. own \in SUBSET Nat
  BY ResultCalls DEF OkPositions
<1>3. own # {} => Min(own) \in own
  BY <1>2, MinOfNaturals
<1>. QED
  BY <1>1, <1>3

\* Every result has a journal row.
LEMMA ResultJournalled ==
    ASSUME WorkTypes, NEW r \in Runs, NEW i \in Positions(r)
    PROVE  \E j \in JournalRows(r) : j.artifact = ArtifactOf(r, i)
<1>1. buffer[r][i] \in Result
  BY ResultCalls
<1>2. PICK s : s \in StampsOf(buffer[r][i])
  BY <1>1 DEF StampsOf, Result
<1>. DEFINE j == [attempt |-> base[r] + i,
                  stamp |-> s,
                  call |-> buffer[r][i].call,
                  kind |-> ArtifactType,
                  status |-> IF buffer[r][i].ok THEN "ok" ELSE "failed",
                  artifact |-> ArtifactOf(r, i)]
<1>3. j \in JournalRowsOf(r, i)
  BY <1>2 DEF JournalRowsOf
<1>4. j \in JournalRows(r)
  BY <1>3 DEF JournalRows
<1>5. j.artifact = ArtifactOf(r, i)
  OBVIOUS
<1>. QED
  BY <1>4, <1>5

\* A step of another run, or one that leaves a run's chunk and phase alone, keeps
\* what is known about the chunk.
LEMMA ChunksUntouched ==
    ASSUME JournalInv, [Next]_vars, NEW q \in Runs,
           pc'[q] = pc[q], buffer'[q] = buffer[q], base'[q] = base[q]
    PROVE  /\ pc'[q] \in {"journal", "demote"} =>
                \A i \in OkPositions(q)' : \E t \in transcriptions' :
                    t.id = base'[q] + i /\ t.call = buffer'[q][i].call
           /\ pc'[q] = "demote" =>
                \A i \in OkPositions(q)' :
                    \E p \in OkPositions(q)', j \in llm_calls' :
                        /\ buffer'[q][p].call = buffer'[q][i].call
                        /\ j.artifact = base'[q] + p
<1>1. OkPositions(q)' = OkPositions(q)
  BY DEF OkPositions, Positions
<1>2. llm_calls \subseteq llm_calls'
  BY DEF Next, Step, Fetch, Analyse, ReadVersions, Insert, Journal, Demote,
         Crash, tables, vars
<1>3. ASSUME pc'[q] \in {"journal", "demote"}, NEW i \in OkPositions(q)
      PROVE  \E t \in transcriptions' :
                 t.id = base'[q] + i /\ t.call = buffer'[q][i].call
  <2>1. PICK t \in transcriptions :
            t.id = base[q] + i /\ t.call = buffer[q][i].call
    BY <1>3 DEF JournalInv, CommittedRows
  <2>. QED
    BY <2>1, StepKeepsIdentity DEF JournalInv
<1>4. ASSUME pc'[q] = "demote", NEW i \in OkPositions(q)
      PROVE  \E p \in OkPositions(q), j \in llm_calls' :
                 /\ buffer'[q][p].call = buffer'[q][i].call
                 /\ j.artifact = base'[q] + p
  BY <1>2, <1>4 DEF JournalInv, JournalledChunks
<1>. QED
  BY <1>1, <1>3, <1>4

\* A run that is not past its insert has nothing to be known.
LEMMA ChunkTrivial ==
    ASSUME NEW q \in Runs,
           pc'[q] \notin {"journal", "demote"} \/ OkPositions(q)' = {}
    PROVE  /\ pc'[q] \in {"journal", "demote"} =>
                \A i \in OkPositions(q)' : \E t \in transcriptions' :
                    t.id = base'[q] + i /\ t.call = buffer'[q][i].call
           /\ pc'[q] = "demote" =>
                \A i \in OkPositions(q)' :
                    \E p \in OkPositions(q)', j \in llm_calls' :
                        /\ buffer'[q][p].call = buffer'[q][i].call
                        /\ j.artifact = base'[q] + p
OBVIOUS

LEMMA StepKeepsChunks ==
    ASSUME JournalInv, [Next]_vars
    PROVE  CommittedRows' /\ JournalledChunks'
<1>. SUFFICES ASSUME NEW q \in Runs
     PROVE  /\ pc'[q] \in {"journal", "demote"} =>
                 \A i \in OkPositions(q)' : \E t \in transcriptions' :
                     t.id = base'[q] + i /\ t.call = buffer'[q][i].call
            /\ pc'[q] = "demote" =>
                 \A i \in OkPositions(q)' :
                     \E p \in OkPositions(q)', j \in llm_calls' :
                         /\ buffer'[q][p].call = buffer'[q][i].call
                         /\ j.artifact = base'[q] + p
  BY DEF CommittedRows, JournalledChunks
<1>0. WorkTypes
  BY DEF JournalInv
<1>1. CASE pc'[q] = pc[q] /\ buffer'[q] = buffer[q] /\ base'[q] = base[q]
  BY <1>1, ChunksUntouched
<1>2. CASE Fetch(q) \/ Analyse(q) \/ Demote(q) \/ Crash(q)
  <2>1. pc'[q] \notin {"journal", "demote"}
    BY <1>0, <1>2 DEF Fetch, Analyse, Demote, Crash, ChunkDone, WorkTypes
  <2>. QED
    BY <2>1, ChunkTrivial
<1>3. CASE ReadVersions(q)
  <2>1. pc'[q] = "insert" \/ OkPositions(q) = {}
    BY <1>0, <1>3 DEF ReadVersions, WorkTypes
  <2>2. OkPositions(q)' = OkPositions(q)
    BY <1>3 DEF ReadVersions, OkPositions, Positions
  <2>. QED
    BY <2>1, <2>2, ChunkTrivial
<1>4. CASE Insert(q)
  <2>1. pc'[q] = "journal" /\ buffer' = buffer /\ base' = base
    BY <1>0, <1>4 DEF Insert, WorkTypes
  <2>2. OkPositions(q)' = OkPositions(q)
    BY <2>1 DEF OkPositions, Positions
  <2>3. ASSUME NEW i \in OkPositions(q)
        PROVE  \E t \in transcriptions' :
                   t.id = base'[q] + i /\ t.call = buffer'[q][i].call
    <3>. DEFINE t == [id |-> base[q] + i,
                      call |-> buffer[q][i].call,
                      version |-> versions[q][buffer[q][i].call],
                      current |-> TRUE]
    <3>1. t \in transcriptions'
      BY <1>4 DEF Insert, NewRows
    <3>. QED
      BY <2>1, <3>1
  <2>. QED
    BY <2>1, <2>2, <2>3
<1>5. CASE Journal(q)
  <2>1. CASE OkPositions(q) = {}
    <3>1. pc'[q] \notin {"journal", "demote"}
      BY <1>0, <1>5, <2>1 DEF Journal, ChunkDone, WorkTypes
    <3>. QED
      BY <3>1, ChunkTrivial
  <2>2. CASE OkPositions(q) # {}
    <3>1. /\ pc[q] = "journal" /\ pc'[q] = "demote"
          /\ buffer' = buffer /\ base' = base
          /\ transcriptions' = transcriptions
          /\ JournalRows(q) \subseteq llm_calls'
      BY <1>0, <1>5, <2>2 DEF Journal, WorkTypes
    <3>2. OkPositions(q)' = OkPositions(q)
      BY <3>1 DEF OkPositions, Positions
    <3>3. ASSUME NEW i \in OkPositions(q)
          PROVE  \E p \in OkPositions(q), j \in llm_calls' :
                     /\ buffer'[q][p].call = buffer'[q][i].call
                     /\ j.artifact = base'[q] + p
      <4>1. i \in Positions(q)
        BY DEF OkPositions
      <4>2. PICK p \in OkPositions(q) : /\ buffer[q][p].call = buffer[q][i].call
                                        /\ ArtifactOf(q, i) = base[q] + p
        BY <1>0, <4>1, ArtifactOfResult
      <4>3. PICK j \in JournalRows(q) : j.artifact = ArtifactOf(q, i)
        BY <1>0, <4>1, ResultJournalled
      <4>. QED
        BY <3>1, <4>2, <4>3
    <3>. QED
      BY <3>1, <3>2, <3>3 DEF JournalInv, CommittedRows
  <2>. QED
    BY <2>1, <2>2
<1>6. CASE \E r \in Runs \ {q} : Fetch(r) \/ Step(r) \/ Crash(r)
  <2>1. PICK r \in Runs \ {q} : Fetch(r) \/ Step(r) \/ Crash(r)
    BY <1>6
  <2>2. pc'[q] = pc[q] /\ buffer'[q] = buffer[q] /\ base'[q] = base[q]
    BY <1>0, <2>1 DEF Step, Fetch, Analyse, ReadVersions, Insert, Journal,
                      Demote, Crash, ChunkDone, WorkTypes
  <2>. QED
    BY <2>2, ChunksUntouched
<1>7. CASE UNCHANGED vars
  BY <1>7, ChunksUntouched DEF vars
<1>. QED
  BY <1>2, <1>3, <1>4, <1>5, <1>6, <1>7 DEF Next, Step

\* What every journal row has to satisfy.
Refers(j) ==
    (j.status = "ok" \/ j.artifact # NoArtifact)
        => \E t \in transcriptions : t.id = j.artifact /\ t.call = j.call

\* The rows of a chunk's journal name what the chunk committed.
LEMMA JournalRowsRefer ==
    ASSUME JournalInv, NEW r \in Runs, pc[r] = "journal", NEW j \in JournalRows(r)
    PROVE  Refers(j)
<1>0. WorkTypes
  BY DEF JournalInv
<1>1. PICK i \in Positions(r) : j \in JournalRowsOf(r, i)
  BY DEF JournalRows
<1>2. /\ j.call = buffer[r][i].call
      /\ j.status = IF buffer[r][i].ok THEN "ok" ELSE "failed"
      /\ j.artifact = ArtifactOf(r, i)
  BY <1>1 DEF JournalRowsOf
<1>3. CASE \E p \in OkPositions(r) : /\ buffer[r][p].call = buffer[r][i].call
                                     /\ ArtifactOf(r, i) = base[r] + p
  <2>1. PICK p \in OkPositions(r) : /\ buffer[r][p].call = buffer[r][i].call
                                    /\ ArtifactOf(r, i) = base[r] + p
    BY <1>3
  <2>2. PICK t \in transcriptions :
            t.id = base[r] + p /\ t.call = buffer[r][p].call
    BY DEF JournalInv, CommittedRows
  <2>. QED
    BY <1>2, <2>1, <2>2 DEF Refers
<1>4. CASE /\ \A p \in OkPositions(r) : buffer[r][p].call # buffer[r][i].call
           /\ ArtifactOf(r, i) = NoArtifact
  <2>1. ~ buffer[r][i].ok
    BY <1>4 DEF OkPositions
  <2>. QED
    BY <1>2, <1>4, <2>1 DEF Refers
<1>. QED
  BY <1>0, <1>3, <1>4, ArtifactOfResult

LEMMA StepKeepsReferences ==
    ASSUME JournalInv, [Next]_vars PROVE JournalRefersToArtifact'
<1>0. WorkTypes
  BY DEF JournalInv
<1>1. ASSUME NEW j \in llm_calls' PROVE Refers(j)
  <2>1. CASE j \in llm_calls
    BY <2>1 DEF JournalInv, JournalRefersToArtifact, Refers
  <2>2. CASE j \notin llm_calls
    <3>1. PICK r \in Runs : Journal(r)
      BY <2>2 DEF Next, Step, Fetch, Analyse, ReadVersions, Insert, Demote,
                  Crash, tables, vars
    <3>2. j \in JournalRows(r) /\ pc[r] = "journal"
      BY <2>2, <3>1 DEF Journal
    <3>. QED
      BY <3>2, JournalRowsRefer
  <2>. QED
    BY <2>1, <2>2
<1>2. ASSUME NEW j \in llm_calls', j.status = "ok" \/ j.artifact # NoArtifact
      PROVE  \E u \in transcriptions' : u.id = j.artifact /\ u.call = j.call
  <2>1. PICK t \in transcriptions : t.id = j.artifact /\ t.call = j.call
    BY <1>1, <1>2 DEF Refers
  <2>. QED
    BY <1>0, <2>1, StepKeepsIdentity
<1>. QED
  BY <1>2 DEF JournalRefersToArtifact

LEMMA InitJournalInv == Init => JournalInv
<1>. SUFFICES ASSUME Init PROVE JournalInv
  OBVIOUS
<1>1. WorkTypes
  BY InitVersionInv DEF VersionInv
<1>2. CommittedRows /\ JournalledChunks /\ JournalRefersToArtifact
  BY DEF Init, InitRuns, CommittedRows, JournalledChunks, JournalRefersToArtifact
<1>. QED
  BY <1>1, <1>2 DEF JournalInv

\* Every journal row that claims an artifact claims one that is in the table and
\* belongs to the row's call, whatever runs overlap and wherever they die.
THEOREM JournalStaysTrue == Spec => []JournalRefersToArtifact
<1>1. JournalInv => JournalRefersToArtifact
  BY DEF JournalInv
<1>2. JournalInv /\ VersionInv' /\ [Next]_vars => JournalInv'
  BY StepKeepsChunks, StepKeepsReferences DEF JournalInv, VersionInv
<1>. QED
  BY <1>1, <1>2, InitJournalInv, VersionsInvariant, PTL DEF Spec

-----------------------------------------------------------------------------
\* A row that a demote clears has a replacement that is committed and journalled.
LEMMA DemoteHasReplacement ==
    ASSUME JournalInv, [Next]_vars,
           NEW t \in transcriptions, t.current, t \notin transcriptions'
    PROVE  \E u \in transcriptions : /\ u.call = t.call
                                     /\ u.id # t.id
                                     /\ \E j \in llm_calls : j.artifact = u.id
<1>1. PICK r \in Runs : Demote(r)
  BY DEF Next, Step, Fetch, Analyse, ReadVersions, Insert, Journal, Crash,
         tables, vars
<1>2. /\ pc[r] = "demote"
      /\ transcriptions' = Demoted(transcriptions, transcriptions, OkCalls(r),
                                   RowIds(r))
  BY <1>1 DEF Demote
<1>3. t.call \in OkCalls(r) /\ t.id \notin RowIds(r)
  <2>. SUFFICES ASSUME ~ (t.call \in OkCalls(r) /\ t.id \notin RowIds(r))
                PROVE  t \in transcriptions'
    OBVIOUS
  <2>. QED
    BY <1>2 DEF Demoted
<1>4. PICK i \in OkPositions(r) : t.call = buffer[r][i].call
  BY <1>3 DEF OkCalls
<1>5. PICK p \in OkPositions(r), j \in llm_calls :
          buffer[r][p].call = buffer[r][i].call /\ j.artifact = base[r] + p
  BY <1>2 DEF JournalInv, JournalledChunks
<1>6. PICK u \in transcriptions :
          u.id = base[r] + p /\ u.call = buffer[r][p].call
  BY <1>2 DEF JournalInv, CommittedRows
<1>7. u.id \in RowIds(r)
  BY <1>6 DEF RowIds
<1>. QED
  BY <1>3, <1>4, <1>5, <1>6, <1>7

\* No transcript loses is_current before a different transcript of its call is
\* committed and journalled: the order of the statements in _persist.
THEOREM DemotedInFavour == Spec => DemotedOnlyWhenReplaced
<1>1. JournalInv /\ [Next]_vars =>
          [\A t \in transcriptions :
              (t.current /\ t \notin transcriptions')
                  => \E u \in transcriptions :
                        /\ u.call = t.call
                        /\ u.id # t.id
                        /\ \E j \in llm_calls : j.artifact = u.id]_vars
  BY DemoteHasReplacement
<1>2. JournalInv /\ VersionInv' /\ [Next]_vars => JournalInv'
  BY StepKeepsChunks, StepKeepsReferences DEF JournalInv, VersionInv
<1>. QED
  BY <1>1, <1>2, InitJournalInv, VersionsInvariant, PTL
     DEF Spec, DemotedOnlyWhenReplaced

-----------------------------------------------------------------------------
(***************************************************************************)
(* What a run holds.  The rest of this module is about runs that do not    *)
(* transcribe one call twice in a chunk: that takes a call to have one row *)
(* in analysis.calls, which the seeder sees to as long as seeds do not     *)
(* overlap (AnalysisPipelineProofs).                                       *)
(***************************************************************************)
OneRowEach == \A k, l \in calls : k.call = l.call => k = l

\* A run that is not in flight holds nothing; a chunk never outgrows ChunkSize;
\* and the calls of a run's results and of its remaining candidates all differ.
HoldsWork(r) ==
    /\ pc[r] = "idle" => todo[r] = {} /\ buffer[r] = <<>>
    /\ Len(buffer[r]) <= ChunkSize
    /\ pc[r] = "analyse" => Len(buffer[r]) < ChunkSize
    /\ \A i, j \in Positions(r) : buffer[r][i].call = buffer[r][j].call => i = j
    /\ \A k \in todo[r], i \in Positions(r) : k.call # buffer[r][i].call

\* What the other programs of the stand may do between two steps of the flow:
\* record calls and take identifiers.
Neighbour ==
    /\ calls \subseteq calls' /\ calls' \subseteq SeededCalls
    /\ minted' \in Nat /\ minted <= minted'
    /\ UNCHANGED <<transcriptions, pc, todo, buffer, base, versions>>

WorkInv == WorkTypes /\ OneRowEach /\ \A r \in Runs : HoldsWork(r)

\* A step of one run leaves what the others hold alone.
LEMMA OthersUntouched ==
    ASSUME WorkTypes, NEW r \in Runs, NEW q \in Runs, q # r,
           Fetch(q) \/ Step(q) \/ Crash(q)
    PROVE  /\ pc'[r] = pc[r]
           /\ todo'[r] = todo[r]
           /\ buffer'[r] = buffer[r]
           /\ base'[r] = base[r]
           /\ versions'[r] = versions[r]
<1>1. CASE Fetch(q)
  BY <1>1 DEF Fetch, WorkTypes
<1>2. CASE Analyse(q)
  BY <1>2 DEF Analyse, WorkTypes
<1>3. CASE ReadVersions(q)
  BY <1>3 DEF ReadVersions, WorkTypes
<1>4. CASE Insert(q)
  BY <1>4 DEF Insert, WorkTypes
<1>5. CASE Journal(q)
  BY <1>5 DEF Journal, ChunkDone, WorkTypes
<1>6. CASE Demote(q)
  BY <1>6 DEF Demote, ChunkDone, WorkTypes
<1>7. CASE Crash(q)
  BY <1>7 DEF Crash, WorkTypes
<1>. QED
  BY <1>1, <1>2, <1>3, <1>4, <1>5, <1>6, <1>7 DEF Step

\* What Analyse does to the run that takes it.
LEMMA AnalyseOf ==
    ASSUME WorkTypes, NEW r \in Runs, Analyse(r)
    PROVE  \E k \in todo[r], res \in Result :
              /\ res.call = k.call
              /\ res.ok \/ res.stamps = 0
              /\ todo'[r] = todo[r] \ {k}
              /\ buffer'[r] = Append(buffer[r], res)
              /\ Len(buffer'[r]) = Len(buffer[r]) + 1
              /\ buffer'[r][Len(buffer[r]) + 1] = res
              /\ \A i \in Positions(r) : buffer'[r][i] = buffer[r][i]
              /\ Positions(r) = 1 .. Len(buffer[r])
              /\ Positions(r)' = 1 .. (Len(buffer[r]) + 1)
              /\ pc'[r] = IF Len(buffer[r]) + 1 >= ChunkSize \/ todo'[r] = {}
                          THEN "versions" ELSE "analyse"
<1>1. PICK k \in todo[r] :
          /\ todo' = [todo EXCEPT ![r] = @ \ {k}]
          /\ \E res \in Outcomes(k.call) :
                buffer' = [buffer EXCEPT ![r] = Append(@, res)]
  BY DEF Analyse
<1>2. PICK res \in Outcomes(k.call) :
          buffer' = [buffer EXCEPT ![r] = Append(@, res)]
  BY <1>1
<1>3. k \in SeededCalls
  BY DEF WorkTypes
<1>4. res \in Result
  BY <1>3, StaticTypes, OutcomesAreResults
<1>5. res.call = k.call /\ (res.ok \/ res.stamps = 0)
  BY DEF Outcomes
<1>6. buffer[r] \in Seq(Result) /\ buffer'[r] = Append(buffer[r], res)
  BY <1>2 DEF WorkTypes
<1>7. /\ Len(buffer'[r]) = Len(buffer[r]) + 1
      /\ buffer'[r] \in Seq(Result)
      /\ buffer'[r][Len(buffer[r]) + 1] = res
      /\ \A i \in 1 .. Len(buffer[r]) : buffer'[r][i] = buffer[r][i]
  BY <1>4, <1>6, AppendProperties
<1>8. todo'[r] = todo[r] \ {k}
  BY <1>1 DEF WorkTypes
<1>9. pc'[r] = IF Len(buffer'[r]) >= ChunkSize \/ todo'[r] = {}
               THEN "versions" ELSE "analyse"
  BY DEF Analyse, WorkTypes
<1>. QED
  BY <1>4, <1>5, <1>6, <1>7, <1>8, <1>9 DEF Positions

LEMMA EmptyChunk ==
    ASSUME NEW r \in Runs, buffer[r] = <<>>
    PROVE  Positions(r) = {} /\ OkPositions(r) = {} /\ Len(buffer[r]) = 0
BY DEF OkPositions, Positions

LEMMA StutterIsNeighbour == ASSUME WorkTypes, UNCHANGED vars PROVE Neighbour
BY DEF WorkTypes, vars, Neighbour

LEMMA NeighbourVersionInv ==
    ASSUME VersionInv, Neighbour PROVE VersionInv'
<1>1. WorkTypes'
  BY DEF Neighbour, VersionInv, WorkTypes
<1>2. VersionsAreIntervals' /\ PlannedVersionsFollow'
  BY VersionsUntouched DEF Neighbour, VersionInv, VersionsOf, RowsOf
<1>. QED
  BY <1>1, <1>2 DEF VersionInv

LEMMA StepHoldsWork ==
    ASSUME WorkInv, Next \/ Neighbour, NEW r \in Runs
    PROVE  HoldsWork(r)'
<1>0. WorkTypes /\ HoldsWork(r)
  BY DEF WorkInv
<1>1. CASE Fetch(r)
  <2>1. buffer'[r] = buffer[r] /\ buffer[r] = <<>>
    BY <1>0, <1>1 DEF Fetch, HoldsWork
  <2>2. Positions(r)' = {} /\ Len(buffer'[r]) = 0
    BY <2>1, EmptyChunk DEF Positions
  <2>3. pc'[r] = "analyse"
    BY <1>0, <1>1 DEF Fetch, WorkTypes
  <2>. QED
    BY <2>2, <2>3, ChunkSizeAssumption DEF HoldsWork
<1>2. CASE Analyse(r)
  <2>1. PICK k \in todo[r], res \in Result :
              /\ res.call = k.call
              /\ res.ok \/ res.stamps = 0
              /\ todo'[r] = todo[r] \ {k}
              /\ buffer'[r] = Append(buffer[r], res)
              /\ Len(buffer'[r]) = Len(buffer[r]) + 1
              /\ buffer'[r][Len(buffer[r]) + 1] = res
              /\ \A i \in Positions(r) : buffer'[r][i] = buffer[r][i]
              /\ Positions(r) = 1 .. Len(buffer[r])
              /\ Positions(r)' = 1 .. (Len(buffer[r]) + 1)
              /\ pc'[r] = IF Len(buffer[r]) + 1 >= ChunkSize \/ todo'[r] = {}
                          THEN "versions" ELSE "analyse"
    BY <1>0, <1>2, AnalyseOf
  <2>2. Len(buffer[r]) \in Nat /\ Len(buffer[r]) < ChunkSize
    BY <1>0, <1>2 DEF Analyse, HoldsWork, WorkTypes
  <2>3. \A l \in todo[r] \ {k} : l.call # k.call
    BY DEF WorkInv, OneRowEach, WorkTypes
  <2>. DEFINE n == Len(buffer[r])
  <2>4. \A i \in Positions(r)' : i \in Positions(r) \/ i = n + 1
    BY <2>1, <2>2
  <2>5. \A i \in Positions(r) : buffer'[r][i].call # k.call
    BY <1>0, <2>1 DEF HoldsWork
  <2>6. \A i, j \in Positions(r)' : buffer'[r][i].call = buffer'[r][j].call => i = j
    <3>. TAKE i, j \in Positions(r)'
    <3>1. CASE i \in Positions(r) /\ j \in Positions(r)
      BY <1>0, <2>1, <3>1 DEF HoldsWork
    <3>2. CASE i = n + 1 \/ j = n + 1
      BY <2>1, <2>4, <2>5, <3>2
    <3>. QED
      BY <2>4, <3>1, <3>2
  <2>7. \A l \in todo'[r], i \in Positions(r)' : l.call # buffer'[r][i].call
    <3>. TAKE l \in todo'[r], i \in Positions(r)'
    <3>1. l \in todo[r] \ {k}
      BY <2>1
    <3>2. CASE i \in Positions(r)
      BY <1>0, <2>1, <3>1, <3>2 DEF HoldsWork
    <3>3. CASE i = n + 1
      BY <2>1, <2>3, <3>1, <3>3
    <3>. QED
      BY <2>4, <3>2, <3>3
  <2>8. /\ pc'[r] # "idle"
        /\ Len(buffer'[r]) <= ChunkSize
        /\ pc'[r] = "analyse" => Len(buffer'[r]) < ChunkSize
    BY <2>1, <2>2, ChunkSizeAssumption
  <2>. QED
    BY <2>6, <2>7, <2>8 DEF HoldsWork
<1>3. CASE ReadVersions(r) \/ Insert(r) \/ (Journal(r) /\ OkPositions(r) # {})
  <2>1. /\ pc'[r] \notin {"idle", "analyse"}
        /\ todo'[r] = todo[r] /\ buffer'[r] = buffer[r]
    BY <1>0, <1>3 DEF ReadVersions, Insert, Journal, WorkTypes
  <2>. QED
    BY <1>0, <2>1 DEF HoldsWork, Positions
<1>4. CASE (Journal(r) /\ OkPositions(r) = {}) \/ Demote(r)
  <2>1. /\ pc'[r] = IF todo[r] = {} THEN "idle" ELSE "analyse"
        /\ todo'[r] = todo[r] /\ buffer'[r] = <<>>
    BY <1>0, <1>4 DEF Journal, Demote, ChunkDone, WorkTypes
  <2>2. Positions(r)' = {} /\ Len(buffer'[r]) = 0
    BY <2>1 DEF Positions
  <2>. QED
    BY <2>1, <2>2, ChunkSizeAssumption DEF HoldsWork
<1>5. CASE Crash(r)
  <2>1. pc'[r] = "idle" /\ todo'[r] = {} /\ buffer'[r] = <<>>
    BY <1>0, <1>5 DEF Crash, WorkTypes
  <2>2. Positions(r)' = {} /\ Len(buffer'[r]) = 0
    BY <2>1 DEF Positions
  <2>. QED
    BY <2>1, <2>2, ChunkSizeAssumption DEF HoldsWork
<1>6. CASE \E q \in Runs \ {r} : Fetch(q) \/ Step(q) \/ Crash(q)
  <2>1. pc'[r] = pc[r] /\ todo'[r] = todo[r] /\ buffer'[r] = buffer[r]
    BY <1>0, <1>6, OthersUntouched
  <2>. QED
    BY <1>0, <2>1 DEF HoldsWork, Positions
<1>7. CASE Neighbour
  BY <1>0, <1>7 DEF HoldsWork, Positions, Neighbour
<1>. QED
  BY <1>1, <1>2, <1>3, <1>4, <1>5, <1>6, <1>7 DEF Next, Step

-----------------------------------------------------------------------------
\* Runs that do not overlap.
Serial == \A r, q \in Runs : r = q

\* A run past its insert has the rows of its chunk in the table, current ones.
ChunkCurrent(r) ==
    pc[r] \in {"journal", "demote"} =>
        \A i \in OkPositions(r) : \E t \in transcriptions :
            t.id = base[r] + i /\ t.call = buffer[r][i].call /\ t.current

CurrentInv == WorkTypes /\ KeepsCurrent /\ \A r \in Runs : ChunkCurrent(r)

\* The rows of a chunk are there once it is inserted, one for each success.
LEMMA InsertedRows ==
    ASSUME NEW r \in Runs, Insert(r), NEW i \in OkPositions(r)
    PROVE  \E t \in transcriptions' :
               t.id = base[r] + i /\ t.call = buffer[r][i].call /\ t.current
<1>. DEFINE t == [id |-> base[r] + i,
                  call |-> buffer[r][i].call,
                  version |-> versions[r][buffer[r][i].call],
                  current |-> TRUE]
<1>1. t \in transcriptions'
  BY DEF Insert, NewRows
<1>. QED
  BY <1>1

LEMMA StepChunkCurrent ==
    ASSUME Serial, CurrentInv, Next \/ Neighbour, NEW r \in Runs
    PROVE  ChunkCurrent(r)'
<1>0. WorkTypes /\ ChunkCurrent(r)
  BY DEF CurrentInv
<1>1. CASE Fetch(r) \/ Analyse(r) \/ ReadVersions(r) \/ Demote(r) \/ Crash(r)
  <2>1. pc'[r] \notin {"journal", "demote"} \/ OkPositions(r)' = {}
    BY <1>0, <1>1 DEF Fetch, Analyse, ReadVersions, Demote, ChunkDone, Crash,
                      OkPositions, Positions, WorkTypes
  <2>. QED
    BY <2>1 DEF ChunkCurrent
<1>2. CASE Insert(r)
  <2>1. buffer' = buffer /\ base' = base
    BY <1>2 DEF Insert
  <2>2. OkPositions(r)' = OkPositions(r)
    BY <2>1 DEF OkPositions, Positions
  <2>. QED
    BY <1>2, <2>1, <2>2, InsertedRows DEF ChunkCurrent
<1>3. CASE Journal(r)
  <2>1. CASE OkPositions(r) = {}
    <3>1. pc'[r] \notin {"journal", "demote"}
      BY <1>0, <1>3, <2>1 DEF Journal, ChunkDone, WorkTypes
    <3>. QED
      BY <3>1 DEF ChunkCurrent
  <2>2. CASE OkPositions(r) # {}
    <3>1. /\ pc[r] = "journal" /\ buffer' = buffer /\ base' = base
          /\ transcriptions' = transcriptions
      BY <1>3, <2>2 DEF Journal
    <3>. QED
      BY <1>0, <3>1 DEF ChunkCurrent, OkPositions, Positions
  <2>. QED
    BY <2>1, <2>2
<1>4. CASE Neighbour
  BY <1>0, <1>4 DEF ChunkCurrent, OkPositions, Positions, Neighbour
<1>5. \A q \in Runs : q = r
  BY DEF Serial
<1>. QED
  BY <1>1, <1>2, <1>3, <1>4, <1>5 DEF Next, Step

LEMMA StepKeepsCurrent ==
    ASSUME Serial, CurrentInv, Next \/ Neighbour PROVE KeepsCurrent'
<1>. SUFFICES ASSUME NEW c \in Calls, RowsOf(transcriptions, c)' # {}
              PROVE  CurrentOf(transcriptions, c)' # {}
  BY DEF KeepsCurrent
<1>1. CASE transcriptions' = transcriptions
  BY <1>1 DEF CurrentInv, KeepsCurrent, RowsOf, CurrentOf
<1>2. CASE \E r \in Runs : Insert(r)
  <2>1. PICK r \in Runs : transcriptions' = transcriptions \cup NewRows(r)
    BY <1>2 DEF Insert
  <2>2. \A t \in NewRows(r) : t.current
    BY DEF NewRows
  <2>. QED
    BY <2>1, <2>2 DEF CurrentInv, KeepsCurrent, RowsOf, CurrentOf
<1>3. CASE \E r \in Runs : Demote(r)
  <2>1. PICK r \in Runs : /\ pc[r] = "demote"
                          /\ transcriptions' = Demoted(transcriptions,
                                transcriptions, OkCalls(r), RowIds(r))
    BY <1>3 DEF Demote
  <2>. DEFINE D(t) == IF t \in transcriptions /\ t.call \in OkCalls(r)
                            /\ t.current /\ t.id \notin RowIds(r)
                      THEN [t EXCEPT !.current = FALSE] ELSE t
  <2>2. transcriptions' = {D(t) : t \in transcriptions}
    BY <2>1 DEF Demoted
  <2>3. \A t \in transcriptions : D(t).call = t.call
    <3>1. \A t \in transcriptions : t \in TranscriptRow
      BY DEF CurrentInv, WorkTypes
    <3>. QED
      BY <3>1 DEF TranscriptRow
  <2>4. CASE c \in OkCalls(r)
    <3>1. PICK i \in OkPositions(r) : c = buffer[r][i].call
      BY <2>4 DEF OkCalls
    <3>2. PICK t \in transcriptions :
              t.id = base[r] + i /\ t.call = c /\ t.current
      BY <2>1, <3>1 DEF CurrentInv, ChunkCurrent
    <3>3. t.id \in RowIds(r)
      BY <3>2 DEF RowIds
    <3>4. t \in transcriptions'
      BY <2>2, <3>3
    <3>. QED
      BY <3>2, <3>4 DEF RowsOf, CurrentOf
  <2>5. CASE c \notin OkCalls(r)
    <3>1. PICK u \in transcriptions' : u.call = c
      BY DEF RowsOf
    <3>2. PICK s \in transcriptions : u = D(s)
      BY <2>2
    <3>3. s \in RowsOf(transcriptions, c)
      BY <2>3, <3>1, <3>2 DEF RowsOf
    <3>4. PICK t \in CurrentOf(transcriptions, c) : TRUE
      BY <3>3 DEF CurrentInv, KeepsCurrent
    <3>5. t \in transcriptions /\ t.call = c /\ t.current
      BY <3>4 DEF CurrentOf, RowsOf
    <3>6. t \in transcriptions'
      BY <2>2, <2>5, <3>5
    <3>. QED
      BY <3>5, <3>6 DEF RowsOf, CurrentOf
  <2>. QED
    BY <2>4, <2>5
<1>. QED
  BY <1>1, <1>2, <1>3 DEF Next, Step, Fetch, Analyse, ReadVersions, Insert,
                          Journal, Crash, tables, Neighbour

\* Under runs that do not overlap no call loses its current transcript, wherever
\* a run dies: the promise of the writer's docstring, which two overlapping runs
\* can break.
THEOREM SerialKeepsCurrent == ASSUME Serial PROVE Spec => []KeepsCurrent
<1>1. Init => CurrentInv
  BY InitVersionInv
     DEF Init, InitRuns, CurrentInv, VersionInv, KeepsCurrent, ChunkCurrent, RowsOf
<1>2. CurrentInv /\ VersionInv' /\ [Next]_vars => CurrentInv'
  BY StepChunkCurrent, StepKeepsCurrent, StutterIsNeighbour
     DEF CurrentInv, VersionInv
<1>3. CurrentInv => KeepsCurrent
  BY DEF CurrentInv
<1>. QED
  BY <1>1, <1>2, <1>3, VersionsInvariant, PTL DEF Spec

-----------------------------------------------------------------------------
\* The calls a run still has before its insert have no transcript.
FreshWork(r) ==
    /\ \A k \in todo[r], t \in transcriptions : t.call # k.call
    /\ pc[r] \in {"analyse", "versions", "insert"} =>
          \A i \in Positions(r), t \in transcriptions :
              t.call # buffer[r][i].call

\* A call has one transcript at most, and it is current.
SingleTranscripts ==
    /\ \A t \in transcriptions : t.current
    /\ \A t, u \in transcriptions : t.call = u.call => t = u

SingleInv ==
    /\ WorkInv
    /\ SingleTranscripts
    /\ \A r \in Runs : ChunkCurrent(r) /\ FreshWork(r)

\* What is demoted are other rows of the chunk's calls, and there are none.
LEMMA DemoteChangesNothing ==
    ASSUME SingleInv, NEW r \in Runs, Demote(r)
    PROVE  transcriptions' = transcriptions
<1>1. /\ pc[r] = "demote"
      /\ transcriptions' = Demoted(transcriptions, transcriptions, OkCalls(r),
                                   RowIds(r))
  BY DEF Demote
<1>2. ASSUME NEW t \in transcriptions, t.call \in OkCalls(r)
      PROVE  t.id \in RowIds(r)
  <2>1. PICK i \in OkPositions(r) : t.call = buffer[r][i].call
    BY <1>2 DEF OkCalls
  <2>2. PICK u \in transcriptions : u.id = base[r] + i /\ u.call = t.call
    BY <1>1, <2>1 DEF SingleInv, ChunkCurrent
  <2>3. t = u
    BY <2>2 DEF SingleInv, SingleTranscripts
  <2>. QED
    BY <2>2, <2>3 DEF RowIds
<1>3. \A t \in transcriptions : (IF t \in transcriptions /\ t.call \in OkCalls(r)
                                     /\ t.current /\ t.id \notin RowIds(r)
                                  THEN [t EXCEPT !.current = FALSE] ELSE t) = t
  BY <1>2
<1>. QED
  BY <1>1, <1>3 DEF Demoted

\* The new rows of a chunk are for calls that had none, one for each.
LEMMA NewRowsAreFirst ==
    ASSUME SingleInv, NEW r \in Runs, pc[r] = "insert"
    PROVE  /\ \A t \in NewRows(r) : t.current
           /\ \A t, u \in NewRows(r) : t.call = u.call => t = u
           /\ \A t \in NewRows(r), u \in transcriptions : t.call # u.call
           /\ \A t \in NewRows(r), k \in todo[r] : t.call # k.call
<1>1. ASSUME NEW t \in NewRows(r)
      PROVE  \E i \in Positions(r) :
                 t = [id |-> base[r] + i,
                      call |-> buffer[r][i].call,
                      version |-> versions[r][buffer[r][i].call],
                      current |-> TRUE]
  BY <1>1 DEF NewRows, OkPositions
<1>2. HoldsWork(r) /\ FreshWork(r)
  BY DEF SingleInv, WorkInv
<1>3. \A t \in NewRows(r) : \E i \in Positions(r) :
          t.current /\ t.call = buffer[r][i].call
  BY <1>1
<1>4. \A t, u \in NewRows(r) : t.call = u.call => t = u
  <2>. SUFFICES ASSUME NEW t \in NewRows(r), NEW u \in NewRows(r), t.call = u.call
                PROVE  t = u
    OBVIOUS
  <2>1. PICK i \in Positions(r) :
                 t = [id |-> base[r] + i,
                      call |-> buffer[r][i].call,
                      version |-> versions[r][buffer[r][i].call],
                      current |-> TRUE]
    BY <1>1
  <2>2. PICK j \in Positions(r) :
                 u = [id |-> base[r] + j,
                      call |-> buffer[r][j].call,
                      version |-> versions[r][buffer[r][j].call],
                      current |-> TRUE]
    BY <1>1
  <2>3. i = j
    BY <1>2, <2>1, <2>2 DEF HoldsWork
  <2>. QED
    BY <2>1, <2>2, <2>3
<1>5. \A t \in NewRows(r), u \in transcriptions : t.call # u.call
  BY <1>2, <1>3 DEF FreshWork
<1>6. \A t \in NewRows(r), k \in todo[r] : t.call # k.call
  BY <1>2, <1>3 DEF HoldsWork
<1>. QED
  BY <1>3, <1>4, <1>5, <1>6

LEMMA StepSingleTranscripts ==
    ASSUME SingleInv, Next \/ Neighbour PROVE SingleTranscripts'
<1>1. CASE transcriptions' = transcriptions
  BY <1>1 DEF SingleInv, SingleTranscripts
<1>2. CASE \E r \in Runs : Insert(r)
  <2>1. PICK r \in Runs : /\ pc[r] = "insert"
                          /\ transcriptions' = transcriptions \cup NewRows(r)
    BY <1>2 DEF Insert
  <2>. QED
    BY <2>1, NewRowsAreFirst DEF SingleInv, SingleTranscripts
<1>. QED
  BY <1>1, <1>2, DemoteChangesNothing
     DEF Next, Step, Fetch, Analyse, ReadVersions, Insert, Journal, Crash,
         tables, Neighbour

\* The candidates a run fetches have no transcript: every transcript is current.
LEMMA FetchIsFresh ==
    ASSUME SingleInv, NEW r \in Runs, Fetch(r)
    PROVE  \A k \in todo'[r], t \in transcriptions : t.call # k.call
<1>1. PICK P \in Earliest(Candidates, Limit, LAMBDA k : k.started) :
          todo' = [todo EXCEPT ![r] = P]
  BY DEF Fetch
<1>2. todo'[r] \subseteq Candidates
  BY <1>1 DEF Earliest, SingleInv, WorkInv, WorkTypes
<1>3. \A k \in Candidates, t \in transcriptions : t.call # k.call
  BY DEF Candidates, CurrentOf, RowsOf, SingleInv, SingleTranscripts
<1>. QED
  BY <1>2, <1>3

LEMMA StepFreshWork ==
    ASSUME Serial, SingleInv, Next \/ Neighbour, NEW r \in Runs
    PROVE  FreshWork(r)'
<1>0. WorkTypes /\ HoldsWork(r) /\ FreshWork(r)
  BY DEF SingleInv, WorkInv
<1>1. CASE Fetch(r)
  <2>1. buffer' = buffer /\ transcriptions' = transcriptions /\ buffer[r] = <<>>
    BY <1>0, <1>1 DEF Fetch, HoldsWork
  <2>2. Positions(r)' = {}
    BY <2>1 DEF Positions
  <2>. QED
    BY <1>1, <2>1, <2>2, FetchIsFresh DEF FreshWork
<1>2. CASE Analyse(r)
  <2>1. PICK k \in todo[r], res \in Result :
              /\ res.call = k.call
              /\ res.ok \/ res.stamps = 0
              /\ todo'[r] = todo[r] \ {k}
              /\ buffer'[r] = Append(buffer[r], res)
              /\ Len(buffer'[r]) = Len(buffer[r]) + 1
              /\ buffer'[r][Len(buffer[r]) + 1] = res
              /\ \A i \in Positions(r) : buffer'[r][i] = buffer[r][i]
              /\ Positions(r) = 1 .. Len(buffer[r])
              /\ Positions(r)' = 1 .. (Len(buffer[r]) + 1)
              /\ pc'[r] = IF Len(buffer[r]) + 1 >= ChunkSize \/ todo'[r] = {}
                          THEN "versions" ELSE "analyse"
    BY <1>0, <1>2, AnalyseOf
  <2>2. pc[r] = "analyse" /\ transcriptions' = transcriptions
    BY <1>2 DEF Analyse
  <2>3. Len(buffer[r]) \in Nat
    BY <1>0 DEF WorkTypes
  <2>4. \A i \in Positions(r)' : i \in Positions(r) \/ i = Len(buffer[r]) + 1
    BY <2>1, <2>3
  <2>. QED
    BY <1>0, <2>1, <2>2, <2>4 DEF FreshWork
<1>3. CASE ReadVersions(r) \/ Neighbour
  <2>1. /\ pc'[r] \in {"analyse", "versions", "insert"} =>
                pc[r] \in {"analyse", "versions", "insert"}
        /\ todo' = todo /\ buffer' = buffer /\ transcriptions' = transcriptions
    BY <1>3 DEF ReadVersions, Neighbour
  <2>. QED
    BY <1>0, <2>1 DEF FreshWork, Positions
<1>4. CASE Insert(r)
  <2>1. /\ pc[r] = "insert" /\ pc'[r] = "journal" /\ todo' = todo
        /\ transcriptions' = transcriptions \cup NewRows(r)
    BY <1>0, <1>4 DEF Insert, WorkTypes
  <2>. QED
    BY <1>0, <2>1, NewRowsAreFirst DEF FreshWork
<1>5. CASE Journal(r) \/ Demote(r) \/ Crash(r)
  <2>1. transcriptions' = transcriptions
    BY <1>5, DemoteChangesNothing DEF Journal, Crash, tables
  <2>2. /\ todo'[r] \subseteq todo[r]
        /\ pc'[r] \in {"journal", "demote"} \/ buffer'[r] = <<>>
    BY <1>0, <1>5 DEF Journal, Demote, Crash, ChunkDone, WorkTypes
  <2>. QED
    BY <1>0, <2>1, <2>2 DEF FreshWork, Positions
<1>6. \A q \in Runs : q = r
  BY DEF Serial
<1>. QED
  BY <1>1, <1>2, <1>3, <1>4, <1>5, <1>6 DEF Next, Step

\* SingleInv is inductive, whatever the rest of the stand does, as long as no
\* call gets a second row in analysis.calls.
LEMMA NextSingleInv ==
    ASSUME Serial, SingleInv, Next \/ Neighbour, WorkTypes', OneRowEach'
    PROVE  SingleInv'
<1>1. WorkInv'
  BY StepHoldsWork DEF SingleInv, WorkInv
<1>2. \A r \in Runs : ChunkCurrent(r)'
  <2>1. CurrentInv
    BY DEF SingleInv, WorkInv, SingleTranscripts, CurrentInv, KeepsCurrent,
           RowsOf, CurrentOf
  <2>. QED
    BY <2>1, StepChunkCurrent
<1>. QED
  BY <1>1, <1>2, StepSingleTranscripts, StepFreshWork DEF SingleInv

\* Transcripts are added and nothing else happens to them.
LEMMA TranscriptsOnlyGrow ==
    ASSUME SingleInv, Next \/ Neighbour PROVE transcriptions \subseteq transcriptions'
BY DemoteChangesNothing
   DEF Next, Step, Fetch, Analyse, ReadVersions, Insert, Journal, Crash, tables,
       Neighbour

\* Identifiers are only handed out.
LEMMA MintedGrows ==
    ASSUME WorkTypes, Next PROVE minted' \in Nat /\ minted <= minted'
<1>1. PICK r \in Runs : Fetch(r) \/ Step(r) \/ Crash(r)
  BY DEF Next
<1>2. minted' = minted \/ minted' = minted + Len(buffer[r])
  BY <1>1 DEF Step, Fetch, Analyse, ReadVersions, Insert, Journal, Demote, Crash
<1>3. minted \in Nat /\ Len(buffer[r]) \in Nat
  BY DEF WorkTypes
<1>. QED
  BY <1>2, <1>3

LEMMA SingleTranscriptsCount ==
    ASSUME SingleTranscripts PROVE NeverTranscribedTwice
<1>. SUFFICES ASSUME NEW c \in Calls
              PROVE  Cardinality(RowsOf(transcriptions, c)) <= 1
  BY DEF NeverTranscribedTwice
<1>1. CASE RowsOf(transcriptions, c) = {}
  BY <1>1, FS_EmptySet
<1>2. CASE RowsOf(transcriptions, c) # {}
  <2>1. PICK t : RowsOf(transcriptions, c) = {t}
    BY <1>2 DEF RowsOf, SingleTranscripts
  <2>. QED
    BY <2>1, FS_Singleton
<1>. QED
  BY <1>1, <1>2

LEMMA InitSingleInv ==
    ASSUME WorkTypes, OneRowEach, InitRuns, transcriptions = {} PROVE SingleInv
<1>1. \A r \in Runs : Positions(r) = {} /\ OkPositions(r) = {} /\ Len(buffer[r]) = 0
  BY EmptyChunk DEF InitRuns
<1>. QED
  BY <1>1, ChunkSizeAssumption
     DEF InitRuns, SingleInv, WorkInv, HoldsWork, SingleTranscripts,
         ChunkCurrent, FreshWork

\* No call has two rows in what the flow was given.
OneRowSeeded == \A k, l \in SeededCalls : k.call = l.call => k = l

\* Runs that do not overlap pay once for a transcript: the call leaves the
\* candidates with the commit of its first transcript, whatever dies afterwards.
THEOREM SerialNeverTwice ==
    ASSUME Serial, OneRowSeeded PROVE Spec => []NeverTranscribedTwice
<1>1. VersionInv => OneRowEach
  BY DEF VersionInv, WorkTypes, OneRowSeeded, OneRowEach
<1>2. Init /\ VersionInv => SingleInv
  BY <1>1, InitSingleInv DEF Init, VersionInv
<1>3. SingleInv /\ VersionInv' /\ [Next]_vars => SingleInv'
  <2>1. VersionInv' => WorkTypes' /\ OneRowEach'
    BY DEF VersionInv, WorkTypes, OneRowSeeded, OneRowEach
  <2>. QED
    BY <2>1, NextSingleInv, StutterIsNeighbour DEF SingleInv, WorkInv
<1>4. SingleInv => NeverTranscribedTwice
  BY SingleTranscriptsCount DEF SingleInv
<1>. QED
  BY <1>2, <1>3, <1>4, VersionsInvariant, PTL DEF Spec

-----------------------------------------------------------------------------
\* A failure is one journal row: its result carries no stamps.
FailuresUnstamped(r) ==
    \A i \in Positions(r) : buffer[r][i].ok \/ buffer[r][i].stamps = 0

\* The failed journal rows of a call, and the runs that may still add one: they
\* have the call before them, or hold its failure and have not journalled it.
Failed(c) == FailedRows(llm_calls, ArtifactType, c)
MayFail(r, c) ==
    \/ \E k \in todo[r] : k.call = c
    \/ /\ pc[r] # "demote"
       /\ \E i \in Positions(r) : ~ buffer[r][i].ok /\ buffer[r][i].call = c
Pending(c) == {r \in Runs : MayFail(r, c)}

\* A run may be given a call whose budget has one failure left; then every run
\* may hold that failure.
BudgetKept(c) ==
    /\ IsFiniteSet(Failed(c))
    /\ Cardinality(Failed(c)) + Cardinality(Pending(c))
          <= MaxFailed - 1 + Cardinality(Runs)

BudgetInv ==
    /\ WorkInv
    /\ \A r \in Runs : FailuresUnstamped(r)
    /\ \A c \in Calls : BudgetKept(c)

LEMMA StepFailuresUnstamped ==
    ASSUME WorkTypes, [Next]_vars, NEW r \in Runs, FailuresUnstamped(r)
    PROVE  FailuresUnstamped(r)'
<1>1. CASE Analyse(r)
  <2>1. PICK k \in todo[r], res \in Result :
              /\ res.call = k.call
              /\ res.ok \/ res.stamps = 0
              /\ todo'[r] = todo[r] \ {k}
              /\ buffer'[r] = Append(buffer[r], res)
              /\ Len(buffer'[r]) = Len(buffer[r]) + 1
              /\ buffer'[r][Len(buffer[r]) + 1] = res
              /\ \A i \in Positions(r) : buffer'[r][i] = buffer[r][i]
              /\ Positions(r) = 1 .. Len(buffer[r])
              /\ Positions(r)' = 1 .. (Len(buffer[r]) + 1)
              /\ pc'[r] = IF Len(buffer[r]) + 1 >= ChunkSize \/ todo'[r] = {}
                          THEN "versions" ELSE "analyse"
    BY <1>1, AnalyseOf
  <2>2. Len(buffer[r]) \in Nat
    BY DEF WorkTypes
  <2>3. \A i \in Positions(r)' : i \in Positions(r) \/ i = Len(buffer[r]) + 1
    BY <2>1, <2>2
  <2>. QED
    BY <2>1, <2>3 DEF FailuresUnstamped
<1>2. CASE \/ Fetch(r) \/ ReadVersions(r) \/ Insert(r) \/ Journal(r)
           \/ Demote(r) \/ Crash(r)
  <2>1. buffer'[r] = buffer[r] \/ buffer'[r] = <<>>
    BY <1>2 DEF Fetch, ReadVersions, Insert, Journal, Demote, Crash, ChunkDone,
                WorkTypes
  <2>. QED
    BY <2>1 DEF FailuresUnstamped, Positions
<1>3. CASE \E q \in Runs \ {r} : Fetch(q) \/ Step(q) \/ Crash(q)
  <2>1. buffer'[r] = buffer[r]
    BY <1>3, OthersUntouched
  <2>. QED
    BY <2>1 DEF FailuresUnstamped, Positions
<1>4. CASE UNCHANGED vars
  BY <1>4 DEF vars, FailuresUnstamped, Positions
<1>. QED
  BY <1>1, <1>2, <1>3, <1>4 DEF Next, Step

\* No step but a fetch makes a run one that may add a failure.
LEMMA PendingOnlyShrinks ==
    ASSUME WorkInv, NEW r \in Runs, NEW c \in Calls,
           Step(r) \/ Crash(r) \/ (Fetch(r) /\ \A k \in todo'[r] : k.call # c)
    PROVE  Pending(c)' \subseteq Pending(c)
<1>0. WorkTypes /\ HoldsWork(r)
  BY DEF WorkInv
<1>1. ASSUME NEW q \in Runs, q # r PROVE MayFail(q, c)' <=> MayFail(q, c)
  BY <1>0, <1>1, OthersUntouched DEF MayFail, Positions
<1>2. ASSUME MayFail(r, c)' PROVE MayFail(r, c)
  <2>1. CASE Fetch(r)
    <3>1. buffer'[r] = <<>>
      BY <1>0, <2>1 DEF Fetch, HoldsWork
    <3>2. \A k \in todo'[r] : k.call # c
      BY <2>1 DEF Fetch, Step, Analyse, ReadVersions, Insert, Journal, Demote, Crash
    <3>. QED
      BY <1>2, <3>1, <3>2 DEF MayFail, Positions
  <2>2. CASE Analyse(r)
    <3>1. PICK k \in todo[r], res \in Result :
              /\ res.call = k.call
              /\ res.ok \/ res.stamps = 0
              /\ todo'[r] = todo[r] \ {k}
              /\ buffer'[r] = Append(buffer[r], res)
              /\ Len(buffer'[r]) = Len(buffer[r]) + 1
              /\ buffer'[r][Len(buffer[r]) + 1] = res
              /\ \A i \in Positions(r) : buffer'[r][i] = buffer[r][i]
              /\ Positions(r) = 1 .. Len(buffer[r])
              /\ Positions(r)' = 1 .. (Len(buffer[r]) + 1)
              /\ pc'[r] = IF Len(buffer[r]) + 1 >= ChunkSize \/ todo'[r] = {}
                          THEN "versions" ELSE "analyse"
      BY <1>0, <2>2, AnalyseOf
    <3>2. Len(buffer[r]) \in Nat /\ pc[r] = "analyse"
      BY <1>0, <2>2 DEF WorkTypes, Analyse
    <3>3. \A i \in Positions(r)' : i \in Positions(r) \/ i = Len(buffer[r]) + 1
      BY <3>1, <3>2
    <3>. QED
      BY <1>2, <3>1, <3>2, <3>3 DEF MayFail
  <2>3. CASE ReadVersions(r) \/ Insert(r)
    <3>1. pc[r] # "demote" /\ todo' = todo /\ buffer' = buffer
      BY <2>3 DEF ReadVersions, Insert
    <3>. QED
      BY <1>2, <3>1 DEF MayFail, Positions
  <2>4. CASE Journal(r) \/ Demote(r) \/ Crash(r)
    <3>1. /\ todo'[r] \subseteq todo[r]
          /\ pc'[r] = "demote" \/ buffer'[r] = <<>>
      BY <1>0, <2>4 DEF Journal, Demote, Crash, ChunkDone, WorkTypes
    <3>. QED
      BY <1>2, <3>1 DEF MayFail, Positions
  <2>. QED
    BY <2>1, <2>2, <2>3, <2>4 DEF Step
<1>. QED
  BY <1>1, <1>2 DEF Pending

\* A chunk's journal has at most one failed row of a call, and then the run was
\* pending for it and is no more.
LEMMA JournalSettlesFailure ==
    ASSUME BudgetInv, NEW r \in Runs, NEW c \in Calls, Journal(r)
    PROVE  \/ Failed(c)' = Failed(c)
           \/ /\ \E j : Failed(c)' = Failed(c) \cup {j}
              /\ r \in Pending(c) /\ r \notin Pending(c)'
<1>0. WorkTypes /\ HoldsWork(r) /\ FailuresUnstamped(r)
  BY DEF BudgetInv, WorkInv
<1>1. Failed(c)' = Failed(c) \cup FailedRows(JournalRows(r), ArtifactType, c)
  BY DEF Journal, Failed, FailedRows
<1>2. ASSUME NEW j \in FailedRows(JournalRows(r), ArtifactType, c)
      PROVE  \E i \in Positions(r) :
                 ~ buffer[r][i].ok /\ buffer[r][i].call = c
                 /\ j = [attempt |-> base[r] + i, stamp |-> 0,
                         call |-> buffer[r][i].call, kind |-> ArtifactType,
                         status |-> "failed", artifact |-> ArtifactOf(r, i)]
  <2>1. PICK i \in Positions(r) : j \in JournalRowsOf(r, i)
    BY <1>2 DEF FailedRows, JournalRows
  <2>2. PICK s \in StampsOf(buffer[r][i]) :
            j = [attempt |-> base[r] + i,
                 stamp |-> s,
                 call |-> buffer[r][i].call,
                 kind |-> ArtifactType,
                 status |-> IF buffer[r][i].ok THEN "ok" ELSE "failed",
                 artifact |-> ArtifactOf(r, i)]
    BY <2>1 DEF JournalRowsOf
  <2>3. j.call = c /\ j.status = "failed"
    BY <1>2 DEF FailedRows
  <2>4. ~ buffer[r][i].ok /\ buffer[r][i].call = c
    BY <2>2, <2>3
  <2>5. s = 0
    BY <1>0, <2>2, <2>4 DEF FailuresUnstamped, StampsOf
  <2>. QED
    BY <2>2, <2>4, <2>5
<1>3. CASE FailedRows(JournalRows(r), ArtifactType, c) = {}
  BY <1>1, <1>3
<1>4. CASE FailedRows(JournalRows(r), ArtifactType, c) # {}
  <2>1. PICK j : j \in FailedRows(JournalRows(r), ArtifactType, c)
    BY <1>4
  <2>2. PICK i \in Positions(r) :
                 ~ buffer[r][i].ok /\ buffer[r][i].call = c
                 /\ j = [attempt |-> base[r] + i, stamp |-> 0,
                         call |-> buffer[r][i].call, kind |-> ArtifactType,
                         status |-> "failed", artifact |-> ArtifactOf(r, i)]
    BY <1>2, <2>1
  <2>3. \A l \in FailedRows(JournalRows(r), ArtifactType, c) : l = j
    <3>. TAKE l \in FailedRows(JournalRows(r), ArtifactType, c)
    <3>1. PICK p \in Positions(r) :
                 ~ buffer[r][p].ok /\ buffer[r][p].call = c
                 /\ l = [attempt |-> base[r] + p, stamp |-> 0,
                         call |-> buffer[r][p].call, kind |-> ArtifactType,
                         status |-> "failed", artifact |-> ArtifactOf(r, p)]
      BY <1>2
    <3>2. p = i
      BY <1>0, <2>2, <3>1 DEF HoldsWork
    <3>. QED
      BY <2>2, <3>1, <3>2
  <2>4. Failed(c)' = Failed(c) \cup {j}
    BY <1>1, <2>1, <2>3
  <2>5. r \in Pending(c)
    BY <2>2 DEF Journal, Pending, MayFail
  <2>6. \A k \in todo[r] : k.call # c
    BY <1>0, <2>2 DEF HoldsWork
  <2>7. todo'[r] = todo[r] /\ (pc'[r] = "demote" \/ buffer'[r] = <<>>)
    BY <1>0 DEF Journal, ChunkDone, WorkTypes
  <2>8. r \notin Pending(c)'
    BY <2>6, <2>7 DEF Pending, MayFail, Positions
  <2>. QED
    BY <2>4, <2>5, <2>8
<1>. QED
  BY <1>3, <1>4

\* Only Journal writes to the journal.
LEMMA FailedOtherwise ==
    ASSUME NEW r \in Runs, NEW c \in Calls, Fetch(r) \/ Step(r) \/ Crash(r),
           ~ Journal(r)
    PROVE  Failed(c)' = Failed(c)
BY DEF Step, Fetch, Analyse, ReadVersions, Insert, Demote, Crash, tables, Failed

LEMMA StepBudgetKept ==
    ASSUME BudgetInv, [Next]_vars, NEW c \in Calls
    PROVE  BudgetKept(c)'
<1>0. BudgetKept(c) /\ WorkInv
  BY DEF BudgetInv
<1>1. /\ IsFiniteSet(Pending(c)) /\ Cardinality(Pending(c)) \in Nat
      /\ Pending(c)' \subseteq Runs
      /\ IsFiniteSet(Failed(c)) /\ Cardinality(Failed(c)) \in Nat
      /\ Cardinality(Runs) \in Nat
  BY <1>0, RunsAssumption, FS_Subset, FS_CardinalityType DEF Pending, BudgetKept
<1>2. /\ IsFiniteSet(Pending(c)') /\ Cardinality(Pending(c)') \in Nat
      /\ Cardinality(Pending(c)') <= Cardinality(Runs)
  BY <1>1, RunsAssumption, FS_Subset, FS_CardinalityType
<1>3. CASE UNCHANGED vars
  BY <1>0, <1>3 DEF vars, BudgetKept, Failed, Pending, MayFail, Positions
<1>4. ASSUME NEW r \in Runs, Fetch(r) \/ Step(r) \/ Crash(r)
      PROVE  BudgetKept(c)'
  <2>1. CASE Pending(c)' \subseteq Pending(c) /\ Failed(c)' = Failed(c)
    <3>1. Cardinality(Pending(c)') <= Cardinality(Pending(c))
      BY <1>1, <2>1, FS_Subset
    <3>. QED
      BY <1>0, <1>1, <1>2, <2>1, <3>1, MaxFailedAssumption DEF BudgetKept
  <2>2. CASE Fetch(r) /\ \E k \in todo'[r] : k.call = c
    <3>1. PICK P \in Earliest(Candidates, Limit, LAMBDA k : k.started) :
              todo' = [todo EXCEPT ![r] = P]
      BY <2>2 DEF Fetch
    <3>2. todo'[r] \subseteq Candidates
      BY <1>0, <3>1 DEF Earliest, WorkInv, WorkTypes
    <3>3. Cardinality(Failed(c)) < MaxFailed
      BY <2>2, <3>2 DEF Candidates, Failed
    <3>4. Failed(c)' = Failed(c)
      BY <2>2 DEF Fetch, Failed
    <3>. QED
      BY <1>1, <1>2, <3>3, <3>4, MaxFailedAssumption DEF BudgetKept
  <2>3. CASE Journal(r)
    <3>1. Pending(c)' \subseteq Pending(c)
      BY <1>0, <2>3, PendingOnlyShrinks DEF Step
    <3>2. CASE Failed(c)' = Failed(c)
      BY <2>1, <3>1, <3>2
    <3>3. CASE /\ \E j : Failed(c)' = Failed(c) \cup {j}
               /\ r \in Pending(c) /\ r \notin Pending(c)'
      <4>1. PICK j : Failed(c)' = Failed(c) \cup {j}
        BY <3>3
      <4>2. /\ IsFiniteSet(Failed(c)')
            /\ Cardinality(Failed(c)') <= Cardinality(Failed(c)) + 1
            /\ Cardinality(Failed(c)') \in Nat
        <5>1. Cardinality(Failed(c) \cup {j}) \in
                  {Cardinality(Failed(c)), Cardinality(Failed(c)) + 1}
          BY <1>1, FS_AddElement
        <5>2. IsFiniteSet(Failed(c) \cup {j})
          BY <1>1, FS_AddElement
        <5>. QED
          BY <1>1, <4>1, <5>1, <5>2
      <4>3. Pending(c)' \subseteq Pending(c) \ {r}
        BY <3>1, <3>3
      <4>4. /\ IsFiniteSet(Pending(c) \ {r})
            /\ Cardinality(Pending(c) \ {r}) = Cardinality(Pending(c)) - 1
        BY <1>1, <3>3, FS_RemoveElement
      <4>5. Cardinality(Pending(c)') <= Cardinality(Pending(c)) - 1
        BY <4>3, <4>4, FS_Subset
      <4>. QED
        BY <1>0, <1>1, <1>2, <4>2, <4>5, MaxFailedAssumption DEF BudgetKept
    <3>. QED
      BY <2>3, <3>2, <3>3, JournalSettlesFailure
  <2>4. CASE ~ Journal(r) /\ (Step(r) \/ Crash(r) \/ \A k \in todo'[r] : k.call # c)
    <3>1. Pending(c)' \subseteq Pending(c)
      BY <1>0, <1>4, <2>4, PendingOnlyShrinks
    <3>2. Failed(c)' = Failed(c)
      BY <1>4, <2>4, FailedOtherwise
    <3>. QED
      BY <2>1, <3>1, <3>2
  <2>. QED
    BY <1>4, <2>2, <2>3, <2>4
<1>. QED
  BY <1>3, <1>4 DEF Next

LEMMA NextBudgetInv ==
    ASSUME BudgetInv, [Next]_vars, WorkTypes', OneRowEach'
    PROVE  BudgetInv'
<1>0. WorkInv /\ WorkTypes
  BY DEF BudgetInv, WorkInv
<1>1. WorkInv'
  BY <1>0, StepHoldsWork, StutterIsNeighbour DEF WorkInv
<1>. QED
  BY <1>0, <1>1, StepFailuresUnstamped, StepBudgetKept DEF BudgetInv

LEMMA InitBudgetInv ==
    ASSUME Init, WorkTypes, OneRowEach, MaxFailed + Cardinality(Runs) > 0
    PROVE  BudgetInv
<1>1. \A r \in Runs : /\ Positions(r) = {} /\ Len(buffer[r]) = 0
                      /\ buffer[r] = <<>> /\ todo[r] = {} /\ pc[r] = "idle"
  BY EmptyChunk DEF Init, InitRuns
<1>2. WorkInv
  BY <1>1, ChunkSizeAssumption DEF WorkInv, HoldsWork
<1>3. ASSUME NEW c \in Calls PROVE BudgetKept(c)
  <2>1. Failed(c) = {} /\ Pending(c) = {}
    BY <1>1 DEF Init, Failed, FailedRows, Pending, MayFail
  <2>2. Cardinality(Runs) \in Nat
    BY RunsAssumption, FS_CardinalityType
  <2>. QED
    BY <2>1, <2>2, FS_EmptySet, MaxFailedAssumption DEF BudgetKept
<1>. QED
  BY <1>1, <1>2, <1>3 DEF BudgetInv, FailuresUnstamped

\* The retry budget: a run adds to a call's failures at most the one it may have
\* been given when the budget had room for it, whatever other runs add meanwhile.
\* (There is a budget, or there is a run.)
THEOREM BudgetOvershoot ==
    ASSUME OneRowSeeded, MaxFailed + Cardinality(Runs) > 0
    PROVE  Spec => []RetryBudget
<1>1. VersionInv => WorkTypes /\ OneRowEach
  BY DEF VersionInv, WorkTypes, OneRowSeeded, OneRowEach
<1>2. Init /\ VersionInv => BudgetInv
  BY <1>1, InitBudgetInv
<1>3. BudgetInv /\ VersionInv' /\ [Next]_vars => BudgetInv'
  <2>1. VersionInv' => WorkTypes' /\ OneRowEach'
    BY DEF VersionInv, WorkTypes, OneRowSeeded, OneRowEach
  <2>. QED
    BY <2>1, NextBudgetInv
<1>4. BudgetInv => RetryBudget
  <2>. SUFFICES ASSUME BudgetInv, NEW c \in Calls
                PROVE  Cardinality(FailedRows(llm_calls, ArtifactType, c))
                           <= MaxFailed - 1 + Cardinality(Runs)
    BY DEF RetryBudget
  <2>1. BudgetKept(c)
    BY DEF BudgetInv
  <2>2. /\ Cardinality(Failed(c)) \in Nat /\ Cardinality(Pending(c)) \in Nat
        /\ Cardinality(Runs) \in Nat
    BY <2>1, RunsAssumption, FS_Subset, FS_CardinalityType DEF BudgetKept, Pending
  <2>. QED
    BY <2>1, <2>2, MaxFailedAssumption DEF BudgetKept, Failed
<1>. QED
  BY <1>2, <1>3, <1>4, VersionsInvariant, PTL DEF Spec

-----------------------------------------------------------------------------
\* A chunk owns the identifiers from its base on until it is done with.
Claimed(r) == pc[r] \in {"insert", "journal", "demote"}
ChunkIds(r) == base[r] + 1 .. base[r] + Len(buffer[r])

\* No identifier is given out twice, and the rows of a chunk are the only ones
\* with the chunk's identifiers.
IdsFresh ==
    /\ \A t \in transcriptions : t.id \in 1 .. minted
    /\ \A t, u \in transcriptions : t.id = u.id => t = u
    /\ \A r \in Runs : Claimed(r) => base[r] + Len(buffer[r]) <= minted
    /\ \A r, q \in Runs :
          r # q /\ Claimed(r) /\ Claimed(q) => ChunkIds(r) \cap ChunkIds(q) = {}
    /\ \A r \in Runs :
          pc[r] = "insert" => \A t \in transcriptions : t.id \notin ChunkIds(r)

LEMMA RowIdsInChunk ==
    ASSUME WorkTypes, NEW r \in Runs
    PROVE  /\ RowIds(r) \subseteq ChunkIds(r)
           /\ base[r] \in Nat /\ Len(buffer[r]) \in Nat
           /\ IsFiniteSet(ChunkIds(r)) /\ Cardinality(ChunkIds(r)) = Len(buffer[r])
<1>1. base[r] \in Nat /\ Len(buffer[r]) \in Nat /\ Positions(r) = 1 .. Len(buffer[r])
  BY DEF WorkTypes, Positions
<1>2. RowIds(r) \subseteq ChunkIds(r)
  BY <1>1 DEF RowIds, ChunkIds, OkPositions
<1>3. IsFiniteSet(ChunkIds(r)) /\ Cardinality(ChunkIds(r)) = Len(buffer[r])
  BY <1>1, IntervalOfChunk DEF ChunkIds
<1>. QED
  BY <1>1, <1>2, <1>3

\* Steps that mint nothing and claim nothing keep the identifiers apart.
LEMMA IdsUntouched ==
    ASSUME WorkTypes, IdsFresh, minted' = minted,
           \A t \in transcriptions' : \E u \in transcriptions : u.id = t.id,
           \A t, u \in transcriptions' : t.id = u.id => t = u,
           \A r \in Runs : Claimed(r)' =>
               /\ Claimed(r) /\ base'[r] = base[r] /\ buffer'[r] = buffer[r]
               /\ pc'[r] = "insert" => pc[r] = "insert"
    PROVE  IdsFresh'
<1>1. \A t \in transcriptions' : t.id \in 1 .. minted'
  BY DEF IdsFresh
<1>2. \A r \in Runs : Claimed(r)' => base'[r] + Len(buffer'[r]) <= minted'
  BY DEF IdsFresh
<1>3. \A r \in Runs : Claimed(r)' => ChunkIds(r)' = ChunkIds(r)
  BY DEF ChunkIds
<1>4. \A r, q \in Runs :
          r # q /\ Claimed(r)' /\ Claimed(q)' => ChunkIds(r)' \cap ChunkIds(q)' = {}
  BY <1>3 DEF IdsFresh
<1>5. \A r \in Runs :
          pc'[r] = "insert" => \A t \in transcriptions' : t.id \notin ChunkIds(r)'
  BY <1>3 DEF IdsFresh, Claimed
<1>. QED
  BY <1>1, <1>2, <1>4, <1>5 DEF IdsFresh

\* A demote changes no identifier.
LEMMA DemoteKeepsIds ==
    ASSUME WorkTypes, NEW r \in Runs, Demote(r)
    PROVE  /\ \A t \in transcriptions' : \E u \in transcriptions : u.id = t.id
           /\ (\A t, u \in transcriptions : t.id = u.id => t = u) =>
                  \A t, u \in transcriptions' : t.id = u.id => t = u
<1>. DEFINE D(t) == IF t \in transcriptions /\ t.call \in OkCalls(r)
                          /\ t.current /\ t.id \notin RowIds(r)
                    THEN [t EXCEPT !.current = FALSE] ELSE t
<1>1. transcriptions' = {D(t) : t \in transcriptions}
  BY DEF Demote, Demoted
<1>2. \A t \in transcriptions : D(t).id = t.id
  <2>1. \A t \in transcriptions : t \in TranscriptRow
    BY DEF WorkTypes
  <2>. QED
    BY <2>1 DEF TranscriptRow
<1>. HIDE DEF D
<1>. QED
  BY <1>1, <1>2

LEMMA StepIdsFresh ==
    ASSUME WorkTypes, IdsFresh, [Next]_vars PROVE IdsFresh'
<1>1. ASSUME NEW r \in Runs, Fetch(r) \/ Analyse(r) \/ Journal(r) \/ Crash(r)
      PROVE  IdsFresh'
  <2>1. minted' = minted /\ transcriptions' = transcriptions
    BY <1>1 DEF Fetch, Analyse, Journal, Crash, tables
  <2>2. Claimed(r)' => /\ Claimed(r) /\ base'[r] = base[r]
                       /\ buffer'[r] = buffer[r] /\ pc'[r] # "insert"
    BY <1>1 DEF Fetch, Analyse, Journal, Crash, ChunkDone, Claimed, WorkTypes
  <2>3. \A q \in Runs : q # r => /\ pc'[q] = pc[q] /\ base'[q] = base[q]
                                 /\ buffer'[q] = buffer[q]
    BY <1>1, OthersUntouched DEF Step
  <2>4. \A q \in Runs : Claimed(q)' =>
               /\ Claimed(q) /\ base'[q] = base[q] /\ buffer'[q] = buffer[q]
               /\ pc'[q] = "insert" => pc[q] = "insert"
    BY <2>2, <2>3 DEF Claimed
  <2>5. \A t, u \in transcriptions' : t.id = u.id => t = u
    BY <2>1 DEF IdsFresh
  <2>. QED
    BY <2>1, <2>4, <2>5, IdsUntouched
<1>2. ASSUME NEW r \in Runs, Demote(r) PROVE IdsFresh'
  <2>1. minted' = minted
    BY <1>2 DEF Demote
  <2>2. ~ Claimed(r)'
    BY <1>2 DEF Demote, ChunkDone, Claimed, WorkTypes
  <2>3. \A q \in Runs : q # r => /\ pc'[q] = pc[q] /\ base'[q] = base[q]
                                 /\ buffer'[q] = buffer[q]
    BY <1>2, OthersUntouched DEF Step
  <2>4. \A q \in Runs : Claimed(q)' =>
               /\ Claimed(q) /\ base'[q] = base[q] /\ buffer'[q] = buffer[q]
               /\ pc'[q] = "insert" => pc[q] = "insert"
    BY <2>2, <2>3 DEF Claimed
  <2>5. /\ \A t \in transcriptions' : \E u \in transcriptions : u.id = t.id
        /\ \A t, u \in transcriptions' : t.id = u.id => t = u
    BY <1>2, DemoteKeepsIds DEF IdsFresh
  <2>. QED
    BY <2>1, <2>4, <2>5, IdsUntouched
<1>3. ASSUME NEW r \in Runs, ReadVersions(r) PROVE IdsFresh'
  <2>1. /\ base' = [base EXCEPT ![r] = minted] /\ base'[r] = minted
        /\ minted' = minted + Len(buffer[r])
        /\ transcriptions' = transcriptions /\ buffer' = buffer
        /\ minted \in Nat /\ Len(buffer[r]) \in Nat
    BY <1>3 DEF ReadVersions, WorkTypes
  <2>2. \A q \in Runs : q # r => pc'[q] = pc[q] /\ base'[q] = base[q]
    BY <1>3, OthersUntouched DEF Step
  <2>3. ChunkIds(r)' = minted + 1 .. minted + Len(buffer[r])
    BY <2>1 DEF ChunkIds
  <2>4. \A q \in Runs : q # r => /\ ChunkIds(q)' = ChunkIds(q)
                                 /\ Claimed(q)' <=> Claimed(q)
    BY <2>1, <2>2 DEF ChunkIds, Claimed
  <2>5. \A q \in Runs : Claimed(q) => \A x \in ChunkIds(q) : x <= minted
    BY <2>1, RowIdsInChunk DEF IdsFresh, ChunkIds
  <2>6. \A t \in transcriptions' : t.id \in 1 .. minted'
    BY <2>1 DEF IdsFresh
  <2>7. \A q \in Runs : Claimed(q)' => base'[q] + Len(buffer'[q]) <= minted'
    <3>. SUFFICES ASSUME NEW q \in Runs, Claimed(q)'
                  PROVE  base'[q] + Len(buffer'[q]) <= minted'
      OBVIOUS
    <3>1. CASE q = r
      BY <2>1, <3>1
    <3>2. CASE q # r
      BY <2>1, <2>2, <2>4, <3>2, RowIdsInChunk DEF IdsFresh
    <3>. QED
      BY <3>1, <3>2
  <2>8. \A q, s \in Runs : q # s /\ Claimed(q)' /\ Claimed(s)'
                              => ChunkIds(q)' \cap ChunkIds(s)' = {}
    <3>. SUFFICES ASSUME NEW q \in Runs, NEW s \in Runs, q # s,
                         Claimed(q)', Claimed(s)'
                  PROVE  ChunkIds(q)' \cap ChunkIds(s)' = {}
      OBVIOUS
    <3>1. CASE q # r /\ s # r
      BY <2>4, <3>1 DEF IdsFresh
    <3>2. CASE q = r
      BY <2>1, <2>3, <2>4, <2>5, <3>2
    <3>3. CASE s = r
      BY <2>1, <2>3, <2>4, <2>5, <3>3
    <3>. QED
      BY <3>1, <3>2, <3>3
  <2>9. \A q \in Runs : pc'[q] = "insert" =>
            \A t \in transcriptions' : t.id \notin ChunkIds(q)'
    <3>. SUFFICES ASSUME NEW q \in Runs, pc'[q] = "insert", NEW t \in transcriptions
                  PROVE  t.id \notin ChunkIds(q)'
      BY <2>1
    <3>1. CASE q = r
      BY <2>1, <2>3, <3>1 DEF IdsFresh
    <3>2. CASE q # r
      BY <2>2, <2>4, <3>2 DEF IdsFresh
    <3>. QED
      BY <3>1, <3>2
  <2>. QED
    BY <2>1, <2>6, <2>7, <2>8, <2>9 DEF IdsFresh
<1>4. ASSUME NEW r \in Runs, Insert(r) PROVE IdsFresh'
  <2>1. /\ pc[r] = "insert" /\ pc'[r] = "journal" /\ minted' = minted
        /\ base' = base /\ buffer' = buffer
        /\ transcriptions' = transcriptions \cup NewRows(r)
    BY <1>4 DEF Insert, WorkTypes
  <2>2. \A q \in Runs : q # r => pc'[q] = pc[q]
    BY <1>4, OthersUntouched DEF Step
  <2>3. \A q \in Runs : /\ ChunkIds(q)' = ChunkIds(q)
                        /\ Claimed(q)' <=> Claimed(q)
    BY <2>1, <2>2 DEF ChunkIds, Claimed
  <2>4. \A t \in NewRows(r) : \E i \in OkPositions(r) :
            t = [id |-> base[r] + i,
                 call |-> buffer[r][i].call,
                 version |-> versions[r][buffer[r][i].call],
                 current |-> TRUE]
    BY DEF NewRows
  <2>5. OkPositions(r) \subseteq Nat /\ base[r] \in Nat /\ minted \in Nat
    BY ResultCalls DEF OkPositions, WorkTypes
  <2>6. \A t \in NewRows(r) : t.id \in ChunkIds(r)
    BY <2>4, RowIdsInChunk DEF RowIds
  <2>7. \A t, u \in NewRows(r) : t.id = u.id => t = u
    <3>. SUFFICES ASSUME NEW t \in NewRows(r), NEW u \in NewRows(r), t.id = u.id
                  PROVE  t = u
      OBVIOUS
    <3>1. PICK i \in OkPositions(r) :
            t = [id |-> base[r] + i,
                 call |-> buffer[r][i].call,
                 version |-> versions[r][buffer[r][i].call],
                 current |-> TRUE]
      BY <2>4
    <3>2. PICK j \in OkPositions(r) :
            u = [id |-> base[r] + j,
                 call |-> buffer[r][j].call,
                 version |-> versions[r][buffer[r][j].call],
                 current |-> TRUE]
      BY <2>4
    <3>3. base[r] + i = base[r] + j
      BY <3>1, <3>2
    <3>4. i = j
      BY <2>5, <3>3
    <3>. QED
      BY <3>1, <3>2, <3>4
  <2>8. ChunkIds(r) \subseteq 1 .. minted
    BY <2>1, <2>5, RowIdsInChunk DEF ChunkIds, IdsFresh, Claimed
  <2>9. \A t \in transcriptions' : t.id \in 1 .. minted'
    BY <2>1, <2>6, <2>8 DEF IdsFresh
  <2>10. \A t, u \in transcriptions' : t.id = u.id => t = u
    BY <2>1, <2>6, <2>7 DEF IdsFresh
  <2>11. \A q \in Runs : pc'[q] = "insert" =>
             \A t \in transcriptions' : t.id \notin ChunkIds(q)'
    <3>. SUFFICES ASSUME NEW q \in Runs, pc'[q] = "insert",
                         NEW t \in transcriptions'
                  PROVE  t.id \notin ChunkIds(q)
      BY <2>3
    <3>1. q # r /\ pc[q] = "insert"
      BY <2>1, <2>2
    <3>2. ChunkIds(q) \cap ChunkIds(r) = {}
      BY <2>1, <3>1 DEF IdsFresh, Claimed
    <3>. QED
      BY <2>1, <2>6, <3>1, <3>2 DEF IdsFresh
  <2>12. \A q \in Runs : Claimed(q)' => base'[q] + Len(buffer'[q]) <= minted'
    BY <2>1, <2>3 DEF IdsFresh
  <2>13. \A q, s \in Runs : q # s /\ Claimed(q)' /\ Claimed(s)'
                               => ChunkIds(q)' \cap ChunkIds(s)' = {}
    BY <2>3 DEF IdsFresh
  <2>. QED
    BY <2>9, <2>10, <2>11, <2>12, <2>13 DEF IdsFresh
<1>5. CASE UNCHANGED vars
  BY <1>5, IdsUntouched DEF vars, Claimed, IdsFresh
<1>. QED
  BY <1>1, <1>2, <1>3, <1>4, <1>5 DEF Next, Step

-----------------------------------------------------------------------------
\* The identifiers of the transcripts without a journal row that nobody is going
\* to write any more.
LostIds ==
    {x \in {t.id : t \in transcriptions} :
        x \notin InFlight /\ \A j \in llm_calls : j.artifact # x}

LossInv ==
    /\ WorkInv
    /\ IdsFresh
    /\ crashes \in Nat
    /\ Cardinality(LostIds) <= crashes * ChunkSize

LEMMA LostIdsFinite ==
    ASSUME WorkTypes, IdsFresh
    PROVE  IsFiniteSet(LostIds) /\ Cardinality(LostIds) \in Nat
<1>1. LostIds \subseteq 1 .. minted
  BY DEF LostIds, IdsFresh
<1>2. IsFiniteSet(1 .. minted)
  BY FS_Interval DEF WorkTypes
<1>. QED
  BY <1>1, <1>2, FS_Subset, FS_CardinalityType

\* The chunk a run is journalling is journalled altogether: each of its rows is
\* the first, being the only one, of its call.
LEMMA ChunkJournalled ==
    ASSUME WorkInv, NEW r \in Runs, Journal(r), NEW x \in RowIds(r)
    PROVE  \E j \in llm_calls' : j.artifact = x
<1>0. WorkTypes /\ HoldsWork(r)
  BY DEF WorkInv
<1>1. PICK i \in OkPositions(r) : x = base[r] + i
  BY DEF RowIds
<1>2. i \in Positions(r)
  BY <1>1 DEF OkPositions
<1>3. PICK p \in OkPositions(r) : /\ buffer[r][p].call = buffer[r][i].call
                                  /\ ArtifactOf(r, i) = base[r] + p
  BY <1>0, <1>1, <1>2, ArtifactOfResult
<1>4. p = i
  BY <1>0, <1>2, <1>3 DEF HoldsWork, OkPositions
<1>5. PICK j \in JournalRows(r) : j.artifact = ArtifactOf(r, i)
  BY <1>0, <1>2, ResultJournalled
<1>. QED
  BY <1>1, <1>3, <1>4, <1>5 DEF Journal

\* Whatever is not a crash loses nothing.
LEMMA StepLosesNothing ==
    ASSUME WorkInv, NEW r \in Runs, Fetch(r) \/ Step(r)
    PROVE  LostIds' \subseteq LostIds
<1>0. WorkTypes
  BY DEF WorkInv
<1>1. llm_calls \subseteq llm_calls'
  BY DEF Step, Fetch, Analyse, ReadVersions, Insert, Journal, Demote, tables
<1>2. \A q \in Runs : q # r => pc'[q] = pc[q] /\ RowIds(q)' = RowIds(q)
  BY <1>0, OthersUntouched DEF RowIds, OkPositions, Positions
<1>. SUFFICES ASSUME NEW x \in LostIds' PROVE x \in LostIds
  OBVIOUS
<1>3. /\ \A j \in llm_calls : j.artifact # x
      /\ x \notin InFlight'
      /\ \E t \in transcriptions' : t.id = x
  BY <1>1 DEF LostIds
<1>4. \A q \in Runs : pc'[q] = "journal" => x \notin RowIds(q)'
  BY <1>3 DEF InFlight
<1>5. \A q \in Runs : q # r /\ pc[q] = "journal" => x \notin RowIds(q)
  BY <1>2, <1>4
<1>6. \E t \in transcriptions : t.id = x
  <2>1. CASE Insert(r)
    <3>1. /\ pc'[r] = "journal" /\ buffer' = buffer /\ base' = base
          /\ transcriptions' = transcriptions \cup NewRows(r)
      BY <1>0, <2>1 DEF Insert, WorkTypes
    <3>2. RowIds(r)' = RowIds(r)
      BY <3>1 DEF RowIds, OkPositions, Positions
    <3>3. \A t \in NewRows(r) : t.id \in RowIds(r)
      BY DEF NewRows, RowIds
    <3>. QED
      BY <1>3, <1>4, <3>1, <3>2, <3>3
  <2>2. CASE Demote(r)
    BY <1>0, <1>3, <2>2, DemoteKeepsIds
  <2>3. CASE Fetch(r) \/ Analyse(r) \/ ReadVersions(r) \/ Journal(r)
    BY <1>3, <2>3 DEF Fetch, Analyse, ReadVersions, Journal
  <2>. QED
    BY <2>1, <2>2, <2>3 DEF Step
<1>7. pc[r] = "journal" => x \notin RowIds(r)
  <2>. SUFFICES ASSUME pc[r] = "journal", x \in RowIds(r) PROVE FALSE
    OBVIOUS
  <2>1. Journal(r)
    BY DEF Step, Fetch, Analyse, ReadVersions, Insert, Demote
  <2>2. PICK j \in llm_calls' : j.artifact = x
    BY <2>1, ChunkJournalled
  <2>. QED
    BY <2>2 DEF LostIds
<1>8. x \notin InFlight
  BY <1>5, <1>7 DEF InFlight
<1>. QED
  BY <1>3, <1>6, <1>8 DEF LostIds

\* A crash loses the chunk at hand.
LEMMA CrashLosesAChunk ==
    ASSUME WorkInv, NEW r \in Runs, Crash(r)
    PROVE  LostIds' \subseteq LostIds \cup ChunkIds(r)
<1>0. WorkTypes
  BY DEF WorkInv
<1>1. /\ transcriptions' = transcriptions /\ llm_calls' = llm_calls
  BY DEF Crash, tables
<1>2. \A q \in Runs : q # r => pc'[q] = pc[q] /\ RowIds(q)' = RowIds(q)
  BY <1>0, OthersUntouched DEF RowIds, OkPositions, Positions
<1>. SUFFICES ASSUME NEW x \in LostIds', x \notin ChunkIds(r) PROVE x \in LostIds
  OBVIOUS
<1>3. \A q \in Runs : pc'[q] = "journal" => x \notin RowIds(q)'
  BY DEF LostIds, InFlight
<1>4. \A q \in Runs : pc[q] = "journal" => x \notin RowIds(q)
  BY <1>0, <1>2, <1>3, RowIdsInChunk
<1>5. x \notin InFlight
  BY <1>4 DEF InFlight
<1>. QED
  BY <1>1, <1>5 DEF LostIds

LEMMA StepLossInv ==
    ASSUME LossInv, [Next]_vars, WorkTypes', OneRowEach'
    PROVE  LossInv'
<1>0. WorkInv /\ WorkTypes /\ IdsFresh
  BY DEF LossInv, WorkInv
<1>1. WorkInv' /\ IdsFresh'
  BY <1>0, StepHoldsWork, StutterIsNeighbour, StepIdsFresh DEF WorkInv
<1>2. /\ IsFiniteSet(LostIds) /\ Cardinality(LostIds) \in Nat
      /\ IsFiniteSet(LostIds') /\ Cardinality(LostIds') \in Nat
  <2>1. LostIds' \subseteq 1 .. minted' /\ minted' \in Nat
    BY <1>1 DEF LostIds, IdsFresh, WorkTypes
  <2>2. IsFiniteSet(1 .. minted')
    BY <2>1, FS_Interval
  <2>. QED
    BY <1>0, <2>1, <2>2, LostIdsFinite, FS_Subset, FS_CardinalityType
<1>3. crashes * ChunkSize \in Nat /\ (crashes + 1) * ChunkSize = crashes * ChunkSize + ChunkSize
  BY OneMoreChunk, ChunkSizeAssumption DEF LossInv
<1>4. CASE LostIds' \subseteq LostIds /\ crashes' = crashes
  <2>1. Cardinality(LostIds') <= Cardinality(LostIds)
    BY <1>2, <1>4, FS_Subset
  <2>2. Cardinality(LostIds') <= crashes * ChunkSize
    BY <1>2, <1>3, <2>1 DEF LossInv
  <2>. QED
    BY <1>1, <1>4, <2>2 DEF LossInv
<1>5. ASSUME NEW r \in Runs, Crash(r) PROVE LossInv'
  <2>1. LostIds' \subseteq LostIds \cup ChunkIds(r)
    BY <1>0, <1>5, CrashLosesAChunk
  <2>2. /\ IsFiniteSet(ChunkIds(r))
        /\ Cardinality(ChunkIds(r)) \in Nat /\ Cardinality(ChunkIds(r)) <= ChunkSize
    BY <1>0, RowIdsInChunk DEF WorkInv, HoldsWork
  <2>3. /\ IsFiniteSet(LostIds \cup ChunkIds(r))
        /\ Cardinality(LostIds \cup ChunkIds(r))
               = Cardinality(LostIds) + Cardinality(ChunkIds(r))
                     - Cardinality(LostIds \cap ChunkIds(r))
    BY <1>2, <2>2, FS_Union
  <2>4. Cardinality(LostIds \cap ChunkIds(r)) \in Nat
    <3>1. LostIds \cap ChunkIds(r) \subseteq LostIds
      OBVIOUS
    <3>. QED
      BY <1>2, <3>1, FS_Subset, FS_CardinalityType
  <2>5. Cardinality(LostIds') <= Cardinality(LostIds \cup ChunkIds(r))
    BY <2>1, <2>3, FS_Subset
  <2>6. crashes' = crashes + 1 /\ crashes + 1 \in Nat
    BY <1>5 DEF Crash, LossInv
  <2>7. Cardinality(LostIds') <= crashes * ChunkSize + ChunkSize
    BY <1>2, <1>3, <2>2, <2>3, <2>4, <2>5, ChunkSizeAssumption DEF LossInv
  <2>. QED
    BY <1>1, <1>3, <2>6, <2>7 DEF LossInv
<1>6. CASE UNCHANGED vars
  BY <1>4, <1>6 DEF vars, LostIds, InFlight, RowIds, OkPositions, Positions
<1>7. ASSUME NEW r \in Runs, Fetch(r) \/ Step(r) PROVE LossInv'
  <2>1. LostIds' \subseteq LostIds
    BY <1>0, <1>7, StepLosesNothing
  <2>2. crashes' = crashes
    BY <1>7 DEF Step, Fetch, Analyse, ReadVersions, Insert, Journal, Demote
  <2>. QED
    BY <1>4, <2>1, <2>2
<1>. QED
  BY <1>5, <1>6, <1>7 DEF Next

LEMMA LostRowsAreLostIds ==
    ASSUME WorkTypes, IdsFresh
    PROVE  Cardinality({t \in Unjournalled : t.id \notin InFlight})
               <= Cardinality(LostIds)
<1>. DEFINE lost == {t \in Unjournalled : t.id \notin InFlight}
<1>1. lost \subseteq transcriptions /\ \A t \in lost : t.id \in LostIds
  BY DEF LostIds, Unjournalled
<1>2. \A t, u \in lost : t.id = u.id => t = u
  BY <1>1 DEF IdsFresh
<1>. HIDE DEF lost
<1>3. Cardinality(lost) <= Cardinality(LostIds)
  BY <1>1, <1>2, LostIdsFinite, RowsByIds
<1>. QED
  BY <1>3 DEF lost

LEMMA InitLossInv ==
    ASSUME Init, WorkTypes, OneRowEach PROVE LossInv
<1>1. \A r \in Runs : /\ Positions(r) = {} /\ Len(buffer[r]) = 0
                      /\ buffer[r] = <<>> /\ todo[r] = {} /\ pc[r] = "idle"
  BY EmptyChunk DEF Init, InitRuns
<1>2. WorkInv
  BY <1>1, ChunkSizeAssumption DEF WorkInv, HoldsWork
<1>3. IdsFresh
  BY <1>1 DEF Init, IdsFresh, Claimed
<1>4. LostIds = {} /\ crashes = 0
  BY DEF Init, InitRuns, LostIds
<1>5. Cardinality(LostIds) = 0 /\ 0 * ChunkSize = 0
  BY <1>4, FS_EmptySet, ChunkSizeAssumption
<1>. QED
  BY <1>2, <1>3, <1>4, <1>5 DEF LossInv

\* The journal misses at most one chunk for every run that died.
THEOREM JournalLoss ==
    ASSUME OneRowSeeded PROVE Spec => []JournalLossBounded
<1>1. VersionInv => WorkTypes /\ OneRowEach
  BY DEF VersionInv, WorkTypes, OneRowSeeded, OneRowEach
<1>2. Init /\ VersionInv => LossInv
  BY <1>1, InitLossInv
<1>3. LossInv /\ VersionInv' /\ [Next]_vars => LossInv'
  <2>1. VersionInv' => WorkTypes' /\ OneRowEach'
    BY DEF VersionInv, WorkTypes, OneRowSeeded, OneRowEach
  <2>. QED
    BY <2>1, StepLossInv
<1>4. LossInv => JournalLossBounded
  <2>. SUFFICES ASSUME LossInv PROVE JournalLossBounded
    OBVIOUS
  <2>1. WorkTypes /\ IdsFresh
    BY DEF LossInv, WorkInv
  <2>2. /\ Cardinality(LostIds) \in Nat
        /\ Cardinality({t \in Unjournalled : t.id \notin InFlight})
               <= Cardinality(LostIds)
    BY <2>1, LostRowsAreLostIds, LostIdsFinite
  <2>3. IsFiniteSet({t \in Unjournalled : t.id \notin InFlight})
    <3>. DEFINE lost == {t \in Unjournalled : t.id \notin InFlight}
    <3>1. \A t \in lost : t.id \in LostIds
      BY DEF LostIds, Unjournalled
    <3>2. \A t, u \in lost : t.id = u.id => t = u
      BY <2>1 DEF IdsFresh, Unjournalled
    <3>. HIDE DEF lost
    <3>3. IsFiniteSet(lost)
      BY <2>1, <3>1, <3>2, LostIdsFinite, RowsByIds
    <3>. QED
      BY <3>3 DEF lost
  <2>4. Cardinality({t \in Unjournalled : t.id \notin InFlight}) \in Nat
    BY <2>3, FS_CardinalityType
  <2>5. crashes * ChunkSize \in Nat
    BY OneMoreChunk, ChunkSizeAssumption DEF LossInv
  <2>. QED
    BY <2>2, <2>4, <2>5 DEF LossInv, JournalLossBounded
<1>. QED
  BY <1>2, <1>3, <1>4, VersionsInvariant, PTL DEF Spec
===============================================================================
