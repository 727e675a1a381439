--------------------------- MODULE AnalysisTables ---------------------------
(***************************************************************************)
(* The statements the flows issue against the Iceberg tables of the        *)
(* `analysis` schema (pipelines/analysis/tables/writer.py and queries.py). *)
(*                                                                         *)
(* A table is a set of rows.  Every operator below is the effect or the    *)
(* result of exactly one SQL statement: the Trino connection runs in       *)
(* autocommit and no two statements share a transaction, so a flow module  *)
(* makes one action out of each.  An artifact row (a transcript or a       *)
(* report) has at least the fields                                         *)
(*     id       its UUID            call     the call it belongs to        *)
(*     version  its number          current  the is_current flag           *)
(* Text, segments, models and timestamps are not kept: no statement here   *)
(* reads them, except created_at, whose order the ids carry (an id minted  *)
(* later is larger).                                                       *)
(***************************************************************************)
EXTENDS Integers, FiniteSets, FiniteSetsExt

\* The rows of one call, and those among them a reader treats as current.
RowsOf(table, c) == {t \in table : t.call = c}
CurrentOf(table, c) == {t \in RowsOf(table, c) : t.current}

\* Two numberings a careless edit could put in the place of NextVersion: one that
\* starts at 0, one that counts rows instead of taking the largest version.
NextVersionFromZero(table, c) ==
    Max({0} \cup {t.version + 1 : t \in RowsOf(table, c)})
NextVersionByCount(table, c) == Cardinality(RowsOf(table, c)) + 1

\* SELECT max(version) ... GROUP BY call_id, for one call: the version its next
\* row gets.  A call with no row yet gets 1.
NextVersion(table, c) ==
    IF RowsOf(table, c) = {}
    THEN 1
    ELSE Max({t.version : t \in RowsOf(table, c)}) + 1

\* The demote with one condition of its WHERE clause forgotten.
DemotedWithoutKeep(table, scope, callIds, keep) ==
    {IF t \in scope /\ t.call \in callIds
     THEN [t EXCEPT !.current = FALSE] ELSE t : t \in table}
DemotedForEveryCall(table, scope, callIds, keep) ==
    {IF t \in scope /\ t.id \notin keep
     THEN [t EXCEPT !.current = FALSE] ELSE t : t \in table}
DemotedForEveryAnalyser(table, scope, callIds, keep) ==
    {IF t.call \in callIds /\ t.id \notin keep
     THEN [t EXCEPT !.current = FALSE] ELSE t : t \in table}

\* UPDATE ... SET is_current = false WHERE call_id IN callIds AND is_current
\* AND id NOT IN keep, restricted to the rows of `scope` (the rows of one
\* analyser in call_reports, the whole table otherwise).
Demoted(table, scope, callIds, keep) ==
    {IF t \in scope /\ t.call \in callIds /\ t.current /\ t.id \notin keep
     THEN [t EXCEPT !.current = FALSE]
     ELSE t : t \in table}

\* The journal rows the retry cut-off counts for one call and one kind of
\* artifact.
FailedRows(journal, kind, c) ==
    {j \in journal : j.call = c /\ j.kind = kind /\ j.status = "failed"}

\* The LIMIT a query runs with: at least one row is always asked for.
EffectiveLimit(limit) == Max({1, limit})

\* ORDER BY Key LIMIT limit over the rows S: any choice of that many rows such
\* that no row left out sorts strictly before a row taken.  Rows with equal keys
\* may be returned in any order.
Earliest(S, limit, Key(_)) ==
    {P \in SUBSET S :
        /\ Cardinality(P) = Min({EffectiveLimit(limit), Cardinality(S)})
        /\ \A p \in P, q \in S \ P : Key(p) <= Key(q)}

\* The version numbers a call's rows use, and the property every numbering
\* discussion is about: they are 1, 2, ..., n with none missing.
VersionsOf(table, c) == {t.version : t \in RowsOf(table, c)}
Contiguous(table, c) ==
    VersionsOf(table, c) = 1 .. Cardinality(VersionsOf(table, c))
=============================================================================
