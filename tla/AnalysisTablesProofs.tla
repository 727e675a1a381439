------------------------ MODULE AnalysisTablesProofs ------------------------
(***************************************************************************)
(* What the statements of AnalysisTables return and preserve, for every    *)
(* table.  The flow modules' proofs cite these lemmas by name.             *)
(***************************************************************************)
EXTENDS AnalysisTables, FiniteSetTheorems, WellFoundedInduction, TLAPS

\* Every non-empty set of naturals has the minimum that Min names.
LEMMA MinOfNaturals ==
    ASSUME NEW S \in SUBSET Nat, S # {}
    PROVE  Min(S) \in S /\ \A y \in S : Min(S) <= y
<1>1. PICK x \in S : \A y \in S : ~ (<<y, x>> \in OpToRel(<, Nat))
  BY NatLessThanWellFounded, WFMin, Zenon
<1>2. \A y \in S : x <= y
  <2>. TAKE y \in S
  <2>1. ~ (<<y, x>> \in OpToRel(<, Nat))
    BY <1>1
  <2>2. x \in Nat /\ y \in Nat
    OBVIOUS
  <2>3. ~ (y < x)
    BY <2>1, <2>2 DEF OpToRel
  <2>. QED
    BY <2>2, <2>3
<1>. QED
  BY <1>2 DEF Min

\* The maximum of 1 .. n.
LEMMA MaxOfInterval ==
    ASSUME NEW n \in Nat \ {0}
    PROVE  Max(1 .. n) = n
<1>1. n \in 1 .. n /\ \A y \in 1 .. n : n >= y
  OBVIOUS
<1>2. \A x \in 1 .. n : (\A y \in 1 .. n : x >= y) => x = n
  OBVIOUS
<1>. QED
  BY <1>1, <1>2 DEF Max

\* Every finite, non-empty set of naturals has the maximum that Max names: else
\* there were a smallest set without one, and it less an element has one.
LEMMA MaxOfNaturals ==
    ASSUME NEW S \in SUBSET Nat, IsFiniteSet(S), S # {}
    PROVE  Max(S) \in S /\ \A y \in S : Max(S) >= y
<1>. DEFINE HasMax(T) == \E x \in T : \A y \in T : x >= y
            Without(n) == \E T \in SUBSET Nat : /\ IsFiniteSet(T) /\ T # {}
                                               /\ Cardinality(T) = n /\ ~ HasMax(T)
            Sizes == {n \in Nat : Without(n)}
<1>1. Sizes = {}
  <2>. SUFFICES ASSUME Sizes # {} PROVE FALSE
    OBVIOUS
  <2>1. Min(Sizes) \in Sizes /\ \A m \in Sizes : Min(Sizes) <= m
    <3>1. Sizes \in SUBSET Nat
      OBVIOUS
    <3>. HIDE DEF Sizes
    <3>. QED
      BY <3>1, MinOfNaturals
  <2>. DEFINE n == Min(Sizes)
  <2>. HIDE DEF n
  <2>2. n \in Nat /\ Without(n) /\ \A m \in Nat : Without(m) => n <= m
    BY <2>1 DEF n
  <2>3. PICK T \in SUBSET Nat : /\ IsFiniteSet(T) /\ T # {}
                               /\ Cardinality(T) = n /\ ~ HasMax(T)
    BY <2>2
  <2>4. PICK x \in T : TRUE
    BY <2>3
  <2>. DEFINE R == T \ {x}
  <2>5. IsFiniteSet(R) /\ Cardinality(R) = n - 1 /\ R \in SUBSET Nat
    BY <2>3, <2>4, FS_RemoveElement
  <2>6. n - 1 \in Nat
    BY <2>5, FS_CardinalityType
  <2>7. ~ Without(n - 1)
    BY <2>2, <2>6
  <2>8. CASE R = {}
    <3>1. T = {x} /\ x \in Nat
      BY <2>3, <2>4, <2>8
    <3>. QED
      BY <2>3, <3>1
  <2>9. CASE R # {}
    <3>1. HasMax(R)
      BY <2>5, <2>7, <2>9
    <3>2. PICK m \in R : \A y \in R : m >= y
      BY <3>1
    <3>3. m \in Nat /\ x \in Nat /\ m \in T /\ \A y \in T : y = x \/ y \in R
      BY <2>3, <2>4, <3>2
    <3>4. (x >= m /\ \A y \in T : x >= y) \/ (m >= x /\ \A y \in T : m >= y)
      BY <2>3, <3>2, <3>3
    <3>. QED
      BY <2>3, <2>4, <3>3, <3>4
  <2>. QED
    BY <2>8, <2>9
<1>2. HasMax(S)
  <2>1. Cardinality(S) \in Nat
    BY FS_CardinalityType
  <2>2. ~ Without(Cardinality(S))
    BY <1>1, <2>1
  <2>. QED
    BY <2>2
<1>. QED
  BY <1>2 DEF Max

\* Among contiguous versions the next one is the first that is free.
LEMMA NextVersionExtends ==
    ASSUME NEW table, NEW c, NEW n \in Nat, VersionsOf(table, c) = 1 .. n
    PROVE  NextVersion(table, c) = n + 1
<1>1. CASE RowsOf(table, c) = {}
  <2>1. 1 .. n = {}
    BY <1>1 DEF VersionsOf
  <2>2. n = 0
    BY <2>1
  <2>. QED
    BY <1>1, <2>2 DEF NextVersion
<1>2. CASE RowsOf(table, c) # {}
  <2>1. 1 .. n # {}
    BY <1>2 DEF VersionsOf
  <2>2. n \in Nat \ {0}
    BY <2>1
  <2>3. Max(VersionsOf(table, c)) = n
    BY <2>2, MaxOfInterval
  <2>. QED
    BY <1>2, <2>3 DEF NextVersion, VersionsOf
<1>. QED
  BY <1>1, <1>2

\* 1 .. n is the form every contiguous set of versions has.
LEMMA ContiguousIffInterval ==
    ASSUME NEW table, NEW c, NEW n \in Nat, VersionsOf(table, c) = 1 .. n
    PROVE  Contiguous(table, c)
<1>1. Cardinality(1 .. n) = n
  BY FS_Interval
<1>. QED
  BY <1>1 DEF Contiguous

\* Demoting renumbers nothing: each call keeps exactly the versions it had.
LEMMA DemotedKeepsVersions ==
    ASSUME NEW table, NEW scope, NEW callIds, NEW keep, NEW c,
           \A t \in table : {"id", "call", "version", "current"} \subseteq DOMAIN t
    PROVE  VersionsOf(Demoted(table, scope, callIds, keep), c)
               = VersionsOf(table, c)
<1>. DEFINE D(t) == IF t \in scope /\ t.call \in callIds /\ t.current
                          /\ t.id \notin keep
                    THEN [t EXCEPT !.current = FALSE] ELSE t
<1>1. \A t \in table : D(t).call = t.call /\ D(t).version = t.version
  OBVIOUS
<1>2. Demoted(table, scope, callIds, keep) = {D(t) : t \in table}
  BY DEF Demoted
<1>. DEFINE T == Demoted(table, scope, callIds, keep)
<1>. HIDE DEF D
<1>3. ASSUME NEW v \in VersionsOf(T, c) PROVE v \in VersionsOf(table, c)
  <2>1. PICK u \in T : u.call = c /\ v = u.version
    BY <1>3 DEF VersionsOf, RowsOf
  <2>2. PICK t \in table : u = D(t)
    BY <1>2, <2>1
  <2>3. t \in RowsOf(table, c) /\ v = t.version
    BY <1>1, <2>1, <2>2 DEF RowsOf
  <2>. QED
    BY <2>3 DEF VersionsOf
<1>4. ASSUME NEW v \in VersionsOf(table, c) PROVE v \in VersionsOf(T, c)
  <2>1. PICK t \in table : t.call = c /\ v = t.version
    BY <1>4 DEF VersionsOf, RowsOf
  <2>2. D(t) \in T
    BY <1>2, <2>1
  <2>3. D(t) \in RowsOf(T, c) /\ v = D(t).version
    BY <1>1, <2>1, <2>2 DEF RowsOf
  <2>. QED
    BY <2>3 DEF VersionsOf
<1>. QED
  BY <1>3, <1>4

\* A chunk of n identifiers has n members.
LEMMA IntervalOfChunk ==
    ASSUME NEW a \in Nat, NEW n \in Nat
    PROVE  IsFiniteSet(a + 1 .. a + n) /\ Cardinality(a + 1 .. a + n) = n
<1>. DEFINE lo == a + 1
            hi == a + n
<1>1. lo \in Int /\ hi \in Int
  OBVIOUS
<1>2. (IF lo > hi THEN 0 ELSE hi - lo + 1) = n
  OBVIOUS
<1>. HIDE DEF lo, hi
<1>3. /\ IsFiniteSet(lo .. hi)
      /\ Cardinality(lo .. hi) = IF lo > hi THEN 0 ELSE hi - lo + 1
  BY <1>1, FS_Interval
<1>4. IsFiniteSet(lo .. hi) /\ Cardinality(lo .. hi) = n
  BY <1>2, <1>3
<1>. QED
  BY <1>4 DEF lo, hi

\* One more crash allows for one more chunk.
LEMMA OneMoreChunk ==
    ASSUME NEW n \in Nat, NEW k \in Nat
    PROVE  n * k \in Nat /\ (n + 1) * k = n * k + k
OBVIOUS

\* Rows are at most as many as their identifiers when no two share one.
LEMMA RowsByIds ==
    ASSUME NEW S, NEW ids, IsFiniteSet(ids),
           \A t \in S : t.id \in ids,
           \A t, u \in S : t.id = u.id => t = u
    PROVE  IsFiniteSet(S) /\ Cardinality(S) <= Cardinality(ids)
<1>. DEFINE f == [t \in S |-> t.id]
<1>1. f \in Injection(S, ids)
  BY DEF Injection, IsInjective
<1>. HIDE DEF f
<1>. QED
  BY <1>1, FS_Injection
=============================================================================
