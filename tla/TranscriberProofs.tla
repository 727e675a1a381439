-------------------------- MODULE TranscriberProofs --------------------------
(***************************************************************************)
(* Transcriber implements GigaamService: whatever the tasks do, post again *)
(* what they gave up, leave, fail, the service sees requests that arrive   *)
(* once each.  So what is proved of the service holds beside its clients.  *)
(*                                                                         *)
(* The second part is about the timeline a task ends with: what the stitch *)
(* of its slices may lose or write twice, for every recording, every       *)
(* speech and every length of slice, overlap and segment.                  *)
(***************************************************************************)
EXTENDS Transcriber, GigaamServiceProofs, FiniteSetTheorems, WellFoundedInduction

(* Each step of the tasks is an arrival, or none of the service's business. *)
THEOREM ImplementsService == Spec => ServiceSpec
<1>1. Init => ServiceInit
  BY DEF Init
<1>2. [Next]_vars => [ServiceNext]_service
  <2>1. CASE Serve
    BY <2>1 DEF Serve, ServiceNext
  <2>2. ASSUME NEW t \in Tasks, Task(t) PROVE [ServiceNext]_service
    <3>1. CASE Post(t)
      <4>1. Arrive(<<t, posted[t] + 1>>) /\ <<t, posted[t] + 1>> \in Requests
        BY <3>1 DEF Post
      <4>2. QED
        BY <4>1 DEF ServiceNext
    <3>2. CASE Refused(t) \/ TakeSegments(t) \/ TakeRejection(t) \/ TakeFailure(t)
      BY <3>2 DEF Refused, TakeSegments, TakeRejection, TakeFailure
    <3>3. CASE Label(t) \/ Polish(t)
      BY <3>3 DEF Label, Polish
    <3>4. QED
      BY <2>2, <3>1, <3>2, <3>3 DEF Task
  <2>3. CASE UNCHANGED vars
    BY <2>3 DEF vars
  <2>4. QED
    BY <2>1, <2>2, <2>3 DEF Next
<1>3. QED
  BY <1>1, <1>2, PTL DEF Spec, ServiceSpec

(* No two inferences run at once, nor does an inference leave a file, with  *)
(* any number of tasks, recordings, retries and orphaned requests.         *)
THEOREM TranscriberKeepsGateAndFiles == Spec => [](OneInference /\ FilesAreAccountedFor)
  BY ImplementsService, GateHolds, FilesStayAccountedFor, PTL

-----------------------------------------------------------------------------
(***************************************************************************)
(* Smallest and largest numbers, and how large a union may be.             *)
(***************************************************************************)
\* Every non-empty set of naturals has a smallest element: induction over naturals
\* in the form the provers can use.
LEMMA Smallest ==
    ASSUME NEW T \in SUBSET Nat, T # {}
    PROVE  \E x \in T : \A y \in T : x <= y
<1>1. PICK x \in T : \A y \in T : ~ (<<y, x>> \in OpToRel(<, Nat))
  BY NatLessThanWellFounded, WFMin, Zenon
<1>2. \A y \in T : x <= y
  <2>. TAKE y \in T
  <2>1. ~ (<<y, x>> \in OpToRel(<, Nat))
    BY <1>1
  <2>2. x \in Nat /\ y \in Nat
    OBVIOUS
  <2>3. ~ (y < x)
    BY <2>1, <2>2 DEF OpToRel
  <2>. QED
    BY <2>2, <2>3
<1>. QED
  BY <1>2

LEMMA MinFound ==
    ASSUME NEW T \in SUBSET Nat, T # {}
    PROVE  Min(T) \in T /\ \A y \in T : Min(T) <= y
<1>1. \E x \in T : \A y \in T : x <= y
  BY Smallest
<1>. QED
  BY <1>1 DEF Min

LEMMA MaxFound ==
    ASSUME NEW T \in SUBSET Nat, T # {}, NEW n \in Nat, \A x \in T : x <= n
    PROVE  Max(T) \in T /\ \A y \in T : y <= Max(T)
<1>. DEFINE gaps == {n - x : x \in T}
<1>1. gaps \in SUBSET Nat /\ gaps # {}
  <2>1. ASSUME NEW x \in T PROVE n - x \in Nat
    <3>1. x \in Nat /\ x <= n
      OBVIOUS
    <3>. QED
      BY <3>1
  <2>. QED
    BY <2>1
<1>2. PICK g \in gaps : \A h \in gaps : g <= h
  <2>. HIDE DEF gaps
  <2>. QED
    BY <1>1, Smallest
<1>3. PICK m \in T : g = n - m
  OBVIOUS
<1>4. \A y \in T : y <= m
  <2>. TAKE y \in T
  <2>1. n - m <= n - y
    BY <1>2, <1>3
  <2>. QED
    BY <2>1
<1>5. \E x \in T : \A y \in T : x >= y
  BY <1>3, <1>4
<1>6. Max(T) \in T /\ \A y \in T : Max(T) >= y
  BY <1>5 DEF Max
<1>. QED
  BY <1>6

\* A union of n sets of at most c elements each has at most n times c.
LEMMA UnionBound ==
    ASSUME NEW n \in Nat, NEW c \in Nat, NEW A,
           \A k \in 1 .. n : IsFiniteSet(A[k]) /\ Cardinality(A[k]) <= c
    PROVE  /\ IsFiniteSet(UNION {A[k] : k \in 1 .. n})
           /\ Cardinality(UNION {A[k] : k \in 1 .. n}) <= n * c
<1>. DEFINE U(m) == UNION {A[k] : k \in 1 .. m}
            Bounded(m) == IsFiniteSet(U(m)) /\ Cardinality(U(m)) <= m * c
            Unbounded == {m \in 0 .. n : ~ Bounded(m)}
<1>1. Bounded(0)
  <2>1. U(0) = {}
    OBVIOUS
  <2>. QED
    BY <2>1, FS_EmptySet
<1>2. ASSUME NEW m \in 0 .. n, m # n, Bounded(m) PROVE Bounded(m + 1)
  <2>1. U(m + 1) = U(m) \union A[m + 1]
    OBVIOUS
  <2>2. IsFiniteSet(A[m + 1]) /\ Cardinality(A[m + 1]) <= c
    <3>1. m + 1 \in 1 .. n
      BY <1>2
    <3>. QED
      BY <3>1
  <2>. HIDE DEF U
  <2>3. /\ IsFiniteSet(U(m + 1))
        /\ Cardinality(U(m + 1)) = Cardinality(U(m)) + Cardinality(A[m + 1])
                                     - Cardinality(U(m) \intersect A[m + 1])
    BY <1>2, <2>1, <2>2, FS_Union
  <2>4. Cardinality(U(m) \intersect A[m + 1]) \in Nat
    BY <1>2, FS_Intersection, FS_CardinalityType
  <2>5. Cardinality(U(m)) \in Nat /\ Cardinality(A[m + 1]) \in Nat
    BY <1>2, <2>2, FS_CardinalityType
  <2>6. (m + 1) * c = m * c + c /\ m * c \in Nat
    OBVIOUS
  <2>. QED
    BY <1>2, <2>2, <2>3, <2>4, <2>5, <2>6
<1>. HIDE DEF Bounded
<1>3. Unbounded = {}
  <2>. SUFFICES ASSUME Unbounded # {} PROVE FALSE
    OBVIOUS
  <2>1. PICK m \in Unbounded : \A k \in Unbounded : m <= k
    <3>1. Unbounded \in SUBSET Nat
      OBVIOUS
    <3>. HIDE DEF Unbounded
    <3>. QED
      BY <3>1, Smallest
  <2>2. m # 0 /\ m - 1 \in 0 .. n /\ m - 1 # n /\ m - 1 \notin Unbounded
    BY <1>1, <2>1
  <2>3. Bounded(m - 1)
    BY <2>2
  <2>4. Bounded((m - 1) + 1)
    BY <1>2, <2>2, <2>3
  <2>. QED
    BY <2>1, <2>4
<1>4. n \in 0 .. n
  OBVIOUS
<1>5. Bounded(n)
  BY <1>3, <1>4
<1>. QED
  BY <1>5 DEF Bounded

-----------------------------------------------------------------------------
(***************************************************************************)
(* Glueing (glue_words).  Begun is defined by recursion over the words; it *)
(* has a solution up to each slot, and so one for all of them.             *)
(***************************************************************************)
Before(speech, slot) == {word \in Spoken(speech) : word < slot}
BeginsAt(speech, slot, begun) ==
    IF \/ Before(speech, slot) = {}
       \/ Closes(speech, begun[Max(Before(speech, slot))], Max(Before(speech, slot)))
    THEN slot
    ELSE begun[Max(Before(speech, slot))]

LEMMA WordBefore ==
    ASSUME NEW n \in Nat, NEW speech \in Sayable(n), NEW slot \in Spoken(speech),
           Before(speech, slot) # {}
    PROVE  LET last == Max(Before(speech, slot))
           IN  /\ last \in Spoken(speech) /\ last < slot
               /\ \A word \in Spoken(speech) : word < slot => word <= last
<1>1. Spoken(speech) \in SUBSET (0 .. n - 1)
  BY DEF Spoken, Sayable
<1>2. Before(speech, slot) \in SUBSET Nat /\ \A x \in Before(speech, slot) : x <= n
  BY <1>1 DEF Before
<1>3. /\ Max(Before(speech, slot)) \in Before(speech, slot)
      /\ \A y \in Before(speech, slot) : y <= Max(Before(speech, slot))
  BY <1>2, MaxFound
<1>. QED
  BY <1>3 DEF Before

LEMMA BegunSolves ==
    ASSUME NEW n \in Nat, NEW speech \in Sayable(n)
    PROVE  Begun(speech) = [slot \in Spoken(speech) |-> BeginsAt(speech, slot, Begun(speech))]
<1>. DEFINE words == Spoken(speech)
            Upto(m) == {slot \in words : slot < m}
            Solved(m) == \E g : g = [slot \in Upto(m) |-> BeginsAt(speech, slot, g)]
            Unsolved == {m \in Nat : ~ Solved(m)}
<1>1. words \in SUBSET (0 .. n - 1)
  BY DEF Spoken, Sayable
<1>2. Solved(0)
  <2>1. Upto(0) = {}
    BY <1>1
  <2>. DEFINE g == [slot \in {} |-> 0]
  <2>2. g = [slot \in Upto(0) |-> BeginsAt(speech, slot, g)]
    BY <2>1
  <2>. QED
    BY <2>2
<1>3. ASSUME NEW m \in Nat, Solved(m) PROVE Solved(m + 1)
  <2>1. PICK g : g = [slot \in Upto(m) |-> BeginsAt(speech, slot, g)]
    BY <1>3
  <2>. DEFINE h == [slot \in Upto(m + 1) |-> BeginsAt(speech, slot, g)]
  <2>2. \A slot \in Upto(m) : slot \in Upto(m + 1) /\ h[slot] = g[slot]
    BY <1>1, <2>1
  <2>3. ASSUME NEW slot \in Upto(m + 1)
        PROVE  BeginsAt(speech, slot, g) = BeginsAt(speech, slot, h)
    <3>. DEFINE last == Max(Before(speech, slot))
    <3>1. CASE Before(speech, slot) = {}
      BY <3>1 DEF BeginsAt
    <3>2. CASE Before(speech, slot) # {}
      <4>1. last \in words /\ last < slot
        BY <3>2, WordBefore
      <4>2. last \in Upto(m)
        BY <1>1, <4>1
      <4>3. h[last] = g[last]
        BY <2>2, <4>2
      <4>. HIDE DEF h
      <4>. QED
        BY <4>3 DEF BeginsAt
    <3>. QED
      BY <3>1, <3>2
  <2>4. h = [slot \in Upto(m + 1) |-> BeginsAt(speech, slot, h)]
    <3>1. \A slot \in Upto(m + 1) : h[slot] = BeginsAt(speech, slot, h)
      <4>1. \A slot \in Upto(m + 1) : h[slot] = BeginsAt(speech, slot, g)
        OBVIOUS
      <4>. HIDE DEF h
      <4>. QED
        BY <2>3, <4>1
    <3>2. h = [slot \in Upto(m + 1) |-> h[slot]]
      OBVIOUS
    <3>. HIDE DEF h, Upto
    <3>. QED
      BY <3>1, <3>2
  <2>. QED
    BY <2>4
<1>. HIDE DEF Solved
<1>4. Unsolved = {}
  <2>. SUFFICES ASSUME Unsolved # {} PROVE FALSE
    OBVIOUS
  <2>1. PICK m \in Unsolved : \A k \in Unsolved : m <= k
    BY Smallest
  <2>2. m # 0 /\ m - 1 \in Nat /\ m - 1 \notin Unsolved
    BY <1>2, <2>1
  <2>. QED
    BY <1>3, <2>1, <2>2
<1>5. Solved(n) /\ Upto(n) = words
  BY <1>1, <1>4
<1>6. \E g : g = [slot \in words |-> BeginsAt(speech, slot, g)]
  BY <1>5 DEF Solved
<1>. DEFINE begun == CHOOSE g : g = [slot \in words |-> BeginsAt(speech, slot, g)]
<1>7. begun = [slot \in words |-> BeginsAt(speech, slot, begun)]
  BY <1>6
<1>8. Begun(speech) = begun
  BY DEF Begun, BeginsAt, Before
<1>. QED
  BY <1>7, <1>8

\* A segment starts with one of its words, has every word from there to any of its
\* words, and none of its words but the last closes it.
LEMMA BegunSegments ==
    ASSUME NEW n \in Nat, NEW speech \in Sayable(n)
    PROVE  LET begun == Begun(speech) words == Spoken(speech)
           IN  \A w \in words :
                 /\ begun[w] \in words /\ begun[w] <= w /\ begun[begun[w]] = begun[w]
                 /\ \A v \in words : begun[w] <= v /\ v <= w => begun[v] = begun[w]
                 /\ \A v \in words : v < w /\ begun[v] = begun[w] => v + 1 - begun[w] < GlueMax
<1>. DEFINE begun == Begun(speech)
            words == Spoken(speech)
            Good(w) == /\ begun[w] \in words /\ begun[w] <= w /\ begun[begun[w]] = begun[w]
                       /\ \A v \in words : begun[w] <= v /\ v <= w => begun[v] = begun[w]
                       /\ \A v \in words : v < w /\ begun[v] = begun[w] => v + 1 - begun[w] < GlueMax
            Bad == {w \in words : ~ Good(w)}
<1>1. words \in SUBSET Nat
  BY DEF Spoken, Sayable
<1>2. \A w \in words : begun[w] = BeginsAt(speech, w, begun)
  BY BegunSolves
<1>. HIDE DEF begun
<1>3. ASSUME NEW w \in words, \A v \in words : v < w => Good(v) PROVE Good(w)
  <2>. DEFINE last == Max(Before(speech, w))
  <2>1. CASE begun[w] = w
    <3>1. ASSUME NEW v \in words, v < w, begun[v] = begun[w] PROVE FALSE
      BY <1>1, <1>3, <2>1, <3>1
    <3>2. \A v \in words : w <= v /\ v <= w => v = w
      BY <1>1
    <3>3. w <= w
      BY <1>1
    <3>. QED
      BY <2>1, <3>1, <3>2, <3>3
  <2>2. CASE begun[w] # w
    <3>1. /\ Before(speech, w) # {} /\ begun[w] = begun[last]
          /\ ~ Closes(speech, begun[last], last)
      BY <1>2, <2>2 DEF BeginsAt
    <3>2. /\ last \in words /\ last < w
          /\ \A v \in words : v < w => v <= last
      BY <3>1, WordBefore
    <3>. HIDE DEF last
    <3>3. Good(last)
      BY <1>3, <3>2
    <3>4. begun[w] \in words /\ begun[w] <= w /\ begun[begun[w]] = begun[w]
      BY <1>1, <3>1, <3>2, <3>3
    <3>5. ASSUME NEW v \in words, begun[w] <= v, v <= w PROVE begun[v] = begun[w]
      <4>1. v = w \/ v <= last
        BY <1>1, <3>2, <3>5
      <4>. QED
        BY <3>1, <3>3, <3>5, <4>1
    <3>6. ASSUME NEW v \in words, v < w, begun[v] = begun[w] PROVE v + 1 - begun[w] < GlueMax
      <4>1. v <= last
        BY <3>2, <3>6
      <4>2. CASE v < last
        BY <3>1, <3>3, <3>6, <4>2
      <4>3. CASE v = last
        BY <1>1, <3>1, <3>4, <4>3, ChunksAssumption DEF Closes
      <4>. QED
        BY <1>1, <3>2, <4>1, <4>2, <4>3
    <3>. QED
      BY <3>4, <3>5, <3>6
  <2>. QED
    BY <2>1, <2>2
<1>. HIDE DEF Good
<1>4. Bad = {}
  <2>. SUFFICES ASSUME Bad # {} PROVE FALSE
    OBVIOUS
  <2>1. PICK w \in Bad : \A v \in Bad : w <= v
    BY <1>1, Smallest
  <2>2. \A v \in words : v < w => Good(v)
    BY <1>1, <2>1
  <2>. QED
    BY <1>3, <2>1, <2>2
<1>5. \A w \in words : Good(w)
  BY <1>4
<1>. QED
  BY <1>5 DEF Good, begun

\* What is used of segments: they part the words, none skips a word between its first
\* and its last, and none is closed before its last word.
Segmented(segs, words) ==
  /\ UNION segs = words
  /\ {} \notin segs
  /\ \A s \in segs, r \in segs : \A w \in s : w \in r => s = r
  /\ \A s \in segs : \A w \in s, v \in words : Start(s) <= v /\ v <= w => v \in s
  /\ \A s \in segs : \A v \in s, w \in s : v < w => v + 1 - Start(s) < GlueMax

LEMMA MinIs ==
    ASSUME NEW T \in SUBSET Nat, NEW m \in T, \A y \in T : m <= y
    PROVE  Min(T) = m
<1>1. Min(T) \in T /\ Min(T) <= m /\ m <= Min(T)
  BY MinFound
<1>2. Min(T) \in Nat /\ m \in Nat
  BY <1>1
<1>. QED
  BY <1>1, <1>2

LEMMA GlueSegments ==
    ASSUME NEW n \in Nat, NEW speech \in Sayable(n)
    PROVE  Segmented(Glue(speech), Spoken(speech))
<1>. DEFINE begun == Begun(speech)
            words == Spoken(speech)
            From(start) == {word \in words : begun[word] = start}
            segs == Glue(speech)
<1>1. words \in SUBSET Nat
  BY DEF Spoken, Sayable
<1>2. \A w \in words :
        /\ begun[w] \in words /\ begun[w] <= w /\ begun[begun[w]] = begun[w]
        /\ \A v \in words : begun[w] <= v /\ v <= w => begun[v] = begun[w]
        /\ \A v \in words : v < w /\ begun[v] = begun[w] => v + 1 - begun[w] < GlueMax
  BY BegunSegments
<1>3. segs = {From(start) : start \in {begun[word] : word \in words}}
  BY DEF Glue
<1>. HIDE DEF begun, segs, words
<1>4. \A s \in segs : \E w \in words : s = From(begun[w])
  BY <1>3
<1>5. \A w \in words : From(begun[w]) \in segs /\ w \in From(begun[w])
  BY <1>3
<1>6. ASSUME NEW w \in words PROVE Start(From(begun[w])) = begun[w]
  <2>1. From(begun[w]) \in SUBSET Nat /\ begun[w] \in From(begun[w])
    BY <1>1, <1>2
  <2>2. \A y \in From(begun[w]) : begun[w] <= y
    BY <1>2
  <2>. QED
    BY <2>1, <2>2, MinIs DEF Start
<1>7. \A s \in segs : \A w \in s : w \in words /\ s = From(begun[w]) /\ Start(s) = begun[w]
  BY <1>4, <1>6
<1>8. UNION segs = words /\ {} \notin segs
  BY <1>4, <1>5
<1>9. \A s \in segs, r \in segs : \A w \in s : w \in r => s = r
  BY <1>7
<1>10. ASSUME NEW s \in segs, NEW w \in s, NEW v \in words, Start(s) <= v, v <= w
       PROVE  v \in s
  <2>1. begun[v] = begun[w]
    BY <1>2, <1>7, <1>10
  <2>. QED
    BY <1>7, <2>1
<1>11. ASSUME NEW s \in segs, NEW v \in s, NEW w \in s, v < w
       PROVE  v + 1 - Start(s) < GlueMax
  BY <1>2, <1>7, <1>11
<1>. QED
  BY <1>8, <1>9, <1>10, <1>11 DEF Segmented, segs, words

LEMMA ShiftedSegments ==
    ASSUME NEW segs, NEW words \in SUBSET Nat, Segmented(segs, words), NEW d \in Nat
    PROVE  Segmented(Shifted(segs, d), {w + d : w \in words})
<1>. DEFINE By(s) == {slot + d : slot \in s}
            moved == Shifted(segs, d)
            there == {w + d : w \in words}
<1>1. moved = {By(s) : s \in segs}
  BY DEF Shifted
<1>2. \A s \in segs : s # {} /\ s \subseteq words
  BY DEF Segmented
<1>3. ASSUME NEW s \in segs PROVE Start(By(s)) = Start(s) + d /\ Start(s) \in Nat
  <2>1. Min(s) \in s /\ \A y \in s : Min(s) <= y
    BY <1>2, MinFound
  <2>2. \A slot \in s : slot \in Nat /\ slot + d \in Nat /\ Min(s) + d <= slot + d
    <3>1. \A slot \in s : slot \in Nat /\ Min(s) \in Nat
      BY <1>2, <2>1
    <3>. QED
      BY <2>1, <3>1
  <2>3. By(s) \in SUBSET Nat /\ Min(s) + d \in By(s)
    BY <2>1, <2>2
  <2>4. \A y \in By(s) : Min(s) + d <= y
    BY <2>2
  <2>. HIDE DEF By
  <2>5. Min(By(s)) = Min(s) + d
    BY <2>3, <2>4, MinIs
  <2>. QED
    BY <2>1, <2>2, <2>5 DEF Start
<1>4. \A r \in moved : \E s \in segs : r = By(s)
  BY <1>1
<1>5. \A s \in segs : \A w \in Nat : w + d \in By(s) <=> w \in s
  BY <1>2
<1>6. UNION moved = there
  <2>1. ASSUME NEW x \in UNION moved PROVE x \in there
    <3>1. PICK s \in segs : x \in By(s)
      <4>. HIDE DEF moved, By
      <4>. QED
        BY <1>4
    <3>. QED
      BY <1>2, <3>1
  <2>2. ASSUME NEW x \in there PROVE x \in UNION moved
    <3>1. PICK w \in words : x = w + d
      OBVIOUS
    <3>2. PICK s \in segs : w \in s
      BY DEF Segmented
    <3>3. By(s) \in moved /\ x \in By(s)
      BY <1>1, <3>1, <3>2
    <3>. QED
      BY <3>3
  <2>. QED
    BY <2>1, <2>2
<1>7. {} \notin moved
  BY <1>2, <1>4
<1>8. ASSUME NEW s \in moved, NEW r \in moved, NEW w \in s, w \in r PROVE s = r
  <2>1. PICK p \in segs, q \in segs : s = By(p) /\ r = By(q)
    BY <1>4
  <2>2. PICK v \in p : w = v + d
    BY <2>1
  <2>3. v \in Nat /\ v \in q
    BY <1>2, <1>5, <1>8, <2>1, <2>2
  <2>4. p = q
    BY <2>3 DEF Segmented
  <2>. QED
    BY <2>1, <2>4
<1>9. ASSUME NEW s \in moved, NEW w \in s, NEW v \in there, Start(s) <= v, v <= w
      PROVE  v \in s
  <2>1. PICK p \in segs : s = By(p)
    BY <1>4
  <2>2. PICK x \in p : w = x + d
    BY <2>1
  <2>3. PICK y \in words : v = y + d
    OBVIOUS
  <2>4. x \in Nat /\ y \in Nat /\ Start(p) \in Nat /\ Start(s) = Start(p) + d
    BY <1>2, <1>3, <2>1
  <2>5. Start(p) <= y /\ y <= x
    BY <1>9, <2>2, <2>3, <2>4
  <2>6. y \in p
    BY <2>5 DEF Segmented
  <2>. QED
    BY <2>1, <2>3, <2>6
<1>10. ASSUME NEW s \in moved, NEW v \in s, NEW w \in s, v < w
       PROVE  v + 1 - Start(s) < GlueMax
  <2>1. PICK p \in segs : s = By(p)
    BY <1>4
  <2>2. PICK x \in p, y \in p : v = x + d /\ w = y + d
    BY <2>1
  <2>4. x \in Nat /\ y \in Nat /\ Start(p) \in Nat /\ Start(s) = Start(p) + d
    BY <1>2, <1>3, <2>1
  <2>5. x < y
    BY <1>10, <2>2, <2>4
  <2>6. x + 1 - Start(p) < GlueMax
    BY <2>5 DEF Segmented
  <2>. QED
    BY <2>2, <2>4, <2>6
<1>. HIDE DEF moved, there
<1>11. Segmented(moved, there)
  BY <1>6, <1>7, <1>8, <1>9, <1>10 DEF Segmented
<1>. QED
  BY <1>11 DEF moved, there

\* What was said in a slice is heard in it, and nothing else.
SaidIn(speech, from, to) == {w \in Spoken(speech) : from <= w /\ w < to}

LEMMA HeardInSlice ==
    ASSUME NEW n \in Nat, NEW speech \in Sayable(n), NEW slice,
           slice.from \in Nat, slice.to \in Nat,
           slice.from <= slice.to, slice.to <= n
    PROVE  Segmented(Shifted(Heard(speech, slice), slice.from),
                     SaidIn(speech, slice.from, slice.to))
<1>. DEFINE f == slice.from
            heard == [slot \in 0 .. slice.to - f - 1 |-> speech[f + slot]]
<1>1. slice.to - f \in Nat /\ heard \in Sayable(slice.to - f)
  <2>1. slice.to - f \in Nat
    OBVIOUS
  <2>2. \A slot \in 0 .. slice.to - f - 1 : f + slot \in 0 .. n - 1
    OBVIOUS
  <2>. QED
    BY <2>1, <2>2 DEF Sayable
<1>2. Segmented(Heard(speech, slice), Spoken(heard))
  BY <1>1, GlueSegments DEF Heard
<1>3. Spoken(heard) \in SUBSET Nat
  BY <1>1 DEF Spoken, Sayable
<1>4. Segmented(Shifted(Heard(speech, slice), f), {w + f : w \in Spoken(heard)})
  BY <1>2, <1>3, ShiftedSegments
<1>5. {w + f : w \in Spoken(heard)} = SaidIn(speech, f, slice.to)
  <2>1. ASSUME NEW w \in Spoken(heard) PROVE w + f \in SaidIn(speech, f, slice.to)
    <3>1. w \in 0 .. slice.to - f - 1 /\ speech[f + w] # "silence"
      BY DEF Spoken
    <3>2. w + f = f + w /\ w + f \in 0 .. n - 1 /\ f <= w + f /\ w + f < slice.to
      BY <3>1
    <3>. QED
      BY <3>1, <3>2 DEF SaidIn, Spoken, Sayable
  <2>2. ASSUME NEW v \in SaidIn(speech, f, slice.to)
        PROVE  v \in {w + f : w \in Spoken(heard)}
    <3>1. v \in 0 .. n - 1 /\ speech[v] # "silence" /\ f <= v /\ v < slice.to
      BY DEF SaidIn, Spoken, Sayable
    <3>2. v - f \in 0 .. slice.to - f - 1 /\ (v - f) + f = v /\ f + (v - f) = v
      BY <3>1
    <3>3. v - f \in Spoken(heard)
      BY <3>1, <3>2 DEF Spoken
    <3>. QED
      BY <3>2, <3>3
  <2>. QED
    BY <2>1, <2>2
<1>. QED
  BY <1>4, <1>5

-----------------------------------------------------------------------------
(***************************************************************************)
(* Slicing (_split_wav_overlapping): the slices cover the recording, each  *)
(* starts an overlap before the end of the one before, and if they are no  *)
(* shorter than two overlaps no slice meets the second after it.           *)
(***************************************************************************)
Cut(slices, n, length) ==
  /\ slices[1].from = 0 /\ slices[n].to = length
  /\ \A i \in 1 .. n :
       /\ slices[i].from \in Nat /\ slices[i].to \in Nat
       /\ slices[i].from <= slices[i].to /\ slices[i].to <= length
  /\ \A i \in 1 .. n : i + 1 \in 1 .. n => slices[i + 1].from <= slices[i].to
  /\ \A i \in 1 .. n, j \in 1 .. n : i < j =>
       /\ slices[i].to <= slices[j].to
       /\ ShortOverlaps /\ i + 1 < j => slices[i].to <= slices[j].from

LEMMA Multiples ==
    ASSUME NEW a \in Nat, NEW b \in Nat, NEW c \in Nat, a <= b
    PROVE  a * c \in Nat /\ a * c <= b * c
<1>. DEFINE d == b - a
<1>1. d \in Nat /\ b = a + d
  OBVIOUS
<1>2. d * c \in Nat /\ a * c \in Nat /\ (a + d) * c = a * c + d * c
  BY <1>1
<1>. QED
  BY <1>1, <1>2

LEMMA LenIs ==
    ASSUME NEW n \in Nat, NEW list, DOMAIN list = 1 .. n
    PROVE  Len(list) = n
  OBVIOUS

LEMMA SplitCuts ==
    ASSUME NEW length \in Nat
    PROVE  /\ Len(Split(length)) \in Nat \ {0}
           /\ DOMAIN Split(length) = 1 .. Len(Split(length))
           /\ Cut(Split(length), Len(Split(length)), length)
<1>. DEFINE stride == ChunkLength - Overlap
            Ends == {k \in 0 .. length : k * stride + ChunkLength >= length}
            last == Min(Ends)
            slices == [i \in 1 .. last + 1 |->
                         [from |-> (i - 1) * stride,
                          to |-> Min({(i - 1) * stride + ChunkLength, length})]]
<1>1. stride \in Nat /\ 1 <= stride /\ ChunkLength \in Nat /\ Overlap \in Nat
      /\ ChunkLength = stride + Overlap
  BY ChunksAssumption
<1>. HIDE DEF stride
<1>2. length \in Ends
  <2>1. 1 * length <= stride * length
    BY <1>1, Multiples
  <2>2. stride * length = length * stride /\ 1 * length = length /\ length * stride \in Nat
    BY <1>1
  <2>. QED
    BY <1>1, <2>1, <2>2
<1>3. /\ last \in 0 .. length /\ last * stride + ChunkLength >= length
      /\ \A k \in 0 .. length : k * stride + ChunkLength >= length => last <= k
  <2>1. Ends \in SUBSET Nat /\ Ends # {}
    BY <1>2
  <2>2. last \in Ends /\ \A y \in Ends : last <= y
    BY <2>1, MinFound
  <2>. QED
    BY <2>2
<1>4. Split(length) = slices
  BY DEF Split, stride
<1>. HIDE DEF last
<1>5. ASSUME NEW i \in 1 .. last + 1
      PROVE  /\ (i - 1) * stride \in Nat
             /\ i * stride = (i - 1) * stride + stride
  BY <1>1, <1>3
<1>6. ASSUME NEW i \in 1 .. last + 1
      PROVE  /\ slices[i].from = (i - 1) * stride
             /\ i # last + 1 => slices[i].to = (i - 1) * stride + ChunkLength /\ slices[i].to < length
             /\ i = last + 1 => slices[i].to = length
  <2>. DEFINE at == (i - 1) * stride + ChunkLength
  <2>1. slices[i].from = (i - 1) * stride /\ slices[i].to = Min({at, length})
    OBVIOUS
  <2>2. at \in Nat
    BY <1>1, <1>5
  <2>3. CASE i # last + 1
    <3>1. i - 1 \in 0 .. length /\ i - 1 < last
      BY <1>3, <2>3
    <3>2. at < length
      BY <1>1, <1>3, <1>5, <3>1
    <3>. HIDE DEF at
    <3>3. {at, length} \in SUBSET Nat /\ at \in {at, length} /\ \A y \in {at, length} : at <= y
      BY <2>2, <3>2
    <3>4. Min({at, length}) = at
      BY <3>3, MinIs
    <3>. QED
      BY <2>1, <2>3, <3>2, <3>4 DEF at
  <2>4. CASE i = last + 1
    <3>1. at >= length
      <4>1. i - 1 = last
        BY <1>3, <2>4
      <4>. QED
        BY <1>3, <4>1
    <3>. HIDE DEF at
    <3>3. /\ {at, length} \in SUBSET Nat /\ length \in {at, length}
          /\ \A y \in {at, length} : length <= y
      BY <2>2, <3>1
    <3>4. Min({at, length}) = length
      BY <3>3, MinIs
    <3>. QED
      BY <2>1, <2>4, <3>4
  <2>. QED
    BY <2>1, <2>3, <2>4
<1>7. DOMAIN slices = 1 .. last + 1 /\ Len(slices) = last + 1 /\ last + 1 \in Nat \ {0}
  <2>1. last \in Nat
    BY <1>3
  <2>2. DOMAIN slices = 1 .. last + 1
    OBVIOUS
  <2>. HIDE DEF slices
  <2>3. Len(slices) = last + 1
    BY <2>1, <2>2, LenIs
  <2>. QED
    BY <2>1, <2>2, <2>3
<1>. HIDE DEF slices
<1>8. slices[1].from = 0 /\ slices[last + 1].to = length
  <2>1. 1 \in 1 .. last + 1 /\ last + 1 \in 1 .. last + 1 /\ (1 - 1) * stride = 0
    BY <1>1, <1>3
  <2>. QED
    BY <1>6, <2>1
<1>9. ASSUME NEW i \in 1 .. last + 1
      PROVE  /\ slices[i].from \in Nat /\ slices[i].to \in Nat
             /\ slices[i].from <= slices[i].to /\ slices[i].to <= length
  <2>1. CASE i # last + 1
    BY <1>1, <1>5, <1>6, <2>1
  <2>2. CASE i = last + 1 /\ last = 0
    <3>1. slices[i].from = 0 /\ slices[i].to = length
      BY <1>8, <2>2
    <3>. QED
      BY <3>1
  <2>3. CASE i = last + 1 /\ last # 0
    <3>1. last \in 1 .. last + 1 /\ last # last + 1
      BY <1>3, <2>3
    <3>2. slices[last].to = (last - 1) * stride + ChunkLength /\ slices[last].to < length
      BY <1>6, <3>1
    <3>3. (last - 1) * stride \in Nat /\ last * stride = (last - 1) * stride + stride
      BY <1>5, <3>1
    <3>4. i - 1 = last
      BY <1>3, <2>3
    <3>5. slices[i].from = last * stride /\ slices[i].to = length
      BY <1>6, <2>3, <3>4
    <3>. QED
      BY <1>1, <3>2, <3>3, <3>5
  <2>. QED
    BY <2>1, <2>2, <2>3
<1>10. ASSUME NEW i \in 1 .. last + 1, i + 1 \in 1 .. last + 1
       PROVE  slices[i + 1].from <= slices[i].to
  <2>1. i # last + 1 /\ (i + 1) - 1 = i
    BY <1>3, <1>10
  <2>2. slices[i + 1].from = i * stride
    BY <1>6, <1>10, <2>1
  <2>. QED
    BY <1>1, <1>5, <1>6, <2>1, <2>2
<1>11. ASSUME NEW i \in 1 .. last + 1, NEW j \in 1 .. last + 1, i < j
       PROVE  /\ slices[i].to <= slices[j].to
              /\ ShortOverlaps /\ i + 1 < j => slices[i].to <= slices[j].from
  <2>1. i # last + 1 /\ i - 1 \in Nat /\ j - 1 \in Nat /\ i - 1 <= j - 1
    BY <1>3, <1>11
  <2>2. slices[i].to = (i - 1) * stride + ChunkLength /\ slices[i].to < length
    BY <1>6, <2>1
  <2>3. (i - 1) * stride <= (j - 1) * stride
    BY <1>1, <2>1, Multiples
  <2>4. slices[i].to <= slices[j].to
    BY <1>1, <1>5, <1>6, <2>2, <2>3
  <2>5. ASSUME ShortOverlaps, i + 1 < j PROVE slices[i].to <= slices[j].from
    <3>1. i + 1 \in Nat /\ i + 1 <= j - 1 /\ i + 1 \in 1 .. last + 1 /\ (i + 1) - 1 = i
      BY <1>3, <2>5
    <3>2. (i + 1) * stride <= (j - 1) * stride
      BY <1>1, <2>1, <3>1, Multiples
    <3>3. (i + 1) * stride = i * stride + stride
      BY <1>5, <3>1
    <3>4. i * stride = (i - 1) * stride + stride /\ (i - 1) * stride \in Nat
          /\ (j - 1) * stride \in Nat
      BY <1>5
    <3>5. Overlap <= stride
      BY <1>1, <2>5 DEF ShortOverlaps
    <3>6. slices[j].from = (j - 1) * stride
      BY <1>6
    <3>. QED
      BY <1>1, <2>2, <3>2, <3>3, <3>4, <3>5, <3>6
  <2>. QED
    BY <2>4, <2>5
<1>12. Cut(slices, last + 1, length)
  BY <1>8, <1>9, <1>10, <1>11 DEF Cut
<1>. QED
  BY <1>4, <1>7, <1>12

\* A recording that fits one upload is cut into one slice.
LEMMA OneSliceCuts ==
    ASSUME NEW length \in Nat
    PROVE  Cut(<<[from |-> 0, to |-> length]>>, 1, length)
<1>. DEFINE slices == <<[from |-> 0, to |-> length]>>
<1>1. slices[1].from = 0 /\ slices[1].to = length
  OBVIOUS
<1>. HIDE DEF slices
<1>2. \A i \in 1 .. 1 : i = 1
  OBVIOUS
<1>3. Cut(slices, 1, length)
  BY <1>1, <1>2 DEF Cut
<1>. QED
  BY <1>3 DEF slices

-----------------------------------------------------------------------------
(***************************************************************************)
(* Stitching.  Every slice is segmented; the last word heard before slice  *)
(* k is the last that was said before the end of slice k - 1.              *)
(***************************************************************************)
Sliced(n, length, speech, slices, results) ==
  /\ n \in Nat \ {0} /\ length \in Nat /\ speech \in Sayable(length)
  /\ Cut(slices, n, length)
  /\ DOMAIN results = 1 .. n
  /\ \A k \in 1 .. n : Segmented(results[k], SaidIn(speech, slices[k].from, slices[k].to))

LEMMA SlicesCover ==
    ASSUME NEW n, NEW length, NEW speech, NEW slices, NEW results,
           Sliced(n, length, speech, slices, results),
           NEW j \in 1 .. n, NEW v \in Nat, v < slices[j].to
    PROVE  \E i \in 1 .. j : slices[i].from <= v /\ v < slices[i].to
                             /\ (\A k \in 1 .. n : k < i => slices[k].to <= v)
<1>. DEFINE past == {i \in 1 .. n : v < slices[i].to}
<1>1. n \in Nat /\ Cut(slices, n, length)
  BY DEF Sliced
<1>2. past \in SUBSET Nat /\ j \in past
  BY <1>1
<1>3. PICK i \in past : \A k \in past : i <= k
  BY <1>2, Smallest
<1>4. i \in 1 .. n /\ i <= j /\ i \in 1 .. j
  BY <1>1, <1>2, <1>3
<1>5. \A k \in 1 .. n : k < i => slices[k].to <= v
  <2>. TAKE k \in 1 .. n
  <2>1. slices[k].to \in Nat
    BY <1>1 DEF Cut
  <2>2. k < i => k \notin past
    BY <1>1, <1>3, <1>4
  <2>. QED
    BY <2>1, <2>2
<1>6. slices[i].from <= v
  <2>1. CASE i = 1
    BY <1>1, <2>1 DEF Cut
  <2>2. CASE i # 1
    <3>1. i - 1 \in 1 .. n /\ i - 1 < i /\ (i - 1) + 1 = i
      BY <1>1, <1>4, <2>2
    <3>2. slices[i].from <= slices[i - 1].to
      BY <1>1, <1>4, <3>1 DEF Cut
    <3>3. slices[i - 1].to <= v
      BY <1>5, <3>1
    <3>4. slices[i].from \in Nat /\ slices[i - 1].to \in Nat
      BY <1>1, <1>4, <3>1 DEF Cut
    <3>. QED
      BY <3>2, <3>3, <3>4
  <2>. QED
    BY <2>1, <2>2
<1>. QED
  BY <1>3, <1>4, <1>5, <1>6

LEMMA HeardBefore ==
    ASSUME NEW n, NEW length, NEW speech, NEW slices, NEW results,
           Sliced(n, length, speech, slices, results),
           NEW k \in 1 .. n
    PROVE  LET last == HeardTo(results, k)
           IN  /\ last \in Nat
               /\ \A j \in 1 .. n : j < k =>
                    \A v \in Spoken(speech) : v < slices[j].to => v < last
               /\ last > 0 => /\ last - 1 \in Spoken(speech)
                              /\ k - 1 \in 1 .. n /\ last - 1 < slices[k - 1].to
<1>. DEFINE heard == {i \in 1 .. k - 1 : results[i] # {}}
            words(i) == SaidIn(speech, slices[i].from, slices[i].to)
<1>1. /\ n \in Nat /\ Cut(slices, n, length)
      /\ Spoken(speech) \in SUBSET Nat /\ \A v \in Spoken(speech) : v < length
      /\ length \in Nat
  BY DEF Sliced, Spoken, Sayable
<1>2. \A i \in 1 .. n : Segmented(results[i], words(i))
  BY DEF Sliced
<1>3. ASSUME NEW i \in 1 .. n
      PROVE  UNION results[i] = words(i) /\ (results[i] = {} <=> words(i) = {})
  <2>. HIDE DEF words
  <2>1. UNION results[i] = words(i) /\ {} \notin results[i]
    BY <1>2 DEF Segmented
  <2>2. CASE results[i] = {}
    BY <2>1, <2>2
  <2>3. CASE results[i] # {}
    <3>1. PICK s \in results[i] : s # {}
      BY <2>1, <2>3
    <3>. QED
      BY <2>1, <2>3, <3>1
  <2>. QED
    BY <2>1, <2>2, <2>3
<1>4. ASSUME NEW j \in 1 .. n, j < k, NEW v \in Spoken(speech), v < slices[j].to
      PROVE  \E i \in heard : i <= j /\ v \in words(i)
  <2>1. PICK i \in 1 .. j : slices[i].from <= v /\ v < slices[i].to
    BY <1>1, <1>4, SlicesCover
  <2>2. i \in 1 .. n /\ i \in 1 .. k - 1 /\ i <= j
    BY <1>1, <1>4
  <2>3. v \in words(i)
    BY <2>1 DEF SaidIn
  <2>. QED
    BY <1>3, <2>2, <2>3
<1>5. CASE heard = {}
  <2>1. HeardTo(results, k) = 0
    BY <1>5 DEF HeardTo
  <2>2. \A j \in 1 .. n : j < k =>
          \A v \in Spoken(speech) : v < slices[j].to => v < HeardTo(results, k)
    BY <1>4, <1>5
  <2>. QED
    BY <2>1, <2>2
<1>6. CASE heard # {}
  <2>. DEFINE m == Max(heard)
              w == Max(words(m))
  <2>1. heard \in SUBSET Nat /\ \A i \in heard : i <= n
    BY <1>1
  <2>2. m \in heard /\ \A i \in heard : i <= m
    BY <1>6, <2>1, MaxFound, <1>1
  <2>3. m \in 1 .. n /\ m \in 1 .. k - 1 /\ k - 1 \in 1 .. n /\ words(m) # {}
    <3>. HIDE DEF m, words
    <3>1. m \in 1 .. k - 1 /\ results[m] # {}
      BY <2>2
    <3>2. m \in 1 .. n /\ k - 1 \in 1 .. n
      BY <1>1, <3>1
    <3>. QED
      BY <1>3, <3>1, <3>2
  <2>4. HeardTo(results, k) = w + 1
    <3>1. HeardTo(results, k) = Max(UNION results[m]) + 1
      BY <1>6 DEF HeardTo, End
    <3>. QED
      BY <1>3, <2>3, <3>1
  <2>. HIDE DEF m
  <2>5. words(m) \in SUBSET Nat /\ \A v \in words(m) : v <= length
    <3>1. \A v \in words(m) : v \in Spoken(speech)
      BY DEF SaidIn
    <3>2. \A v \in words(m) : v \in Nat /\ v < length
      BY <1>1, <3>1
    <3>3. \A v \in words(m) : v <= length
      BY <1>1, <3>2
    <3>. QED
      BY <3>2, <3>3
  <2>6. w \in words(m) /\ \A v \in words(m) : v <= w
    <3>. HIDE DEF words
    <3>. QED
      BY <1>1, <2>3, <2>5, MaxFound
  <2>7. w \in Nat /\ w \in Spoken(speech) /\ slices[m].from <= w /\ w < slices[m].to
    BY <2>5, <2>6 DEF SaidIn
  <2>. HIDE DEF w
  <2>8. ASSUME NEW j \in 1 .. n, j < k, NEW v \in Spoken(speech), v < slices[j].to
        PROVE  v < w + 1
    <3>1. PICK i \in heard : i <= j /\ v \in words(i)
      BY <1>4, <2>8
    <3>2. i \in 1 .. n /\ i <= m /\ i \in Nat /\ m \in Nat
      BY <1>1, <2>2, <2>3
    <3>3. v \in Nat /\ v < slices[i].to
      BY <1>1, <3>1 DEF SaidIn
    <3>4. slices[i].to <= slices[m].to
      <4>1. CASE i = m
        BY <1>1, <2>3, <4>1 DEF Cut
      <4>2. CASE i < m
        BY <1>1, <2>3, <3>2, <4>2 DEF Cut
      <4>. QED
        BY <3>2, <4>1, <4>2
    <3>5. slices[i].to \in Nat /\ slices[m].to \in Nat /\ slices[m].from \in Nat
      BY <1>1, <2>3, <3>2 DEF Cut
    <3>6. CASE v < slices[m].from
      BY <2>7, <3>3, <3>5, <3>6
    <3>7. CASE slices[m].from <= v
      <4>1. v \in words(m)
        BY <3>3, <3>4, <3>5, <3>7 DEF SaidIn
      <4>2. v <= w
        BY <2>6, <4>1
      <4>. QED
        BY <2>7, <3>3, <4>2
    <3>. QED
      BY <3>3, <3>5, <3>6, <3>7
  <2>9. w < slices[k - 1].to
    <3>1. CASE m = k - 1
      BY <2>7, <3>1
    <3>2. CASE m < k - 1
      <4>1. slices[m].to <= slices[k - 1].to
        BY <1>1, <2>3, <3>2 DEF Cut
      <4>2. slices[m].to \in Nat /\ slices[k - 1].to \in Nat
        BY <1>1, <2>3 DEF Cut
      <4>. QED
        BY <2>7, <4>1, <4>2
    <3>. QED
      BY <2>3, <3>1, <3>2
  <2>10. w + 1 \in Nat /\ (w + 1) - 1 = w
    BY <2>7
  <2>. QED
    BY <2>3, <2>4, <2>7, <2>8, <2>9, <2>10
<1>. QED
  BY <1>5, <1>6

\* A line is a segment of its slice that starts at most half an overlap before the end
\* of what was heard.
LEMMA LineOf ==
    ASSUME NEW n, NEW length, NEW speech, NEW slices, NEW results,
           Sliced(n, length, speech, slices, results),
           NEW line \in Stitched(results)
    PROVE  /\ line.slice \in 1 .. n
           /\ line.words \in results[line.slice]
           /\ line = [slice |-> line.slice, words |-> line.words]
           /\ Start(line.words) \in line.words
           /\ line.words \subseteq SaidIn(speech, slices[line.slice].from, slices[line.slice].to)
           /\ ~ Start(line.words) < HeardTo(results, line.slice) - Half
<1>1. PICK k \in DOMAIN results :
        \E segment \in Kept(results, k, Half) : line = [slice |-> k, words |-> segment]
  BY DEF Stitched, StitchedBehind
<1>. PICK segment \in Kept(results, k, Half) : line = [slice |-> k, words |-> segment]
  BY <1>1
<1>2. /\ k \in 1 .. n /\ Segmented(results[k], SaidIn(speech, slices[k].from, slices[k].to))
      /\ segment \in results[k] /\ ~ Start(segment) < HeardTo(results, k) - Half
      /\ speech \in Sayable(length) /\ length \in Nat
  BY DEF Sliced, Kept
<1>3. segment # {} /\ segment \subseteq SaidIn(speech, slices[k].from, slices[k].to)
  BY <1>2 DEF Segmented
<1>4. segment \in SUBSET Nat
  <2>1. SaidIn(speech, slices[k].from, slices[k].to) \in SUBSET Nat
    BY <1>2 DEF SaidIn, Spoken, Sayable
  <2>. QED
    BY <1>3, <2>1
<1>5. Start(segment) \in segment
  BY <1>3, <1>4, MinFound DEF Start
<1>6. line.slice = k /\ line.words = segment
  OBVIOUS
<1>. QED
  BY <1>2, <1>3, <1>5, <1>6

\* Lines that share a word are one, or of different slices.
LEMMA LinesOfOneSlice ==
    ASSUME NEW n, NEW length, NEW speech, NEW slices, NEW results,
           Sliced(n, length, speech, slices, results),
           NEW one \in Stitched(results), NEW other \in Stitched(results),
           NEW v \in one.words, v \in other.words, one.slice = other.slice
    PROVE  one = other
<1>1. /\ one.slice \in 1 .. n
      /\ one.words \in results[one.slice] /\ other.words \in results[one.slice]
      /\ one = [slice |-> one.slice, words |-> one.words]
      /\ other = [slice |-> other.slice, words |-> other.words]
  BY LineOf
<1>2. Segmented(results[one.slice],
                SaidIn(speech, slices[one.slice].from, slices[one.slice].to))
  BY <1>1 DEF Sliced
<1>3. one.words = other.words
  BY <1>1, <1>2 DEF Segmented
<1>. QED
  BY <1>1, <1>3

-----------------------------------------------------------------------------
(***************************************************************************)
(* What is lost at a boundary: a word that is missing belongs to a segment *)
(* that was dropped, and so to the one with the last word heard before.    *)
(***************************************************************************)
LEMMA LossBound == LossPerBoundary \in Nat /\ GlueMax - Half - 1 <= LossPerBoundary
<1>. DEFINE c == GlueMax - Half - 1
            S == {0, c}
<1>1. Half \in Nat /\ c \in Int
  BY ChunksAssumption DEF Half
<1>. HIDE DEF c
<1>2. \E x \in S : \A y \in S : x >= y
  BY <1>1
<1>3. Max(S) \in S /\ \A y \in S : Max(S) >= y
  BY <1>2 DEF Max
<1>4. Max(S) \in Nat /\ c <= Max(S)
  BY <1>1, <1>3
<1>5. LossPerBoundary = Max(S)
  BY DEF LossPerBoundary, c
<1>. QED
  BY <1>4, <1>5 DEF c

Missing(speech, results) == Spoken(speech) \ Written(Stitched(results))

LEMMA MissingWord ==
    ASSUME NEW n, NEW length, NEW speech, NEW slices, NEW results,
           Sliced(n, length, speech, slices, results),
           NEW k \in 1 .. n, NEW v \in Missing(speech, results), v < slices[k].to,
           \A j \in 1 .. n : j < k => slices[j].to <= v
    PROVE  \E s \in results[k] :
             LET w == HeardTo(results, k) - 1
             IN  /\ v \in s /\ w \in s /\ k # 1 /\ w \in Nat /\ w < v
                 /\ Start(s) < w + 1 - Half
<1>1. /\ n \in Nat /\ Cut(slices, n, length)
      /\ Spoken(speech) \in SUBSET Nat
      /\ Segmented(results[k], SaidIn(speech, slices[k].from, slices[k].to))
      /\ DOMAIN results = 1 .. n /\ k \in Nat
  BY DEF Sliced, Spoken, Sayable
<1>2. v \in Spoken(speech) /\ v \in Nat
  BY <1>1 DEF Missing
<1>3. slices[k].from <= v
  <2>1. PICK i \in 1 .. k : /\ slices[i].from <= v /\ v < slices[i].to
    BY <1>2, SlicesCover
  <2>2. i \in 1 .. n /\ i \in Nat /\ i <= k
    BY <1>1
  <2>3. slices[i].to \in Nat
    BY <1>1, <2>2 DEF Cut
  <2>4. ~ i < k
    BY <1>2, <2>1, <2>2, <2>3
  <2>. QED
    BY <1>1, <2>1, <2>2, <2>4
<1>4. v \in SaidIn(speech, slices[k].from, slices[k].to)
  BY <1>2, <1>3 DEF SaidIn
<1>5. PICK s \in results[k] : v \in s
  BY <1>1, <1>4 DEF Segmented
<1>6. Start(s) < HeardTo(results, k) - Half
  <2>. SUFFICES ASSUME ~ Start(s) < HeardTo(results, k) - Half PROVE FALSE
    OBVIOUS
  <2>1. s \in Kept(results, k, Half)
    BY DEF Kept
  <2>2. [slice |-> k, words |-> s] \in Stitched(results)
    BY <1>1, <2>1 DEF Stitched, StitchedBehind
  <2>3. v \in Written(Stitched(results))
    BY <1>5, <2>2 DEF Written
  <2>. QED
    BY <2>3 DEF Missing
<1>. DEFINE last == HeardTo(results, k)
            w == last - 1
<1>7. /\ last \in Nat
      /\ last > 0 => w \in Spoken(speech) /\ k - 1 \in 1 .. n /\ w < slices[k - 1].to
  BY HeardBefore
<1>. HIDE DEF last
<1>8. Start(s) \in s /\ Start(s) \in Nat /\ slices[k].from <= Start(s)
  <2>1. s # {} /\ s \subseteq SaidIn(speech, slices[k].from, slices[k].to)
    BY <1>5, <1>1 DEF Segmented
  <2>2. s \in SUBSET Nat
    BY <1>1, <2>1 DEF SaidIn
  <2>3. Start(s) \in s
    BY <2>1, <2>2, MinFound DEF Start
  <2>. QED
    BY <2>1, <2>2, <2>3 DEF SaidIn
<1>9. Half \in Nat
  BY ChunksAssumption DEF Half
<1>10. last > 0
  BY <1>6, <1>7, <1>8, <1>9 DEF last
<1>11. w \in Spoken(speech) /\ w \in Nat /\ k - 1 \in 1 .. n /\ w < slices[k - 1].to
  BY <1>1, <1>7, <1>10
<1>12. w < v /\ k # 1
  <2>1. k - 1 < k /\ k # 1
    BY <1>1, <1>11
  <2>2. slices[k - 1].to <= v /\ slices[k - 1].to \in Nat
    BY <1>1, <1>11, <2>1 DEF Cut
  <2>. QED
    BY <1>2, <1>11, <2>1, <2>2
<1>13. Start(s) < w + 1 - Half /\ Start(s) <= w
  BY <1>6, <1>7, <1>8, <1>9 DEF last
<1>14. w \in SaidIn(speech, slices[k].from, slices[k].to)
  <2>1. slices[k].from \in Nat /\ slices[k].to \in Nat
    BY <1>1 DEF Cut
  <2>2. slices[k].from <= w /\ w < slices[k].to
    BY <1>2, <1>8, <1>11, <1>12, <1>13, <2>1
  <2>. QED
    BY <1>11, <2>2 DEF SaidIn
<1>15. w \in s
  <2>1. w <= v
    BY <1>2, <1>11, <1>12
  <2>. HIDE DEF w
  <2>. QED
    BY <1>1, <1>5, <1>13, <1>14, <2>1 DEF Segmented
<1>. QED
  BY <1>5, <1>11, <1>12, <1>13, <1>15 DEF last

Lost(speech, slices, results, k) ==
  {v \in Missing(speech, results) : slices[k].to <= v /\ v < slices[k + 1].to}

LEMMA LossAtBoundary ==
    ASSUME NEW n, NEW length, NEW speech, NEW slices, NEW results,
           Sliced(n, length, speech, slices, results),
           NEW k \in 1 .. n, k + 1 \in 1 .. n
    PROVE  /\ IsFiniteSet(Lost(speech, slices, results, k))
           /\ Cardinality(Lost(speech, slices, results, k)) <= LossPerBoundary
<1>. DEFINE lost == Lost(speech, slices, results, k)
            segs == results[k + 1]
            w == HeardTo(results, k + 1) - 1
<1>1. /\ n \in Nat /\ Cut(slices, n, length)
      /\ Spoken(speech) \in SUBSET Nat /\ (\A v \in Spoken(speech) : v <= length)
      /\ length \in Nat
      /\ Segmented(segs, SaidIn(speech, slices[k + 1].from, slices[k + 1].to))
      /\ k \in Nat /\ k < k + 1
  BY DEF Sliced, Spoken, Sayable
<1>2. ASSUME NEW v \in lost
      PROVE  \E s \in segs : /\ v \in s /\ w \in s /\ w \in Nat /\ w < v
                             /\ Start(s) < w + 1 - Half
  <2>1. v \in Missing(speech, results) /\ slices[k].to <= v /\ v < slices[k + 1].to
    BY DEF Lost
  <2>2. v \in Nat
    BY <1>1, <2>1 DEF Missing
  <2>3. ASSUME NEW j \in 1 .. n, j < k + 1 PROVE slices[j].to <= v
    <3>1. slices[j].to \in Nat /\ slices[k].to \in Nat
      BY <1>1 DEF Cut
    <3>2. CASE j = k
      BY <2>1, <3>2
    <3>3. CASE j < k
      <4>1. slices[j].to <= slices[k].to
        BY <1>1, <3>3 DEF Cut
      <4>. QED
        BY <2>1, <2>2, <3>1, <4>1
    <3>. QED
      BY <1>1, <2>3, <3>2, <3>3
  <2>. QED
    BY <2>1, <2>3, MissingWord
<1>3. LossPerBoundary \in Nat /\ GlueMax - Half - 1 <= LossPerBoundary
  BY LossBound
<1>4. CASE lost = {}
  BY <1>3, <1>4, FS_EmptySet
<1>5. CASE lost # {}
  <2>1. PICK v0 \in lost : TRUE
    BY <1>5
  <2>2. PICK s \in segs : /\ v0 \in s /\ w \in s /\ w \in Nat /\ w < v0
                          /\ Start(s) < w + 1 - Half
    BY <1>2
  <2>. HIDE DEF w
  <2>3. \A v \in lost : v \in s /\ w < v
    <3>. TAKE v \in lost
    <3>1. PICK r \in segs : v \in r /\ w \in r /\ w < v
      BY <1>2
    <3>2. r = s
      BY <1>1, <2>2, <3>1 DEF Segmented
    <3>. QED
      BY <3>1, <3>2
  <2>4. s \in SUBSET Nat /\ s # {} /\ \A v \in s : v <= length
    <3>1. \A v \in s : v \in Spoken(speech)
      BY <1>1 DEF Segmented, SaidIn
    <3>. QED
      BY <1>1, <2>2, <3>1
  <2>. DEFINE top == Max(s)
              most == w - Half + GlueMax - 2
              between == (w + 1) .. most
  <2>5. top \in s /\ \A v \in s : v <= top
    BY <1>1, <2>4, MaxFound
  <2>6. Start(s) \in Nat
    BY <2>4, MinFound DEF Start
  <2>. HIDE DEF top
  <2>7. Half \in Nat /\ GlueMax \in Nat
    BY ChunksAssumption DEF Half
  <2>8. lost \subseteq between \union {top}
    <3>. SUFFICES ASSUME NEW v \in lost, v # top PROVE v \in between
      OBVIOUS
    <3>. HIDE DEF lost, between
    <3>0. v \in s /\ v <= top /\ w < v /\ v \in Nat /\ top \in Nat
      BY <2>3, <2>4, <2>5
    <3>1. v < top
      BY <3>0
    <3>2. v + 1 - Start(s) < GlueMax
      BY <1>1, <2>5, <3>0, <3>1 DEF Segmented
    <3>. QED
      BY <2>2, <2>6, <2>7, <3>0, <3>2 DEF between
  <2>9. GlueMax - Half - 1 >= 1
    <3>1. v0 \in Nat /\ w \in s
      BY <2>2, <2>4
    <3>2. w + 1 - Start(s) < GlueMax
      BY <1>1, <2>2, <3>1 DEF Segmented
    <3>. QED
      BY <2>2, <2>6, <2>7, <3>2
  <2>10. /\ IsFiniteSet(between)
         /\ Cardinality(between) <= GlueMax - Half - 2
    <3>1. w + 1 \in Int /\ most \in Int
      BY <2>2, <2>7
    <3>. HIDE DEF most
    <3>2. /\ IsFiniteSet(between)
          /\ Cardinality(between) = IF w + 1 > most THEN 0 ELSE most - (w + 1) + 1
      BY <3>1, FS_Interval
    <3>3. most - (w + 1) + 1 = GlueMax - Half - 2
      BY <2>2, <2>7 DEF most
    <3>. QED
      BY <2>7, <2>9, <3>2, <3>3
  <2>. HIDE DEF between, lost
  <2>11. /\ IsFiniteSet(between \union {top})
         /\ Cardinality(between \union {top}) <= GlueMax - Half - 1
    <3>1. /\ IsFiniteSet(between \union {top})
          /\ Cardinality(between \union {top}) =
               IF top \in between THEN Cardinality(between) ELSE Cardinality(between) + 1
      BY <2>10, FS_AddElement
    <3>2. Cardinality(between) \in Nat
      BY <2>10, FS_CardinalityType
    <3>. QED
      BY <2>7, <2>10, <3>1, <3>2
  <2>12. IsFiniteSet(lost) /\ Cardinality(lost) <= Cardinality(between \union {top})
    BY <2>8, <2>11, FS_Subset
  <2>13. Cardinality(lost) \in Nat /\ Cardinality(between \union {top}) \in Nat
    BY <2>11, <2>12, FS_CardinalityType
  <2>14. Cardinality(lost) <= LossPerBoundary
    BY <1>3, <2>7, <2>11, <2>12, <2>13
  <2>. QED
    BY <2>12, <2>14 DEF lost
<1>. QED
  BY <1>4, <1>5

LEMMA LossIsBounded ==
    ASSUME NEW n, NEW length, NEW speech, NEW slices, NEW results,
           Sliced(n, length, speech, slices, results)
    PROVE  /\ IsFiniteSet(Missing(speech, results))
           /\ Cardinality(Missing(speech, results)) <= (n - 1) * LossPerBoundary
<1>. DEFINE A == [k \in 1 .. n - 1 |-> Lost(speech, slices, results, k)]
            All == UNION {A[k] : k \in 1 .. n - 1}
            missing == Missing(speech, results)
<1>1. /\ n \in Nat \ {0} /\ n - 1 \in Nat /\ n \in 1 .. n /\ Cut(slices, n, length)
      /\ Spoken(speech) \in SUBSET Nat /\ (\A v \in Spoken(speech) : v < length)
      /\ length \in Nat
  BY DEF Sliced, Spoken, Sayable
<1>2. \A k \in 1 .. n - 1 : A[k] = Lost(speech, slices, results, k)
                            /\ k \in 1 .. n /\ k + 1 \in 1 .. n
  BY <1>1
<1>. HIDE DEF A
<1>3. \A k \in 1 .. n - 1 : IsFiniteSet(A[k]) /\ Cardinality(A[k]) <= LossPerBoundary
  BY <1>2, LossAtBoundary
<1>4. IsFiniteSet(All) /\ Cardinality(All) <= (n - 1) * LossPerBoundary
  BY <1>1, <1>3, LossBound, UnionBound
<1>5. ASSUME NEW v \in missing PROVE v \in All
  <2>1. v \in Spoken(speech) /\ v \in Nat /\ v < length
    BY <1>1 DEF Missing
  <2>2. slices[n].to = length
    BY <1>1 DEF Cut
  <2>3. PICK i \in 1 .. n : v < slices[i].to /\ (\A k \in 1 .. n : k < i => slices[k].to <= v)
    BY <1>1, <2>1, <2>2, SlicesCover
  <2>4. i # 1
    BY <2>3, MissingWord
  <2>5. i - 1 \in 1 .. n - 1 /\ i - 1 \in 1 .. n /\ i - 1 < i /\ (i - 1) + 1 = i
    BY <1>1, <2>4
  <2>6. v \in Lost(speech, slices, results, i - 1)
    BY <2>3, <2>5 DEF Lost
  <2>. QED
    BY <1>2, <2>5, <2>6
<1>. HIDE DEF All, missing
<1>6. missing \subseteq All
  BY <1>5
<1>7. IsFiniteSet(missing) /\ Cardinality(missing) <= Cardinality(All)
  BY <1>4, <1>6, FS_Subset
<1>8. /\ Cardinality(missing) \in Nat /\ Cardinality(All) \in Nat
      /\ (n - 1) * LossPerBoundary \in Nat
  <2>1. LossPerBoundary \in Nat
    BY LossBound
  <2>. QED
    BY <1>1, <1>4, <1>7, <2>1, FS_CardinalityType
<1>9. Cardinality(missing) <= (n - 1) * LossPerBoundary
  BY <1>4, <1>7, <1>8
<1>. QED
  BY <1>7, <1>9 DEF missing

-----------------------------------------------------------------------------
(***************************************************************************)
(* Words written twice, and the order of the lines.                        *)
(***************************************************************************)
LEMMA PairBound ==
    ASSUME NEW X, NEW a, NEW b, X \subseteq {a, b}
    PROVE  Cardinality(X) <= 2
<1>1. IsFiniteSet({a, b}) /\ Cardinality({a, b}) <= 2
  <2>1. IsFiniteSet({a}) /\ Cardinality({a}) = 1
    BY FS_Singleton
  <2>2. /\ IsFiniteSet({a} \union {b})
        /\ Cardinality({a} \union {b}) =
             IF b \in {a} THEN Cardinality({a}) ELSE Cardinality({a}) + 1
    BY <2>1, FS_AddElement
  <2>3. {a, b} = {a} \union {b}
    OBVIOUS
  <2>. QED
    BY <2>1, <2>2, <2>3
<1>2. Cardinality(X) <= Cardinality({a, b}) /\ IsFiniteSet(X)
  BY <1>1, FS_Subset
<1>3. Cardinality(X) \in Nat /\ Cardinality({a, b}) \in Nat
  BY <1>1, <1>2, FS_CardinalityType
<1>. QED
  BY <1>1, <1>2, <1>3

\* A word of an earlier line was heard before the slice of a later line.
LEMMA HeardInEarlierLine ==
    ASSUME NEW n, NEW length, NEW speech, NEW slices, NEW results,
           Sliced(n, length, speech, slices, results),
           NEW one \in Stitched(results), NEW other \in Stitched(results),
           one.slice < other.slice, NEW v \in one.words
    PROVE  /\ v \in Nat /\ v < HeardTo(results, other.slice)
           /\ Start(other.words) \in Nat
           /\ Start(other.words) >= HeardTo(results, other.slice) - Half
<1>1. /\ one.slice \in 1 .. n /\ other.slice \in 1 .. n
      /\ v \in SaidIn(speech, slices[one.slice].from, slices[one.slice].to)
      /\ Start(other.words) \in other.words
      /\ other.words \subseteq SaidIn(speech, slices[other.slice].from, slices[other.slice].to)
      /\ ~ Start(other.words) < HeardTo(results, other.slice) - Half
  BY LineOf
<1>2. Spoken(speech) \in SUBSET Nat
  BY DEF Sliced, Spoken, Sayable
<1>3. v \in Spoken(speech) /\ v < slices[one.slice].to /\ Start(other.words) \in Spoken(speech)
  BY <1>1 DEF SaidIn
<1>4. v < HeardTo(results, other.slice) /\ HeardTo(results, other.slice) \in Nat
  BY <1>1, <1>3, HeardBefore
<1>5. Half \in Nat
  BY ChunksAssumption DEF Half
<1>6. v \in Nat /\ Start(other.words) \in Nat
  BY <1>2, <1>3
<1>. QED
  BY <1>1, <1>4, <1>5, <1>6

LEMMA CopiesAreBounded ==
    ASSUME NEW n, NEW length, NEW speech, NEW slices, NEW results,
           Sliced(n, length, speech, slices, results), ShortOverlaps,
           NEW v
    PROVE  Copies(Stitched(results), v) <= 2
<1>. DEFINE X == {line \in Stitched(results) : v \in line.words}
<1>1. ASSUME NEW one \in X, NEW other \in X
      PROVE  /\ one.slice \in Nat /\ other.slice \in Nat
             /\ other.slice <= one.slice + 1
             /\ one.slice = other.slice => one = other
  <2>1. /\ one.slice \in 1 .. n /\ other.slice \in 1 .. n
        /\ v \in SaidIn(speech, slices[one.slice].from, slices[one.slice].to)
        /\ v \in SaidIn(speech, slices[other.slice].from, slices[other.slice].to)
    BY LineOf
  <2>2. v \in Nat /\ v < slices[one.slice].to /\ slices[other.slice].from <= v
    BY <2>1 DEF SaidIn, Sliced, Spoken, Sayable
  <2>3. /\ Cut(slices, n, length)
        /\ slices[one.slice].to \in Nat /\ slices[other.slice].from \in Nat /\ n \in Nat
    BY <2>1 DEF Sliced, Cut
  <2>4. one.slice \in Nat /\ other.slice \in Nat
    BY <2>1
  <2>5. ASSUME ~ other.slice <= one.slice + 1 PROVE FALSE
    <3>1. one.slice < other.slice /\ one.slice + 1 < other.slice
      BY <2>4, <2>5
    <3>2. slices[one.slice].to <= slices[other.slice].from
      BY <2>1, <2>3, <3>1 DEF Cut
    <3>. QED
      BY <2>2, <2>3, <3>2
  <2>6. one.slice = other.slice => one = other
    BY LinesOfOneSlice
  <2>. QED
    BY <2>4, <2>5, <2>6
<1>. HIDE DEF X
<1>2. \E a, b : X \subseteq {a, b}
  <2>1. CASE X = {}
    BY <2>1
  <2>2. CASE X # {}
    <3>1. PICK a \in X : TRUE
      BY <2>2
    <3>2. CASE \E b \in X : b.slice + 1 = a.slice
      <4>1. PICK b \in X : b.slice + 1 = a.slice
        BY <3>2
      <4>2. ASSUME NEW c \in X PROVE c = a \/ c = b
        <5>1. c.slice <= a.slice /\ a.slice <= c.slice + 1
              /\ c.slice \in Nat /\ a.slice \in Nat /\ b.slice \in Nat
          BY <1>1, <4>1
        <5>2. c.slice = a.slice \/ c.slice = b.slice
          BY <4>1, <5>1
        <5>. QED
          BY <1>1, <5>2
      <4>. QED
        BY <4>2
    <3>3. CASE ~ \E b \in X : b.slice + 1 = a.slice
      <4>1. ASSUME NEW c \in X PROVE c = a \/ c.slice = a.slice + 1
        <5>1. c.slice <= a.slice + 1 /\ a.slice <= c.slice + 1
              /\ c.slice \in Nat /\ a.slice \in Nat
          BY <1>1
        <5>2. c.slice + 1 # a.slice
          BY <3>3
        <5>3. c.slice = a.slice \/ c.slice = a.slice + 1
          BY <5>1, <5>2
        <5>. QED
          BY <1>1, <5>3
      <4>2. CASE \E b \in X : b # a
        <5>1. PICK b \in X : b # a
          BY <4>2
        <5>2. \A c \in X : c = a \/ c = b
          BY <1>1, <4>1, <5>1
        <5>. QED
          BY <5>2
      <4>3. CASE ~ \E b \in X : b # a
        <5>1. X \subseteq {a, a}
          BY <4>3
        <5>. QED
          BY <5>1
      <4>. QED
        BY <4>2, <4>3
    <3>. QED
      BY <3>2, <3>3
  <2>. QED
    BY <2>1, <2>2
<1>3. Cardinality(X) <= 2
  BY <1>2, PairBound
<1>. QED
  BY <1>3 DEF Copies, X

LEMMA SeveralCopies ==
    ASSUME NEW n, NEW length, NEW speech, NEW slices, NEW results,
           Sliced(n, length, speech, slices, results),
           NEW v, Copies(Stitched(results), v) > 1
    PROVE  \E k \in 1 .. n - 1 :
             /\ v \in Nat /\ v < HeardTo(results, k + 1)
             /\ v >= HeardTo(results, k + 1) - Half
<1>. DEFINE X == {line \in Stitched(results) : v \in line.words}
<1>0. Cardinality(X) > 1
  BY DEF Copies
<1>1. \E one, other \in X : one # other
  <2>. HIDE DEF X
  <2>1. CASE X = {}
    BY <1>0, <2>1, FS_EmptySet
  <2>2. CASE X # {}
    <3>. SUFFICES ASSUME \A one, other \in X : one = other PROVE FALSE
      OBVIOUS
    <3>1. PICK one \in X : TRUE
      BY <2>2
    <3>2. X = {one}
      BY <3>1
    <3>3. Cardinality({one}) = 1
      BY FS_Singleton
    <3>. QED
      BY <1>0, <3>2, <3>3
  <2>. QED
    BY <2>1, <2>2
<1>2. ASSUME NEW one \in X, NEW other \in X, one.slice < other.slice
      PROVE  \E k \in 1 .. n - 1 :
               /\ v \in Nat /\ v < HeardTo(results, k + 1)
               /\ v >= HeardTo(results, k + 1) - Half
  <2>1. one.slice \in 1 .. n /\ other.slice \in 1 .. n /\ n \in Nat
    BY LineOf DEF Sliced
  <2>2. /\ v \in Nat /\ v < HeardTo(results, other.slice)
        /\ Start(other.words) \in Nat
        /\ Start(other.words) >= HeardTo(results, other.slice) - Half
    BY <1>2, HeardInEarlierLine
  <2>3. Start(other.words) <= v
    <3>1. other.words \subseteq SaidIn(speech, slices[other.slice].from, slices[other.slice].to)
      BY LineOf
    <3>2. other.words \in SUBSET Nat /\ v \in other.words
      BY <3>1 DEF SaidIn, Sliced, Spoken, Sayable
    <3>. QED
      BY <3>2, MinFound DEF Start
  <2>4. HeardTo(results, other.slice) \in Nat /\ Half \in Nat
    BY <2>1, HeardBefore, ChunksAssumption DEF Half
  <2>5. v >= HeardTo(results, other.slice) - Half
    BY <2>2, <2>3, <2>4
  <2>6. other.slice - 1 \in 1 .. n - 1 /\ (other.slice - 1) + 1 = other.slice
    BY <1>2, <2>1
  <2>. QED
    BY <2>2, <2>5, <2>6
<1>3. \A one \in X : one.slice \in 1 .. n
  BY LineOf
<1>4. PICK one \in X, other \in X : one # other
  BY <1>1
<1>5. one.slice # other.slice
  BY <1>4, LinesOfOneSlice
<1>6. one.slice \in 1 .. n /\ other.slice \in 1 .. n /\ n \in Nat
  BY <1>3 DEF Sliced
<1>7. one.slice < other.slice \/ other.slice < one.slice
  BY <1>5, <1>6
<1>. HIDE DEF X
<1>. QED
  BY <1>2, <1>7

LEMMA DoubledAreBounded ==
    ASSUME NEW n, NEW length, NEW speech, NEW slices, NEW results,
           Sliced(n, length, speech, slices, results), NEW S
    PROVE  Cardinality({v \in S : Copies(Stitched(results), v) > 1}) <= (n - 1) * Half
<1>. DEFINE at(k) == HeardTo(results, k + 1)
            A == [k \in 1 .. n - 1 |-> (at(k) - Half) .. (at(k) - 1)]
            All == UNION {A[k] : k \in 1 .. n - 1}
            doubled == {v \in S : Copies(Stitched(results), v) > 1}
<1>1. n \in Nat /\ n - 1 \in Nat /\ Half \in Nat
  BY ChunksAssumption DEF Sliced, Half
<1>2. ASSUME NEW k \in 1 .. n - 1 PROVE at(k) \in Nat
  <2>1. k + 1 \in 1 .. n
    BY <1>1
  <2>. QED
    BY <2>1, HeardBefore
<1>. HIDE DEF at
<1>3. ASSUME NEW k \in 1 .. n - 1 PROVE IsFiniteSet(A[k]) /\ Cardinality(A[k]) <= Half
  <2>1. at(k) - Half \in Int /\ at(k) - 1 \in Int
    BY <1>1, <1>2
  <2>2. A[k] = (at(k) - Half) .. (at(k) - 1)
    OBVIOUS
  <2>. HIDE DEF A
  <2>3. /\ IsFiniteSet(A[k])
        /\ Cardinality(A[k]) =
             IF at(k) - Half > at(k) - 1 THEN 0 ELSE (at(k) - 1) - (at(k) - Half) + 1
    BY <2>1, <2>2, FS_Interval
  <2>. QED
    BY <1>1, <1>2, <2>3
<1>4. \A k \in 1 .. n - 1 : A[k] = (at(k) - Half) .. (at(k) - 1)
  OBVIOUS
<1>. HIDE DEF A
<1>5. IsFiniteSet(All) /\ Cardinality(All) <= (n - 1) * Half
  BY <1>1, <1>3, UnionBound
<1>6. ASSUME NEW v \in doubled PROVE v \in All
  <2>1. PICK k \in 1 .. n - 1 : v \in Nat /\ v < at(k) /\ v >= at(k) - Half
    BY SeveralCopies DEF at
  <2>2. v \in A[k]
    BY <1>1, <1>2, <1>4, <2>1
  <2>. QED
    BY <2>2
<1>. HIDE DEF All, doubled
<1>7. IsFiniteSet(doubled) /\ Cardinality(doubled) <= Cardinality(All)
  BY <1>5, <1>6, FS_Subset
<1>8. Cardinality(doubled) \in Nat /\ Cardinality(All) \in Nat /\ (n - 1) * Half \in Nat
  BY <1>1, <1>5, <1>7, FS_CardinalityType
<1>9. Cardinality(doubled) <= (n - 1) * Half
  BY <1>5, <1>7, <1>8
<1>. QED
  BY <1>9 DEF doubled

-----------------------------------------------------------------------------
(***************************************************************************)
(* All of it, for a transcript and for every task.                         *)
(***************************************************************************)
LEMMA TranscriptIsSliced ==
    ASSUME NEW n \in Nat \ {0}, NEW length \in Nat, NEW speech \in Sayable(length),
           NEW slices, DOMAIN slices = 1 .. n, Cut(slices, n, length)
    PROVE  Sliced(n, length, speech, slices,
                  [i \in DOMAIN slices |-> Shifted(Heard(speech, slices[i]), slices[i].from)])
<1>. DEFINE results == [i \in DOMAIN slices |-> Shifted(Heard(speech, slices[i]), slices[i].from)]
<1>1. ASSUME NEW k \in 1 .. n
      PROVE  Segmented(results[k], SaidIn(speech, slices[k].from, slices[k].to))
  <2>1. /\ slices[k].from \in Nat /\ slices[k].to \in Nat
        /\ slices[k].from <= slices[k].to /\ slices[k].to <= length
    BY DEF Cut
  <2>2. results[k] = Shifted(Heard(speech, slices[k]), slices[k].from)
    OBVIOUS
  <2>. HIDE DEF results
  <2>. QED
    BY <2>1, <2>2, HeardInSlice
<1>2. DOMAIN results = 1 .. n
  OBVIOUS
<1>. HIDE DEF results
<1>3. Sliced(n, length, speech, slices, results)
  BY <1>1, <1>2 DEF Sliced
<1>. QED
  BY <1>3 DEF results

LEMMA TranscriptWithin ==
    ASSUME NEW n \in Nat \ {0}, NEW length \in Nat, NEW speech \in Sayable(length),
           NEW slices, DOMAIN slices = 1 .. n, Cut(slices, n, length)
    PROVE  StitchedWithin(speech, Transcript(speech, slices), n - 1)
<1>. DEFINE results == [i \in DOMAIN slices |-> Shifted(Heard(speech, slices[i]), slices[i].from)]
            lines == Stitched(results)
<1>1. Sliced(n, length, speech, slices, results)
  BY TranscriptIsSliced
<1>2. Transcript(speech, slices) = lines
  BY DEF Transcript
<1>. HIDE DEF results
<1>3. Written(lines) \subseteq Spoken(speech)
  <2>1. ASSUME NEW line \in lines PROVE line.words \subseteq Spoken(speech)
    BY <1>1, LineOf DEF SaidIn
  <2>. QED
    BY <2>1 DEF Written
<1>4. Cardinality(Spoken(speech) \ Written(lines)) <= (n - 1) * LossPerBoundary
  BY <1>1, LossIsBounded DEF Missing
<1>5. ShortOverlaps => \A slot \in DOMAIN speech : Copies(lines, slot) <= 2
  BY <1>1, CopiesAreBounded
<1>6. Cardinality({slot \in DOMAIN speech : Copies(lines, slot) > 1}) <= (n - 1) * Half
  BY <1>1, DoubledAreBounded
<1>7. ASSUME NEW earlier \in lines, NEW later \in lines, earlier.slice < later.slice
      PROVE  Start(later.words) >= Start(earlier.words) - Half
  <2>1. Start(earlier.words) \in earlier.words /\ later.slice \in 1 .. n
    BY <1>1, LineOf
  <2>2. /\ Start(earlier.words) \in Nat
        /\ Start(earlier.words) < HeardTo(results, later.slice)
        /\ Start(later.words) \in Nat
        /\ Start(later.words) >= HeardTo(results, later.slice) - Half
    BY <1>1, <1>7, <2>1, HeardInEarlierLine
  <2>3. HeardTo(results, later.slice) \in Nat /\ Half \in Nat
    BY <1>1, <2>1, HeardBefore, ChunksAssumption DEF Half
  <2>. QED
    BY <2>2, <2>3
<1>. HIDE DEF lines
<1>. QED
  BY <1>2, <1>3, <1>4, <1>5, <1>6, <1>7 DEF StitchedWithin

(* What a task is about to label is the transcript of what was said. *)
Timeline ==
  /\ audio \in Recordings
  /\ DOMAIN pc = Tasks /\ DOMAIN said = Tasks /\ DOMAIN segments = Tasks
  /\ \A t \in Tasks : pc[t] = "label" =>
       /\ said[t] \in Speech(audio[t].length)
       /\ segments[t] = Transcript(said[t], Slices(t))

LEMMA TimelineInit == Init => Timeline
  BY DEF Init, Timeline

LEMMA TimelineNext == Timeline /\ [Next]_vars => Timeline'
<1>. SUFFICES ASSUME Timeline, [Next]_vars PROVE Timeline'
  OBVIOUS
<1>1. ASSUME UNCHANGED client PROVE Timeline'
  BY <1>1 DEF client, Timeline, Slices
<1>2. ASSUME NEW t \in Tasks, Task(t) PROVE Timeline'
  <2>1. CASE TakeSegments(t)
    <3>1. /\ audio' = audio /\ audio' \in Recordings
          /\ DOMAIN pc' = Tasks
          /\ \A u \in Tasks : Slices(u)' = Slices(u)
          /\ \A u \in Tasks \ {t} : pc'[u] = pc[u]
      BY <2>1 DEF TakeSegments, Goto, Timeline, Slices
    <3>2. CASE uploads[t] + 1 < Len(Slices(t))
      <4>1. said' = said /\ segments' = segments /\ pc'[t] # "label"
        BY <2>1, <3>2 DEF TakeSegments, Goto, Timeline
      <4>. QED
        BY <3>1, <4>1 DEF Timeline
    <3>3. CASE ~ uploads[t] + 1 < Len(Slices(t))
      <4>1. PICK speech \in Speech(audio[t].length) :
              /\ said' = [said EXCEPT ![t] = speech]
              /\ segments' = [segments EXCEPT ![t] = Transcript(speech, Slices(t))]
        BY <2>1, <3>3 DEF TakeSegments
      <4>2. /\ said'[t] = speech /\ segments'[t] = Transcript(speech, Slices(t))
            /\ DOMAIN said' = Tasks /\ DOMAIN segments' = Tasks
            /\ \A u \in Tasks \ {t} : said'[u] = said[u] /\ segments'[u] = segments[u]
        BY <4>1 DEF Timeline
      <4>. QED
        BY <3>1, <4>2 DEF Timeline
    <3>. QED
      BY <3>2, <3>3
  <2>2. CASE ~ TakeSegments(t)
    <3>1. /\ UNCHANGED <<audio, said, segments>>
          /\ \E there \in {"wait", "upload", "failed", "polish", "done"} : Goto(t, there)
      <4>1. CASE Post(t)
        BY <4>1 DEF Post
      <4>2. CASE Refused(t) \/ TakeFailure(t)
        BY <4>2 DEF Refused, TakeFailure, Retry
      <4>3. CASE TakeRejection(t)
        BY <4>3 DEF TakeRejection
      <4>4. CASE Label(t) \/ Polish(t)
        BY <4>4 DEF Label, Polish
      <4>. QED
        BY <1>2, <2>2, <4>1, <4>2, <4>3, <4>4 DEF Task
    <3>2. /\ DOMAIN pc' = Tasks /\ pc'[t] # "label"
          /\ \A u \in Tasks \ {t} : pc'[u] = pc[u]
      BY <3>1 DEF Goto, Timeline
    <3>. QED
      BY <3>1, <3>2 DEF Timeline, Slices
  <2>. QED
    BY <2>1, <2>2
<1>3. QED
  BY <1>1, <1>2 DEF Next, Serve, vars

LEMMA TimelineWithin == Timeline => StitchedWithinBounds
<1>. SUFFICES ASSUME Timeline, NEW t \in Tasks, pc[t] = "label"
              PROVE  StitchedWithin(said[t], segments[t], Len(Slices(t)) - 1)
  BY DEF StitchedWithinBounds
<1>. DEFINE length == audio[t].length
            n == Len(Slices(t))
<1>1. /\ length \in Nat /\ said[t] \in Sayable(length)
      /\ segments[t] = Transcript(said[t], Slices(t))
  BY RecordingsAssumption DEF Timeline
<1>2. n \in Nat \ {0} /\ DOMAIN Slices(t) = 1 .. n /\ Cut(Slices(t), n, length)
  <2>1. CASE audio[t].fits
    <3>1. Slices(t) = <<[from |-> 0, to |-> length]>>
      BY <2>1 DEF Slices
    <3>2. n = 1 /\ DOMAIN Slices(t) = 1 .. 1
      BY <3>1
    <3>. QED
      BY <1>1, <3>1, <3>2, OneSliceCuts
  <2>2. CASE ~ audio[t].fits
    <3>1. Slices(t) = Split(length)
      BY <2>2 DEF Slices
    <3>. QED
      BY <1>1, <3>1, SplitCuts
  <2>. QED
    BY <2>1, <2>2
<1>. QED
  BY <1>1, <1>2, TranscriptWithin

(* Stitching the slices of a recording never invents a word; at each       *)
(* boundary it loses no more than a segment less half an overlap, doubles  *)
(* no more than half an overlap, writes no word three times unless slices  *)
(* are shorter than two overlaps, and disorders lines by no more than half *)
(* an overlap: for every length of recording, slice, overlap and segment,  *)
(* and whatever is said.                                                   *)
THEOREM StitchingStaysWithinBounds == Spec => []StitchedWithinBounds
<1>1. Spec => []Timeline
  BY TimelineInit, TimelineNext, PTL DEF Spec
<1>. QED
  BY <1>1, TimelineWithin, PTL
=============================================================================
