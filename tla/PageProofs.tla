------------------------------- MODULE PageProofs -------------------------------
(***************************************************************************)
(* Proofs about four parts of the browser page: the measured figures       *)
(* (Surface), the assistant (Assistant), the warnings and reports          *)
(* (Bulletins) and the store of the open state (District).  The module     *)
(* extends all four; each theorem is about the specification of one part,  *)
(* under the assumption that part's module makes.  The facts about places  *)
(* in a line (Ordering) stand before the first part that needs them.       *)
(***************************************************************************)
EXTENDS Surface, Bulletins, Assistant, District, FiniteSetTheorems, TLAPS

-----------------------------------------------------------------------------
(* Surface: what holds a figure *)

\* A figure that is not the model's is the reading it was last given: only an
\* observation puts another reading on the screen.
FigureIsReading == \A k \in Carriers : fig[k] \in {Model, live[k]}

LEMMA SurfaceStarts == SurfaceInit => FigureIsReading
BY DEF SurfaceInit, FigureIsReading

\* The observations an answer applies go into the figure and its memory alike.
LEMMA ApplyKeepsReading ==
  ASSUME NEW got, NEW ok, ApplyObservations(got, ok), FigureIsReading
  PROVE  /\ FigureIsReading'
         /\ \A k \in Carriers : fig'[k] # fig[k] => fig'[k] = got[k]
<1>1. CASE UNCHANGED figureVars
  BY <1>1 DEF FigureIsReading, figureVars
<1>2. CASE ~UNCHANGED figureVars
  <2> DEFINE applied == {k \in Carriers \intersect ok : got[k] # 0}
  <2>1. /\ live' = [k \in Carriers |-> IF k \in applied THEN got[k] ELSE live[k]]
        /\ fig' = [k \in Carriers |-> IF k \in applied THEN got[k] ELSE fig[k]]
    BY <1>2 DEF ApplyObservations
  <2> HIDE DEF applied
  <2> QED
    BY <2>1 DEF FigureIsReading
<1> QED
  BY <1>1, <1>2

\* The generator gives a figure back or puts its reading there again.
LEMMA DriftKeepsReading ==
  ASSUME FigureIsReading, fig' = DriftNation, UNCHANGED <<pullVars, live>>
  PROVE  /\ FigureIsReading'
         /\ \A k \in Carriers : Fresh(k) /\ fig[k] # Model => fig'[k] = fig[k]
BY DEF FigureIsReading, DriftNation, Anchored, Model

\* What a step may do to a figure whose reading is in its window.
Held(k) ==
  /\ fig[k] # Model
  /\ Fresh(k) /\ Fresh(k)'
  /\ fig'[k] # fig[k]
  => fig'[k] = obs'[k]

LEMMA SurfaceSteps ==
  ASSUME FigureIsReading, [SurfaceNext]_surfaceVars
  PROVE  FigureIsReading' /\ \A k \in Carriers : Held(k)
<1>1. CASE \E j \in Jobs, s \in Sources : Arrives(j, s) \/ Fails(j, s)
  <2>1. PICK j \in Jobs, s \in Sources : Settle(j, s)
    BY <1>1 DEF Arrives, Fails
  <2>2. \/ UNCHANGED figureVars
        \/ \E ok : ApplyObservations(obs', ok)
    BY <2>1 DEF Settle
  <2> QED
    BY <2>2, ApplyKeepsReading DEF FigureIsReading, Held, figureVars
<1>2. CASE PipelineTick \/ \E c \in Carriers : BandChange(c)
  <2>1. fig' = DriftNation /\ UNCHANGED <<pullVars, live>>
    BY <1>2 DEF PipelineTick, BandChange
  <2> QED
    BY <2>1, DriftKeepsReading DEF Held
<1>3. CASE UNCHANGED <<live, fig>>
  BY <1>3 DEF FigureIsReading, Held
<1> QED
  BY <1>1, <1>2, <1>3
     DEF SurfaceNext, surfaceVars, figureVars, PullAll,
         LiveRefreshNow, RebuildCells, Tick, Publish

\* boot.js, driftNation: a measured figure holds until the next observation; while
\* its reading is in its window, neither a tick, nor an event, nor an answer for
\* another service, nor opening a state moves it.
THEOREM MeasuredFiguresHold == SurfaceSpec => MeasurementHolds
<1>1. FigureIsReading /\ [SurfaceNext]_surfaceVars => FigureIsReading'
  BY SurfaceSteps
<1>2. FigureIsReading /\ [SurfaceNext]_surfaceVars =>
        [\A k \in Carriers :
           fig[k] # Model /\ Fresh(k) /\ Fresh(k)' /\ fig'[k] # fig[k]
             => fig'[k] = obs'[k]]_surfaceVars
  BY SurfaceSteps DEF Held
<1> QED
  BY SurfaceStarts, <1>1, <1>2, PTL DEF SurfaceSpec, MeasurementHolds

-----------------------------------------------------------------------------
(* Least numbers and orders *)

\* A set of numbers that has a member has a least one.
LEMMA LeastNumber ==
  ASSUME NEW T \in SUBSET Nat, T # {}
  PROVE  \E x \in T : \A y \in T : x <= y
<1>1. IsWellFoundedOn(OpToRel(<, Nat), Nat)
  BY NatLessThanWellFounded
<1>2. PICK x \in T : \A y \in T : ~(<<y, x>> \in OpToRel(<, Nat))
  BY <1>1, WFMin, Zenon
<1>3. \A y \in T : <<y, x>> \in Nat \X Nat /\ ~(y < x)
  BY <1>2 DEF OpToRel
<1>4. ASSUME NEW y \in T
      PROVE  x <= y
  <2>1. x \in Nat /\ y \in Nat
    OBVIOUS
  <2>2. ~(y < x)
    BY <1>3
  <2> QED
    BY <2>1, <2>2
<1> QED
  BY <1>4

LEMMA MinIsLeast ==
  ASSUME NEW T \in SUBSET Nat, T # {}
  PROVE  Min(T) \in T /\ \A y \in T : Min(T) <= y
BY LeastNumber, Zenon DEF Min

LEMMA MinOfTwo ==
  ASSUME NEW a \in Nat, NEW b \in Nat
  PROVE  Min({a, b}) \in Nat /\ Min({a, b}) \in {a, b} /\ Min({a, b}) <= a /\ Min({a, b}) <= b
BY MinIsLeast

\* The pairs of R put the elements of S in one line.
Lines(R, S) ==
  /\ \A x \in S : <<x, x>> \notin R
  /\ \A x, y, z \in S : <<x, y>> \in R /\ <<y, z>> \in R => <<x, z>> \in R
  /\ \A x, y \in S : x # y => <<x, y>> \in R \/ <<y, x>> \in R

\* In a line of n elements, each place from the first to the n-th is somebody's:
\* the places are as many as the elements, and no two share one.
LEMMA NthIsElement ==
  ASSUME NEW S, IsFiniteSet(S), NEW R, Lines(R, S), NEW n \in 1..Cardinality(S)
  PROVE  /\ Nth(S, R, n) \in S
         /\ Cardinality({y \in S : <<y, Nth(S, R, n)>> \in R}) = n - 1
<1> DEFINE before(x) == {y \in S : <<y, x>> \in R}
           places == 0..Cardinality(S) - 1
           place == [x \in S |-> Cardinality(before(x))]
<1>1. Cardinality(S) \in Nat
  BY FS_CardinalityType
<1>2. IsFiniteSet(places) /\ Cardinality(places) = Cardinality(S)
  <2>1. PICK top \in Int : top = Cardinality(S) - 1
    BY <1>1
  <2>2. IsFiniteSet(0..top) /\ Cardinality(0..top) = IF 0 > top THEN 0 ELSE top - 0 + 1
    BY FS_Interval
  <2> QED
    BY <1>1, <2>1, <2>2
<1>3. \A x \in S : IsFiniteSet(before(x)) /\ Cardinality(before(x)) \in Nat
  BY FS_Subset, FS_CardinalityType
<1>4. \A x \in S : Cardinality(before(x)) < Cardinality(S)
  <2> SUFFICES ASSUME NEW x \in S PROVE Cardinality(before(x)) < Cardinality(S)
    OBVIOUS
  <2>1. before(x) \in SUBSET S /\ before(x) # S
    BY DEF Lines
  <2>2. Cardinality(before(x)) <= Cardinality(S) /\ Cardinality(before(x)) # Cardinality(S)
    BY <2>1, FS_Subset
  <2> HIDE DEF before
  <2> QED
    BY <2>2, <1>1, <1>3
<1>5. \A x, y \in S : <<x, y>> \in R => Cardinality(before(x)) < Cardinality(before(y))
  <2> SUFFICES ASSUME NEW x \in S, NEW y \in S, <<x, y>> \in R
               PROVE  Cardinality(before(x)) < Cardinality(before(y))
    OBVIOUS
  <2>1. before(x) \in SUBSET before(y) /\ before(x) # before(y)
    BY DEF Lines
  <2>2. /\ Cardinality(before(x)) <= Cardinality(before(y))
        /\ Cardinality(before(x)) # Cardinality(before(y))
    BY <2>1, <1>3, FS_Subset
  <2> HIDE DEF before
  <2> QED
    BY <2>2, <1>3
<1> HIDE DEF before
<1>6. place \in Injection(S, places)
  <2>1. place \in [S -> places]
    BY <1>1, <1>3, <1>4
  <2>2. ASSUME NEW x \in S, NEW y \in S, x # y
        PROVE  place[x] # place[y]
    <3>1. \/ Cardinality(before(x)) < Cardinality(before(y))
          \/ Cardinality(before(y)) < Cardinality(before(x))
      BY <2>2, <1>5 DEF Lines
    <3>2. Cardinality(before(x)) # Cardinality(before(y))
      BY <3>1, <1>3
    <3> QED
      BY <3>2
  <2> QED
    BY <2>1, <2>2 DEF Injection, IsInjective
<1>7. place \in Surjection(S, places)
  BY <1>2, <1>6, FS_Injection
<1>8. n - 1 \in places
  BY <1>1
<1>9. \E x \in S : Cardinality(before(x)) = n - 1
  BY <1>7, <1>8 DEF Surjection
<1> QED
  BY <1>9, Zenon DEF Nth, before

\* A sequence of the elements of a set has each of them, once.
LEMMA ArrangedOnce ==
  ASSUME NEW S, IsFiniteSet(S), NEW R, Lines(R, S)
  PROVE  /\ Arranged(S, R) \in Seq(S) /\ Len(Arranged(S, R)) = Cardinality(S)
         /\ Cardinality(S) \in Nat
         /\ \A m, n \in 1..Cardinality(S) : m # n => Arranged(S, R)[m] # Arranged(S, R)[n]
         /\ \A x \in S : \E n \in 1..Cardinality(S) : Arranged(S, R)[n] = x
<1> DEFINE N == Cardinality(S)
           a == Arranged(S, R)
<1>1. N \in Nat
  BY FS_CardinalityType
<1>2. \A n \in 1..N : /\ Nth(S, R, n) \in S
                      /\ Cardinality({y \in S : <<y, Nth(S, R, n)>> \in R}) = n - 1
  BY NthIsElement
<1>3. a = [n \in 1..N |-> Nth(S, R, n)]
  BY DEF Arranged
<1> HIDE DEF a, N
<1>4. a \in [1..N -> S]
  BY <1>2, <1>3
<1>5. ASSUME NEW m \in 1..N, NEW n \in 1..N, m # n
      PROVE  a[m] # a[n]
  <2>1. Cardinality({y \in S : <<y, a[m]>> \in R}) = m - 1
    BY <1>2, <1>3
  <2>2. Cardinality({y \in S : <<y, a[n]>> \in R}) = n - 1
    BY <1>2, <1>3
  <2>3. m - 1 # n - 1
    BY <1>1, <1>5
  <2> QED
    BY <2>1, <2>2, <2>3
<1>6. a \in Injection(1..N, S)
  BY <1>4, <1>5 DEF Injection, IsInjective
<1>7. IsFiniteSet(1..N) /\ Cardinality(1..N) = N
  <2>1. /\ IsFiniteSet(1..N) /\ Cardinality(1..N) = IF 1 > N THEN 0 ELSE N - 1 + 1
    BY <1>1, FS_Interval
  <2> QED
    BY <1>1, <2>1
<1>8. a \in Surjection(1..N, S)
  BY <1>6, <1>7, FS_Injection DEF N
<1>9. a \in Seq(S) /\ Len(a) = N
  BY <1>1, <1>4
<1> QED
  BY <1>1, <1>5, <1>8, <1>9 DEF Surjection, N, a

LEMMA AscendingLines ==
  ASSUME NEW S \in SUBSET Nat
  PROVE  Lines(Ascending(S), S)
BY DEF Lines, Ascending

\* A filter leaves a sequence of entries it let through.
LEMMA KeptEntries ==
  ASSUME NEW s, NEW at \in SUBSET Nat, IsFiniteSet(at)
  PROVE  /\ Cardinality(at) \in Nat /\ DOMAIN Kept(s, at) = 1..Cardinality(at)
         /\ \A n \in DOMAIN Kept(s, at) : \E i \in at : Kept(s, at)[n] = s[i]
<1>1. Cardinality(at) \in Nat
  BY FS_CardinalityType
<1>2. \A n \in 1..Cardinality(at) : Nth(at, Ascending(at), n) \in at
  BY AscendingLines, NthIsElement
<1> QED
  BY <1>1, <1>2 DEF Kept

\* A sort leaves a sequence of the entries it was given.
LEMMA SortedEntries ==
  ASSUME NEW T, NEW s \in Seq(T), NEW R, Lines(R, DOMAIN s)
  PROVE  Sorted(s, R) \in Seq(T) /\ \A n \in DOMAIN Sorted(s, R) : \E i \in DOMAIN s : Sorted(s, R)[n] = s[i]
<1>1. DOMAIN s = 1..Len(s) /\ Len(s) \in Nat
  OBVIOUS
<1>2. IsFiniteSet(DOMAIN s) /\ Cardinality(DOMAIN s) = Len(s)
  BY <1>1, FS_Interval
<1>3. \A n \in DOMAIN s : Nth(DOMAIN s, R, n) \in DOMAIN s
  BY <1>1, <1>2, NthIsElement
<1>4. DOMAIN Sorted(s, R) = DOMAIN s
  BY DEF Sorted
<1>5. \A n \in DOMAIN s : Sorted(s, R)[n] = s[Nth(DOMAIN s, R, n)]
  BY DEF Sorted
<1>6. \A n \in DOMAIN s : Sorted(s, R)[n] \in T
  BY <1>1, <1>3, <1>5
<1>7. Sorted(s, R) = [n \in 1..Len(s) |-> Sorted(s, R)[n]]
  BY <1>1 DEF Sorted
<1> QED
  BY <1>1, <1>3, <1>4, <1>5, <1>6, <1>7

-----------------------------------------------------------------------------
(* Assistant: what an answer rests on *)

\* The pattern of a question about the person comes first.
LEMMA IntentsInOrder ==
  ASSUME NEW q \in Questions
  PROVE  IntentOf(q) \in Known /\ ("personal" \in q.cues => IntentOf(q) = "personal")
<1> DEFINE cues == {i \in DOMAIN Intents : Intents[i] \in q.cues}
<1>1. DOMAIN Intents = 1..6 /\ Intents[1] = "personal"
  BY DEF Intents
<1>2. cues # {} => Min(cues) \in cues /\ \A i \in cues : Min(cues) <= i
  BY <1>1, MinIsLeast
<1>3. CASE cues = {}
  BY <1>1, <1>3 DEF IntentOf, Known
<1>4. CASE cues # {}
  <2>1. IntentOf(q) = Intents[Min(cues)] /\ Min(cues) \in DOMAIN Intents
    BY <1>2, <1>4 DEF IntentOf
  <2>2. "personal" \in q.cues => 1 \in cues
    BY <1>1
  <2>3. "personal" \in q.cues => Min(cues) = 1
    BY <1>1, <1>2, <1>4, <2>1, <2>2
  <2> QED
    BY <1>1, <2>1, <2>3 DEF Known, Range
<1> QED
  BY <1>3, <1>4

LEMMA ProductPositive ==
  ASSUME NEW a \in Nat, NEW b \in Nat \ {0}
  PROVE  a * b > 0 <=> a > 0
OBVIOUS

\* A record has a score just when it shares a word with the question.
LEMMA ScoreMeansMatch ==
  ASSUME NEW q \in Questions, NEW r \in Records
  PROVE  Score(q, r) > 0 <=> Matches(q, r) # {}
<1>1. Bm25[q][r] \in Nat /\ (Bm25[q][r] > 0 <=> Matches(q, r) # {})
  BY AssistantAssumption DEF Matches
<1>2. Boost[IntentOf(q)][Kind[r]] \in Nat \ {0}
  <2>1. IntentOf(q) \in Known /\ Kind[r] \in Kinds
    BY IntentsInOrder DEF Kinds
  <2>2. Boost \in [Known -> [Kinds -> Nat \ {0}]]
    BY AssistantAssumption
  <2> QED
    BY <2>1, <2>2
<1> QED
  BY <1>1, <1>2, ProductPositive DEF Score

\* Retrieval returns records of the pool, none of them twice.
LEMMA RetrievedOnce ==
  ASSUME NEW q \in Questions, NEW records \in RagRetrieve(q)
  PROVE  /\ \E k \in Nat : records \in [1..k -> Pool(q)]
         /\ \A n \in DOMAIN records : records[n] \in Pool(q)
         /\ \A m, n \in DOMAIN records : m # n => records[m] # records[n]
<1> DEFINE pool == Considered(q)
           k == Min({TopK, Cardinality(pool)})
<1>1. IsFiniteSet(pool) /\ pool \subseteq Pool(q)
  <2>1. pool \in SUBSET Records /\ pool \subseteq Pool(q)
    BY DEF Considered, Pool
  <2> QED
    BY <2>1, FS_Subset, AssistantAssumption
<1>2. k \in Nat
  <2>1. Cardinality(pool) \in Nat /\ TopK \in Nat
    BY <1>1, FS_CardinalityType, AssistantAssumption
  <2> HIDE DEF pool
  <2> QED
    BY <2>1, MinOfTwo
<1>3. /\ records \in [1..k -> pool]
      /\ \A n \in DOMAIN records : records[n] \notin {records[m] : m \in 1..n - 1}
  BY DEF RagRetrieve, Mmr, IsBest
<1> HIDE DEF k, pool
<1>4. ASSUME NEW m \in 1..k, NEW n \in 1..k, m < n
      PROVE  records[m] # records[n]
  <2>1. m \in 1..n - 1
    BY <1>2, <1>4
  <2> QED
    BY <1>3, <2>1
<1>5. \A m, n \in 1..k : m # n => m < n \/ n < m
  BY <1>2
<1> QED
  BY <1>1, <1>2, <1>3, <1>4, <1>5

\* An answer that is given is grounded in what was retrieved.
LEMMA AnswersAreGrounded ==
  ASSUME NEW q \in Questions, NEW records \in RagRetrieve(q), NEW held
  PROVE  Grounded(RagAnswer(q, records, held))
<1> DEFINE a == RagAnswer(q, records, held)
<1>1. CASE IntentOf(q) = "personal" \/ TooWeak(q, records)
  BY <1>1 DEF Grounded, RagAnswer, NoAnswer
<1>2. CASE ~(IntentOf(q) = "personal" \/ TooWeak(q, records))
  <2>1. /\ a.to = q /\ a.footer = Footer(records)
        /\ a.passages = Quoted(records, held)
    BY <1>2 DEF RagAnswer
  <2> DEFINE quoted == [i \in DOMAIN a.passages |-> a.passages[i].record]
             beside(r) == Kind[r] \in Exclude[IntentOf(q)]
  <2>2. /\ DOMAIN a.passages = DOMAIN records
        /\ \A i \in DOMAIN records : a.passages[i].record = records[i]
    BY <2>1 DEF Quoted
  <2>3. quoted = [i \in DOMAIN records |-> records[i]]
    BY <2>2
  <2>4. records # <<>>
    BY <1>2 DEF TooWeak
  <2>5. PICK k \in Nat : records \in [1..k -> Pool(q)]
    BY RetrievedOnce
  <2>6. k # 0
    BY <2>4, <2>5
  <2>7. quoted # <<>> /\ IsInjective(quoted)
    BY <2>3, <2>5, <2>6, RetrievedOnce DEF IsInjective
  <2>8. "personal" \notin q.cues
    BY <1>2, IntentsInOrder
  <2>9. ASSUME NEW i \in DOMAIN records
        PROVE  /\ Matches(q, records[i]) # {}
               /\ beside(records[i]) => \A r \in Records : Matches(q, r) # {} => beside(r)
               /\ Kind[records[i]] \in {"cell", "priority", "state"} => Footer(records) # "none"
    <3>1. records[i] \in Pool(q)
      BY RetrievedOnce
    <3>2. records[i] \in Records /\ Score(q, records[i]) > 0
      BY <3>1 DEF Pool
    <3>3. beside(records[i]) => \A r \in Records : Score(q, r) > 0 => beside(r)
      BY <3>1 DEF Pool
    <3>4. Kind[records[i]] \in {"cell", "priority", "state"} => Footer(records) # "none"
      BY DEF Footer
    <3> QED
      BY <3>2, <3>3, <3>4, ScoreMeansMatch
  <2> QED
    BY <2>1, <2>2, <2>3, <2>7, <2>8, <2>9 DEF Grounded
<1> QED
  BY <1>1, <1>2

\* Whatever is quoted, also under a refusal, is a record in the version held.
LEMMA QuotedAsHeld ==
  ASSUME NEW q \in Questions, NEW records \in RagRetrieve(q), NEW held,
         NEW i \in DOMAIN RagAnswer(q, records, held).passages
  PROVE  \E r \in Records : RagAnswer(q, records, held).passages[i] = [record |-> r, version |-> held[r]]
<1> DEFINE a == RagAnswer(q, records, held)
<1>1. \A n \in DOMAIN records : records[n] \in Records
  BY RetrievedOnce DEF Pool
<1>2. CASE IntentOf(q) = "personal"
  <2> DEFINE near == {n \in DOMAIN records : Kind[records[n]] \in {"cell", "alert", "shelter", "state"}}
             first == {n \in near : Cardinality({m \in near : m < n}) < 3}
  <2>1. a.passages = Quoted(Kept(records, first), held)
    BY <1>2 DEF RagAnswer
  <2>2. first \in SUBSET Nat /\ IsFiniteSet(first)
    <3>1. PICK k \in Nat : records \in [1..k -> Pool(q)]
      BY RetrievedOnce
    <3>2. first \in SUBSET (1..k)
      BY <3>1
    <3>3. IsFiniteSet(1..k)
      BY FS_Interval
    <3>4. 1..k \in SUBSET Nat
      OBVIOUS
    <3> HIDE DEF first
    <3>5. IsFiniteSet(first)
      BY <3>2, <3>3, FS_Subset, Zenon
    <3> QED
      BY <3>2, <3>4, <3>5
  <2>3. first \subseteq DOMAIN records
    OBVIOUS
  <2> HIDE DEF first
  <2>4. i \in DOMAIN Kept(records, first)
    BY <2>1 DEF Quoted
  <2>5. PICK n \in first : Kept(records, first)[i] = records[n]
    <3>1. \A n \in DOMAIN Kept(records, first) :
            \E m \in first : Kept(records, first)[n] = records[m]
      BY <2>2, KeptEntries
    <3> QED
      BY <2>4, <3>1
  <2>6. a.passages[i] = [record |-> records[n], version |-> held[records[n]]]
    BY <2>1, <2>4, <2>5 DEF Quoted
  <2> QED
    BY <1>1, <2>3, <2>6
<1>3. CASE IntentOf(q) # "personal" /\ TooWeak(q, records)
  BY <1>3 DEF RagAnswer, NoAnswer
<1>4. CASE IntentOf(q) # "personal" /\ ~TooWeak(q, records)
  <2>1. a.passages = Quoted(records, held)
    BY <1>4 DEF RagAnswer
  <2>2. i \in DOMAIN records
    BY <2>1 DEF Quoted
  <2>3. a.passages[i] = [record |-> records[i], version |-> held[records[i]]]
    BY <2>1, <2>2 DEF Quoted
  <2> QED
    BY <1>1, <2>2, <2>3
<1> QED
  BY <1>2, <1>3, <1>4

\* An index that is not marked out of date has, of each record, the version the log
\* last announced or a later one.
IndexKnows ==
  /\ store \in [Records -> Nat] /\ marked \in [Records -> Nat] /\ index \in [Records -> Nat]
  /\ \A r \in Records : marked[r] <= store[r]
  /\ ~dirty => \A r \in Records : marked[r] <= index[r]

\* What a step may do to the answer.
AnswerKnows ==
  answer' # answer => \A i \in DOMAIN answer'.passages :
    answer'.passages[i].version >= marked[answer'.passages[i].record]

LEMMA AssistantStarts == AssistantInit => IndexKnows /\ AnswerGrounded
BY DEF AssistantInit, IndexKnows, AnswerGrounded, Grounded, NoAnswer

LEMMA BuiltIndexKnows ==
  ASSUME IndexKnows, BuildIndex, UNCHANGED storeVars
  PROVE  IndexKnows' /\ \A r \in Records : marked[r] <= index'[r]
BY DEF IndexKnows, BuildIndex, storeVars

LEMMA AssistantSteps ==
  ASSUME IndexKnows, AnswerGrounded, [AssistantNext]_assistantVars
  PROVE  IndexKnows' /\ AnswerGrounded' /\ AnswerKnows
<1>1. CASE \E q \in Questions : Answer(q)
  <2>1. PICK q \in Questions : Answer(q)
    BY <1>1
  <2>2. PICK records \in RagRetrieve(q) : answer' = RagAnswer(q, records, index')
    BY <2>1 DEF Answer
  <2>3. IndexKnows' /\ (\A r \in Records : marked[r] <= index'[r]) /\ UNCHANGED storeVars
    BY <2>1, BuiltIndexKnows DEF Answer
  <2>4. Grounded(answer')
    BY <2>2, AnswersAreGrounded
  <2>5. ASSUME NEW i \in DOMAIN answer'.passages
        PROVE  answer'.passages[i].version >= marked[answer'.passages[i].record]
    <3>1. PICK r \in Records : answer'.passages[i] = [record |-> r, version |-> index'[r]]
      BY <2>2, QuotedAsHeld
    <3>2. marked[r] <= index'[r] /\ marked[r] \in Nat /\ index'[r] \in Nat
      BY <2>3 DEF IndexKnows, storeVars
    <3> QED
      BY <3>1, <3>2
  <2> QED
    BY <2>3, <2>4, <2>5 DEF AnswerGrounded, AnswerKnows
<1>2. CASE ToggleChat
  <2>1. UNCHANGED storeVars /\ answer' = answer
    BY <1>2 DEF ToggleChat
  <2>2. IndexKnows'
    BY <1>2, <2>1, BuiltIndexKnows DEF ToggleChat, IndexKnows, storeVars
  <2> QED
    BY <2>1, <2>2 DEF AnswerGrounded, AnswerKnows
<1>3. CASE \E r \in Records : LogChange(r) \/ QuietChange(r)
  <2>1. PICK c \in Records : LogChange(c) \/ QuietChange(c)
    BY <1>3
  <2>2. store' = [store EXCEPT ![c] = @ + 1] /\ index' = index /\ answer' = answer
    BY <2>1 DEF LogChange, QuietChange
  <2>3. store' \in [Records -> Nat] /\ \A r \in Records : store[r] <= store'[r]
    BY <2>2 DEF IndexKnows
  <2>4. IndexKnows'
    BY <2>1, <2>2, <2>3 DEF LogChange, QuietChange, IndexKnows
  <2> QED
    BY <2>2, <2>4 DEF AnswerGrounded, AnswerKnows
<1>4. CASE UNCHANGED <<storeVars, dirty, index, answer>>
  BY <1>4 DEF IndexKnows, AnswerGrounded, AnswerKnows, storeVars
<1> QED
  BY <1>1, <1>2, <1>3, <1>4 DEF AssistantNext, AskAssistant, assistantVars

\* rag.js, ragAnswer: for every store, question and choice of thresholds, an answer that
\* is given rests on records that match, each quoted once, of a kind the question is
\* not about only when nothing else matched, labelled when it shows a model's figure.
THEOREM AnswersRestOnRecords == AssistantSpec => []AnswerGrounded
<1>1. IndexKnows /\ AnswerGrounded /\ [AssistantNext]_assistantVars
        => IndexKnows' /\ AnswerGrounded'
  BY AssistantSteps
<1> QED
  BY AssistantStarts, <1>1, PTL DEF AssistantSpec

\* rag.js, markRagDirty: whatever the log announced is in every answer given after
\* it, also to a question asked before it.
THEOREM AnswersKnowAnnouncements == AssistantSpec => AnswersKnowTheLog
<1>1. IndexKnows /\ AnswerGrounded /\ [AssistantNext]_assistantVars
        => IndexKnows' /\ AnswerGrounded'
  BY AssistantSteps
<1>2. IndexKnows /\ AnswerGrounded /\ [AssistantNext]_assistantVars =>
        [answer' # answer => \A i \in DOMAIN answer'.passages :
           answer'.passages[i].version >= marked[answer'.passages[i].record]]_assistantVars
  BY AssistantSteps DEF AnswerKnows
<1> QED
  BY AssistantStarts, <1>1, <1>2, PTL DEF AssistantSpec, AnswersKnowTheLog

-----------------------------------------------------------------------------
(* Bulletins: the ages of the warnings *)

Row == [state : States, number : Nat, age : Nat, since : Nat, window : Nat]

\* What is true of a row when the issued warnings are as old as `minutes` says: its age
\* and the minutes since its stamp make up the time since it was issued.
Dated(r, minutes) ==
  r.number # Derived =>
    /\ r.number \in DOMAIN minutes
    /\ r.age + r.since = minutes[r.number]
    /\ r.window = IssuedWindow

Unexpired(r) == r.number # Derived => r.age < IssuedWindow

TrueRows(minutes) == {r \in Row : Dated(r, minutes) /\ Unexpired(r)}

FeedTrue ==
  /\ focus \in States /\ cursor \in States /\ sev \in [States -> {None, Watch, Warn}]
  /\ issued \in Seq(Nat)
  /\ feed \in Seq(TrueRows(issued))

\* The derived warning of a warned state claims nothing of an issued one.
LEMMA AlertIsTrue ==
  ASSUME sev \in [States -> {None, Watch, Warn}], NEW st \in Warned, NEW minutes
  PROVE  StateAlert(st) \in TrueRows(minutes)
<1>1. st \in States /\ sev[st] \in Watch..Warn
  BY DEF Warned, None, Watch, Warn
<1>2. Recency[st][sev[st]] \in Nat /\ Window[st] \in Nat
  BY <1>1, BulletinsAssumption
<1> QED
  BY <1>1, <1>2 DEF StateAlert, TrueRows, Row, Dated, Unexpired, Derived

LEMMA YoungerLines ==
  ASSUME NEW T \in SUBSET Row, NEW rows \in Seq(T)
  PROVE  Lines(Younger(rows), DOMAIN rows)
<1>1. \A i \in DOMAIN rows : i \in Nat /\ rows[i].age \in Nat
  BY DEF Row
<1> QED
  BY <1>1 DEF Lines, Younger

LEMMA KeptAre ==
  ASSUME NEW T, NEW s, NEW at \in SUBSET Nat, IsFiniteSet(at), \A i \in at : s[i] \in T
  PROVE  Kept(s, at) \in Seq(T)
<1>1. /\ Cardinality(at) \in Nat /\ DOMAIN Kept(s, at) = 1..Cardinality(at)
      /\ \A n \in DOMAIN Kept(s, at) : \E i \in at : Kept(s, at)[n] = s[i]
  BY KeptEntries
<1>2. \A n \in 1..Cardinality(at) : Kept(s, at)[n] \in T
  BY <1>1
<1>3. Kept(s, at) = [n \in 1..Cardinality(at) |-> Kept(s, at)[n]]
  BY DEF Kept
<1> QED
  BY <1>1, <1>2, <1>3

LEMMA NewestKeeps ==
  ASSUME NEW T \in SUBSET Row, NEW rows \in Seq(T)
  PROVE  Newest(rows) \in Seq(T)
BY YoungerLines, SortedEntries DEF Newest

\* Adding the minutes since the stamp and stamping anew keeps a row dated; the
\* filter leaves those whose time has not come.
LEMMA InForceAreTrue ==
  ASSUME FeedTrue
  PROVE  InForce(Aged(feed)) \in Seq(TrueRows(issued))
<1> DEFINE aged == Aged(feed)
           at == {i \in DOMAIN aged : aged[i].age < aged[i].window}
<1>1. \A i \in DOMAIN feed : feed[i] \in Row /\ Dated(feed[i], issued)
  BY DEF FeedTrue, TrueRows
<1>2. DOMAIN aged = 1..Len(feed) /\ Len(feed) \in Nat
  BY DEF FeedTrue, Aged
<1>3. ASSUME NEW i \in DOMAIN aged
      PROVE  aged[i] \in Row /\ Dated(aged[i], issued)
  <2>1. i \in DOMAIN feed /\ aged[i] = [feed[i] EXCEPT !.age = @ + feed[i].since, !.since = 0]
    BY DEF Aged
  <2>2. feed[i] \in Row /\ Dated(feed[i], issued)
    BY <1>1, <2>1
  <2>3. aged[i] = [state |-> feed[i].state, number |-> feed[i].number,
                   age |-> feed[i].age + feed[i].since, since |-> 0, window |-> feed[i].window]
    BY <2>1, <2>2 DEF Row
  <2> HIDE DEF aged
  <2>4. aged[i] \in Row
    BY <2>2, <2>3 DEF Row
  <2>5. aged[i].age + aged[i].since = feed[i].age + feed[i].since
    BY <2>2, <2>3 DEF Row
  <2> QED
    BY <2>2, <2>3, <2>4, <2>5 DEF Dated
<1>4. \A i \in at : aged[i] \in TrueRows(issued)
  BY <1>3 DEF TrueRows, Dated, Unexpired
<1>5. at \in SUBSET Nat /\ IsFiniteSet(at)
  <2>1. at \in SUBSET (1..Len(feed))
    BY <1>2
  <2>2. IsFiniteSet(1..Len(feed)) /\ 1..Len(feed) \in SUBSET Nat
    BY <1>2, FS_Interval
  <2> HIDE DEF at
  <2>3. IsFiniteSet(at)
    BY <2>1, <2>2, FS_Subset, Zenon
  <2> QED
    BY <2>1, <2>2, <2>3
<1>6. InForce(aged) = Kept(aged, at)
  BY DEF InForce
<1> HIDE DEF at, aged
<1>7. Kept(aged, at) \in Seq(TrueRows(issued))
  BY <1>4, <1>5, KeptAre
<1> QED
  BY <1>6, <1>7 DEF aged

\* Replacing the first row of a state, or adding one, keeps the others.
LEMMA RotatedIsTrue ==
  ASSUME FeedTrue, NEW rows \in Seq(TrueRows(issued)), NEW st \in States
  PROVE  Rotated(rows, st) \in Seq(TrueRows(issued))
<1> DEFINE mine == {i \in DOMAIN rows : rows[i].state = st}
           new == StateAlert(st)
<1>1. CASE st \notin Warned
  BY <1>1 DEF Rotated
<1>2. CASE st \in Warned
  <2>1. new \in TrueRows(issued)
    BY <1>2, AlertIsTrue DEF FeedTrue
  <2> HIDE DEF new
  <2>2. Append(rows, new) \in Seq(TrueRows(issued))
    BY <2>1
  <2>3. ASSUME NEW k
        PROVE  [rows EXCEPT ![k] = new] \in Seq(TrueRows(issued))
    <3>1. rows \in [1..Len(rows) -> TrueRows(issued)] /\ Len(rows) \in Nat
      OBVIOUS
    <3>2. [rows EXCEPT ![k] = new] \in [1..Len(rows) -> TrueRows(issued)]
      BY <2>1, <3>1, Zenon
    <3> QED
      BY <3>1, <3>2
  <2>4. Rotated(rows, st) \in {rows, Append(rows, new), [rows EXCEPT ![Min(mine)] = new]}
    BY <1>2 DEF Rotated, new
  <2> QED
    BY <2>2, <2>3, <2>4
<1> QED
  BY <1>1, <1>2

\* data.js, stateIds: the cursor turns over the states.
LEMMA CursorTurns ==
  ASSUME NEW c \in States
  PROVE  NextCursor(c) \in States
<1>1. Cardinality(States) \in Nat /\ States = 1..Cardinality(States)
  BY BulletinsAssumption, FS_CardinalityType
<1> QED
  BY <1>1 DEF NextCursor

\* A longer log of issued warnings changes nothing about the earlier ones.
LEMMA IssuedLaterToo ==
  ASSUME NEW minutes \in Seq(Nat), NEW r \in TrueRows(minutes)
  PROVE  r \in TrueRows(Append(minutes, 0))
<1>1. \A n \in DOMAIN minutes : n \in DOMAIN Append(minutes, 0) /\ Append(minutes, 0)[n] = minutes[n]
  OBVIOUS
<1> QED
  BY <1>1 DEF TrueRows, Dated, Unexpired

LEMMA FeedStarts == BulletinsInit => FeedTrue
<1> SUFFICES ASSUME BulletinsInit
             PROVE  FeedTrue
  OBVIOUS
<1> DEFINE alerts == [st \in Warned |-> StateAlert(st)]
<1>1. 1 \in States /\ Home \in States
  <2>1. Cardinality(States) \in Nat /\ States = 1..Cardinality(States) /\ Home \in States
    BY BulletinsAssumption, FS_CardinalityType
  <2> QED
    BY <2>1
<1>2. sev \in [States -> {None, Watch, Warn}]
  BY DEF BulletinsInit
<1>3. \A st \in Warned : alerts[st] \in TrueRows(<<>>)
  BY <1>2, AlertIsTrue
<1>4. Warned \in SUBSET Nat /\ IsFiniteSet(Warned)
  <2>1. Warned \in SUBSET States
    BY DEF Warned
  <2>2. IsFiniteSet(Warned)
    BY <2>1, BulletinsAssumption, FS_Subset, Zenon
  <2>3. States \in SUBSET Nat
    <3>1. States = 1..Cardinality(States) /\ Cardinality(States) \in Nat
      BY BulletinsAssumption, FS_CardinalityType
    <3>2. 1..Cardinality(States) \in SUBSET Nat
      BY <3>1
    <3> QED
      BY <3>1, <3>2
  <2> QED
    BY <2>1, <2>2, <2>3
<1>5. DOMAIN alerts = Warned
  OBVIOUS
<1> HIDE DEF alerts
<1>6. Kept(alerts, Warned) \in Seq(TrueRows(<<>>))
  BY <1>3, <1>4, <1>5, KeptAre
<1>7. feed = Newest(Kept(alerts, Warned))
  BY DEF BulletinsInit, BuildNationalFeed, alerts
<1>8. feed \in Seq(TrueRows(<<>>))
  <2>1. TrueRows(<<>>) \in SUBSET Row
    BY DEF TrueRows
  <2> QED
    BY <1>6, <1>7, <2>1, NewestKeeps
<1> QED
  BY <1>1, <1>2, <1>8 DEF BulletinsInit, FeedTrue


\* refreshNationalFeed, with its callers.
LEMMA RefreshKeepsTrue ==
  ASSUME FeedTrue, RefreshNationalFeed
  PROVE  FeedTrue'
<1>1. TrueRows(issued) \in SUBSET Row
  BY DEF TrueRows
<1>2. PICK left \in {InForce(Aged(feed))} : \E turned \in {Rotated(left, cursor)} :
        feed' = Newest(turned)
  BY DEF RefreshNationalFeed
<1>3. left \in Seq(TrueRows(issued))
  BY <1>2, InForceAreTrue
<1>4. Rotated(left, cursor) \in Seq(TrueRows(issued))
  BY <1>3, RotatedIsTrue DEF FeedTrue
<1>5. feed' \in Seq(TrueRows(issued))
  BY <1>1, <1>2, <1>4, NewestKeeps
<1>6. cursor' \in States
  BY CursorTurns DEF RefreshNationalFeed, FeedTrue
<1> QED
  BY <1>5, <1>6 DEF RefreshNationalFeed, FeedTrue, TrueRows, Dated

\* pushNational: the oldest row may be dropped, the others stay as they are.
LEMMA IssueKeepsTrue ==
  ASSUME FeedTrue, IssueAlert
  PROVE  FeedTrue'
<1> DEFINE row == [state |-> focus, number |-> Len(issued) + 1, age |-> 0, since |-> 0,
                   window |-> IssuedWindow]
           rows == <<row>> \o feed
           known == TrueRows(Append(issued, 0))
<1>1. issued \in Seq(Nat) /\ issued' = Append(issued, 0)
  BY DEF FeedTrue, IssueAlert
<1>2. row \in known
  <2>1. /\ Len(issued) + 1 \in DOMAIN Append(issued, 0)
        /\ Append(issued, 0)[Len(issued) + 1] = 0
    BY <1>1
  <2>2. IssuedWindow \in Nat \ {0} /\ focus \in States /\ Len(issued) \in Nat
    BY BulletinsAssumption, <1>1 DEF FeedTrue
  <2>3. row \in Row
    BY <2>2 DEF Row
  <2> QED
    BY <2>1, <2>2, <2>3 DEF TrueRows, Dated, Unexpired
<1>3. \A r \in TrueRows(issued) : r \in known
  BY <1>1, IssuedLaterToo
<1>4. feed \in Seq(known)
  BY <1>3 DEF FeedTrue
<1>5. known \in SUBSET Row
  BY DEF TrueRows
<1>6. feed' = Newest(IF Len(rows) > FeedMax THEN Front(rows) ELSE rows)
  BY DEF IssueAlert
<1> HIDE DEF known, row
<1>7. rows \in Seq(known) /\ Len(rows) = Len(feed) + 1
  BY <1>2, <1>4
<1> HIDE DEF rows
<1>8. Front(rows) \in Seq(known)
  BY <1>4, <1>7 DEF Front
<1>9. feed' \in Seq(known)
  BY <1>5, <1>6, <1>7, <1>8, NewestKeeps
<1> QED
  BY <1>1, <1>9 DEF IssueAlert, FeedTrue, known, TrueRows, Dated

\* The stamp of every row and the age of every issued warning move together; a row in
\* force is within the bound the model keeps the ages of the issued ones to.
LEMMA MinuteKeepsTrue ==
  ASSUME FeedTrue, Minute
  PROVE  FeedTrue'
<1>1. issued' \in Seq(Nat) /\ DOMAIN issued' = DOMAIN issued
  <2>1. issued' \in [1..Len(issued) -> Nat] /\ Len(issued) \in Nat
    <3>1. Len(issued) \in Nat /\ DOMAIN issued = 1..Len(issued)
          /\ \A n \in DOMAIN issued : issued[n] \in Nat
      BY DEF FeedTrue
    <3>2. IssuedWindow \in Nat /\ MaxGap \in Nat
      BY BulletinsAssumption
    <3>3. issued' = [n \in DOMAIN issued |-> IF issued[n] < IssuedWindow + MaxGap
                                               THEN issued[n] + 1 ELSE issued[n]]
      BY DEF Minute
    <3> QED
      BY <3>1, <3>2, <3>3
  <2>2. DOMAIN issued' = 1..Len(issued)
    BY <2>1
  <2> QED
    BY <2>1, <2>2 DEF FeedTrue
<1>2. ASSUME NEW i \in DOMAIN feed
      PROVE  feed'[i] \in TrueRows(issued')
  <2>1. feed[i] \in Row /\ Dated(feed[i], issued) /\ Unexpired(feed[i]) /\ feed[i].since < MaxGap
    BY DEF FeedTrue, TrueRows, Minute
  <2>2. feed'[i] = [state |-> feed[i].state, number |-> feed[i].number, age |-> feed[i].age,
                    since |-> feed[i].since + 1, window |-> feed[i].window]
    BY <2>1 DEF Minute, Row
  <2>3. feed'[i] \in Row
    BY <2>1, <2>2 DEF Row
  <2>4. feed[i].number # Derived => issued'[feed[i].number] = issued[feed[i].number] + 1
    <3>1. SUFFICES ASSUME feed[i].number # Derived
                   PROVE  issued'[feed[i].number] = issued[feed[i].number] + 1
      OBVIOUS
    <3>2. /\ feed[i].number \in DOMAIN issued
          /\ feed[i].age + feed[i].since = issued[feed[i].number]
          /\ feed[i].age < IssuedWindow
      BY <2>1, <3>1 DEF Dated, Unexpired
    <3>3. issued[feed[i].number] < IssuedWindow + MaxGap
      BY <2>1, <3>2, BulletinsAssumption DEF Row
    <3> QED
      BY <3>2, <3>3 DEF Minute
  <2> QED
    BY <1>1, <2>1, <2>2, <2>3, <2>4 DEF TrueRows, Dated, Unexpired, Row
<1>3. feed' \in Seq(TrueRows(issued'))
  <2>1. feed' = [i \in 1..Len(feed) |-> feed'[i]] /\ DOMAIN feed = 1..Len(feed) /\ Len(feed) \in Nat
    BY DEF FeedTrue, Minute
  <2> QED
    BY <1>2, <2>1
<1> QED
  BY <1>1, <1>3 DEF FeedTrue, Minute, TrueRows, Dated

LEMMA FeedSteps == FeedTrue /\ [BulletinsNext]_bulletinsVars => FeedTrue'
<1> SUFFICES ASSUME FeedTrue, [BulletinsNext]_bulletinsVars
             PROVE  FeedTrue'
  OBVIOUS
<1>1. CASE RefreshNationalFeed
  BY <1>1, RefreshKeepsTrue
<1>2. CASE IssueAlert
  BY <1>2, IssueKeepsTrue
<1>3. CASE Minute
  BY <1>3, MinuteKeepsTrue
<1>4. CASE \E st \in States : DriftSeverity(st)
  <2>1. sev' \in [States -> {None, Watch, Warn}]
    BY <1>4 DEF DriftSeverity, FeedTrue
  <2> QED
    BY <1>4, <2>1 DEF DriftSeverity, feedVars, FeedTrue, TrueRows, Dated
<1>5. CASE \E st \in States : LoadState(st)
  BY <1>5 DEF LoadState, feedVars, FeedTrue, TrueRows, Dated
<1>6. CASE SubmitReport \/ ReportArrives \/ ReportVerified
  BY <1>6 DEF SubmitReport, ReportArrives, ReportVerified, feedVars, FeedTrue, TrueRows, Dated
<1>7. CASE UNCHANGED bulletinsVars
  BY <1>7 DEF bulletinsVars, feedVars, FeedTrue, TrueRows, Dated
<1> QED
  BY <1>1, <1>2, <1>3, <1>4, <1>5, <1>6, <1>7 DEF BulletinsNext

\* states.js, refreshNationalFeed: for any number of states and any feed length, an
\* issued warning is shown at its true age and none that has run out is shown.
THEOREM IssuedAgesTrue == BulletinsSpec => []IssuedAgeTrue
<1>1. FeedTrue => IssuedAgeTrue
  BY DEF FeedTrue, IssuedAgeTrue, TrueRows, Dated, Unexpired
<1> QED
  BY FeedStarts, FeedSteps, <1>1, PTL DEF BulletinsSpec

-----------------------------------------------------------------------------
(* Bulletins: the identifiers of the reports *)

ReportsKept ==
  reports \in Seq([id : Nat, by : {"seed", "citizen", "feed"}, st : {"pending", "verified"}])

\* There are no more identifiers than reports.
LEMMA IdsOfReports ==
  ASSUME ReportsKept
  PROVE  IsFiniteSet(Ids) /\ Cardinality(Ids) \in Nat /\ Cardinality(Ids) <= Len(reports)
<1> DEFINE id == [i \in 1..Len(reports) |-> reports[i].id]
<1>1. Len(reports) \in Nat /\ DOMAIN reports = 1..Len(reports)
  BY DEF ReportsKept
<1>2. id \in Surjection(1..Len(reports), Ids)
  <2>1. \A i \in 1..Len(reports) : id[i] = reports[i].id
    OBVIOUS
  <2>2. DOMAIN id = 1..Len(reports) /\ id = [i \in 1..Len(reports) |-> id[i]]
    OBVIOUS
  <2> HIDE DEF id
  <2>3. \A i \in 1..Len(reports) : id[i] \in Ids
    BY <1>1, <2>1 DEF Ids
  <2>4. \A t \in Ids : \E i \in 1..Len(reports) : id[i] = t
    BY <1>1, <2>1 DEF Ids
  <2>5. id \in [1..Len(reports) -> Ids]
    BY <2>2, <2>3
  <2> QED
    BY <2>4, <2>5 DEF Surjection
<1>3. IsFiniteSet(1..Len(reports)) /\ Cardinality(1..Len(reports)) = Len(reports)
  <2>1. /\ IsFiniteSet(1..Len(reports))
        /\ Cardinality(1..Len(reports)) = IF 1 > Len(reports) THEN 0 ELSE Len(reports) - 1 + 1
    BY <1>1, FS_Interval
  <2> QED
    BY <1>1, <2>1
<1> HIDE DEF id
<1>4. IsFiniteSet(Ids) /\ Cardinality(Ids) <= Cardinality(1..Len(reports))
  BY <1>2, <1>3, FS_Surjection
<1> QED
  BY <1>3, <1>4, FS_CardinalityType

\* Of the numbers tried there is one more than reports, so that one is free; the
\* first free one is taken.
LEMMA NextReportIdIsFree ==
  ASSUME ReportsKept
  PROVE  NextReportId \in Nat \ Ids
<1> DEFINE tried == FirstId + Len(reports)..FirstId + 2 * Len(reports)
           free == {n \in tried : n \notin Ids}
<1>1. Len(reports) \in Nat /\ FirstId \in Nat
  BY BulletinsAssumption DEF ReportsKept
<1>2. tried \in SUBSET Nat
  BY <1>1
<1>3. Cardinality(tried) = Len(reports) + 1
  <2>1. Cardinality(tried) = (FirstId + 2 * Len(reports)) - (FirstId + Len(reports)) + 1
    BY <1>1, FS_Interval
  <2> QED
    BY <1>1, <2>1
<1> HIDE DEF tried
<1>4. free # {}
  <2>1. SUFFICES ASSUME free = {}
                 PROVE  FALSE
    OBVIOUS
  <2>2. tried \in SUBSET Ids
    BY <2>1
  <2>3. IsFiniteSet(Ids) /\ Cardinality(Ids) \in Nat /\ Cardinality(Ids) <= Len(reports)
    BY IdsOfReports
  <2>4. Cardinality(tried) <= Cardinality(Ids)
    BY <2>2, <2>3, FS_Subset, Zenon
  <2> QED
    BY <1>1, <1>3, <2>3, <2>4
<1>5. free \in SUBSET Nat
  BY <1>2
<1>6. Min(free) \in free
  BY <1>4, <1>5, MinIsLeast
<1>7. NextReportId = Min(free)
  BY DEF NextReportId, tried
<1> QED
  BY <1>5, <1>6, <1>7

\* The reports a state is opened with are none of the public's.
LEMMA SeededKept ==
  ASSUME NEW st \in States
  PROVE  /\ Seeded[st] \in
              Seq([id : Nat, by : {"seed", "citizen", "feed"}, st : {"pending", "verified"}])
         /\ Seeded[st] # <<>> => Seeded[st][1].by = "seed"
<1> DEFINE Seed == [id : Nat, by : {"seed"}, st : {"pending", "verified"}]
           Report == [id : Nat, by : {"seed", "citizen", "feed"}, st : {"pending", "verified"}]
<1>1. Seeded[st] \in Seq(Seed)
  BY BulletinsAssumption
<1>2. \A r \in Seed : r.by = "seed" /\ r \in Report
  OBVIOUS
<1> HIDE DEF Seed, Report
<1>3. /\ Len(Seeded[st]) \in Nat /\ Seeded[st] = [i \in 1..Len(Seeded[st]) |-> Seeded[st][i]]
      /\ \A i \in 1..Len(Seeded[st]) : Seeded[st][i] \in Seed
      /\ Seeded[st] # <<>> => 1 \in 1..Len(Seeded[st])
  BY <1>1
<1>4. Seeded[st] \in Seq(Report)
  BY <1>2, <1>3
<1>5. Seeded[st] # <<>> => Seeded[st][1].by = "seed"
  BY <1>2, <1>3
<1> QED
  BY <1>4, <1>5 DEF Report

\* What a step may do to the reports.
CitizenIdIsFree ==
  Len(reports') = Len(reports) + 1 /\ reports'[1].by = "citizen" => reports'[1].id \notin Ids

LEMMA ReportsStart == BulletinsInit => ReportsKept
<1> SUFFICES ASSUME BulletinsInit
             PROVE  ReportsKept
  OBVIOUS
<1>1. Home \in States
  BY BulletinsAssumption
<1>2. reports = Seeded[Home]
  BY DEF BulletinsInit
<1> QED
  BY <1>1, <1>2, SeededKept DEF ReportsKept

LEMMA ReportsStep ==
  ASSUME ReportsKept, [BulletinsNext]_bulletinsVars
  PROVE  ReportsKept' /\ CitizenIdIsFree
<1> DEFINE Report == [id : Nat, by : {"seed", "citizen", "feed"}, st : {"pending", "verified"}]
<1>1. reports \in Seq(Report) /\ Len(reports) \in Nat
  BY DEF ReportsKept
<1>2. CASE SubmitReport
  <2> DEFINE new == [id |-> NextReportId, by |-> "citizen", st |-> "pending"]
  <2>1. new \in Report /\ new.id \notin Ids
    BY NextReportIdIsFree
  <2>2. reports' = <<new>> \o reports
    BY <1>2 DEF SubmitReport
  <2> HIDE DEF new
  <2>3. reports' \in Seq(Report) /\ reports'[1] = new
    BY <1>1, <2>1, <2>2
  <2> QED
    BY <2>1, <2>3 DEF ReportsKept, CitizenIdIsFree
<1>3. CASE ReportArrives
  <2>1. PICK n \in EventIds :
          reports' = <<[id |-> n, by |-> "feed", st |-> "pending"]>> \o reports
    BY <1>3 DEF ReportArrives
  <2> DEFINE new == [id |-> n, by |-> "feed", st |-> "pending"]
  <2>2. new \in Report /\ new.by = "feed"
    BY BulletinsAssumption
  <2> HIDE DEF new
  <2>3. reports' \in Seq(Report) /\ reports'[1] = new
    BY <1>1, <2>1, <2>2 DEF new
  <2> QED
    BY <2>2, <2>3 DEF ReportsKept, CitizenIdIsFree
<1>4. CASE ReportVerified
  <2>1. PICK k : reports' = [reports EXCEPT ![k].st = "verified"]
    BY <1>4 DEF ReportVerified
  <2>2. \A r \in Report : [r EXCEPT !.st = "verified"] \in Report
    OBVIOUS
  <2> HIDE DEF Report
  <2>3. reports \in [1..Len(reports) -> Report]
    BY <1>1
  <2>4. reports' \in [1..Len(reports) -> Report]
    BY <2>1, <2>2, <2>3, Zenon
  <2>5. reports' \in Seq(Report) /\ Len(reports') = Len(reports)
    BY <1>1, <2>4
  <2> QED
    BY <1>1, <2>5 DEF ReportsKept, CitizenIdIsFree, Report
<1>5. CASE \E st \in States : LoadState(st)
  <2>1. PICK st \in States : reports' = Seeded[st]
    BY <1>5 DEF LoadState
  <2>2. ReportsKept' /\ (reports' # <<>> => reports'[1].by = "seed")
    BY <2>1, SeededKept DEF ReportsKept
  <2>3. Len(reports') = Len(reports) + 1 => reports' # <<>>
    BY <1>1, <2>2 DEF ReportsKept
  <2> QED
    BY <2>2, <2>3 DEF CitizenIdIsFree
<1>6. CASE UNCHANGED reports
  BY <1>1, <1>6 DEF ReportsKept, CitizenIdIsFree
<1> QED
  BY <1>2, <1>3, <1>4, <1>5, <1>6
  DEF BulletinsNext, RefreshNationalFeed, IssueAlert, Minute, DriftSeverity, bulletinsVars

\* actions.js, nextReportId: however many reports there are and whatever identifiers
\* the simulated feed draws, a report of the public gets one that is not in use.
THEOREM CitizenIdsFresh == BulletinsSpec => CitizenIdFresh
<1>1. ReportsKept /\ [BulletinsNext]_bulletinsVars =>
        ReportsKept' /\ [Len(reports') = Len(reports) + 1 /\ reports'[1].by = "citizen" =>
                           reports'[1].id \notin Ids]_bulletinsVars
  BY ReportsStep DEF CitizenIdIsFree
<1> QED
  BY ReportsStart, <1>1, PTL DEF BulletinsSpec, CitizenIdFresh

-----------------------------------------------------------------------------
(* District: people counted one by one *)

Heads(rows) == Cardinality(Persons(rows))

To(rows, s) == {r \in rows : r.to = s}

From(rows, z) == {r \in rows : r.zone = z}

LEMMA NobodyInNoRows == Persons({}) = {} /\ IsFiniteSet(Persons({})) /\ Heads({}) = 0
<1>1. Persons({}) = {}
  BY DEF Persons
<1> QED
  BY <1>1, FS_EmptySet DEF Heads

LEMMA PartOfRows ==
  ASSUME NEW rows, IsFiniteSet(Persons(rows)), NEW part \in SUBSET rows
  PROVE  IsFiniteSet(Persons(part)) /\ Heads(part) \in Nat
<1>1. Persons(part) \in SUBSET Persons(rows)
  BY DEF Persons
<1>2. IsFiniteSet(Persons(part))
  BY <1>1, FS_Subset, Zenon
<1> QED
  BY <1>2, FS_CardinalityType DEF Heads

\* A row more is its people more.
LEMMA RowAdds ==
  ASSUME NEW rows, IsFiniteSet(Persons(rows)), NEW x, x.people \in Nat, x \notin rows
  PROVE  /\ IsFiniteSet(Persons(rows \union {x}))
         /\ Heads(rows \union {x}) = Heads(rows) + x.people
<1> DEFINE mine == {x} \X (1..x.people)
<1>1. Persons(rows \union {x}) = Persons(rows) \union mine
  BY DEF Persons
<1>2. Persons(rows) \intersect mine = {}
  BY DEF Persons
<1>3. IsFiniteSet(mine) /\ Cardinality(mine) = x.people
  <2>1. IsFiniteSet({x}) /\ Cardinality({x}) = 1
    BY FS_Singleton
  <2>2. /\ IsFiniteSet(1..x.people)
        /\ Cardinality(1..x.people) = IF 1 > x.people THEN 0 ELSE x.people - 1 + 1
    BY FS_Interval
  <2>3. Cardinality(1..x.people) = x.people
    BY <2>2
  <2>4. IsFiniteSet(mine) /\ Cardinality(mine) = Cardinality({x}) * Cardinality(1..x.people)
    BY <2>1, <2>2, FS_Product
  <2> QED
    BY <2>1, <2>3, <2>4
<1> HIDE DEF mine
<1>4. /\ IsFiniteSet(Persons(rows) \union mine)
      /\ Cardinality(Persons(rows) \union mine) =
           Cardinality(Persons(rows)) + Cardinality(mine) - Cardinality({})
  BY <1>2, <1>3, FS_Union
<1>5. Cardinality({}) = 0 /\ Cardinality(Persons(rows)) \in Nat
  BY FS_EmptySet, FS_CardinalityType
<1>6. Cardinality(Persons(rows) \union mine) = Cardinality(Persons(rows)) + x.people
  BY <1>3, <1>4, <1>5
<1> QED
  BY <1>1, <1>4, <1>6 DEF Heads

\* A row added to a plan counts where it goes and where it comes from.
LEMMA RowCounts ==
  ASSUME NEW rows, IsFiniteSet(rows), IsFiniteSet(Persons(rows)),
         NEW x, x.people \in Nat, x \notin rows
  PROVE  /\ IsFiniteSet(rows \union {x}) /\ IsFiniteSet(Persons(rows \union {x}))
         /\ \A s : /\ Heads(To(rows, s)) \in Nat
                   /\ Heads(To(rows \union {x}, s)) =
                        Heads(To(rows, s)) + (IF x.to = s THEN x.people ELSE 0)
         /\ \A z : /\ Heads(From(rows, z)) \in Nat
                   /\ Heads(From(rows \union {x}, z)) =
                        Heads(From(rows, z)) + (IF x.zone = z THEN x.people ELSE 0)
<1>1. IsFiniteSet(rows \union {x})
  BY FS_AddElement
<1>2. IsFiniteSet(Persons(rows \union {x}))
  BY RowAdds
<1>3. ASSUME NEW part \in SUBSET rows
      PROVE  Heads(part) \in Nat /\ Heads(part \union {x}) = Heads(part) + x.people
  BY <1>3, PartOfRows, RowAdds
<1>4. ASSUME NEW s
      PROVE  /\ Heads(To(rows, s)) \in Nat
             /\ Heads(To(rows \union {x}, s)) =
                  Heads(To(rows, s)) + (IF x.to = s THEN x.people ELSE 0)
  <2>1. To(rows, s) \in SUBSET rows
    BY DEF To
  <2>2. To(rows \union {x}, s) = IF x.to = s THEN To(rows, s) \union {x} ELSE To(rows, s)
    BY DEF To
  <2> QED
    BY <1>3, <2>1, <2>2
<1>5. ASSUME NEW z
      PROVE  /\ Heads(From(rows, z)) \in Nat
             /\ Heads(From(rows \union {x}, z)) =
                  Heads(From(rows, z)) + (IF x.zone = z THEN x.people ELSE 0)
  <2>1. From(rows, z) \in SUBSET rows
    BY DEF From
  <2>2. From(rows \union {x}, z) = IF x.zone = z THEN From(rows, z) \union {x} ELSE From(rows, z)
    BY DEF From
  <2> QED
    BY <1>3, <2>1, <2>2
<1> QED
  BY <1>1, <1>2, <1>4, <1>5

-----------------------------------------------------------------------------
(* District: one candidate after the other, one zone after the other *)

\* What Sends and Placements unfold to.  That the recursions have a value is shown
\* by the least number of steps that would have none.
SendsOf(acc, e, to, n, sent) ==
  [i \in 0..n |->
     IF i = 0 THEN [left |-> acc.left, rest |-> e.people, used |-> 0, rows |-> acc.rows]
     ELSE Send(sent[i - 1], e, to[i])]

LEMMA SendsExist ==
  ASSUME NEW acc, NEW e, NEW to, NEW n \in Nat
  PROVE  \E sent : sent = SendsOf(acc, e, to, n, sent)
<1> DEFINE none == {k \in Nat : ~ \E sent : sent = SendsOf(acc, e, to, k, sent)}
           start == [left |-> acc.left, rest |-> e.people, used |-> 0, rows |-> acc.rows]
<1>1. SUFFICES ASSUME none # {}
               PROVE  FALSE
  OBVIOUS
<1>2. PICK k \in none : \A j \in none : k <= j
  BY <1>1, LeastNumber
<1>3. [i \in 0..0 |-> start] = SendsOf(acc, e, to, 0, [i \in 0..0 |-> start])
  BY DEF SendsOf
<1>4. k \in Nat \ {0} /\ k - 1 \notin none
  BY <1>2, <1>3
<1>5. PICK f : f = SendsOf(acc, e, to, k - 1, f)
  BY <1>4
<1> DEFINE g == [i \in 0..k |-> IF i = k THEN Send(f[k - 1], e, to[k]) ELSE f[i]]
<1>6. \A i \in 0..k : g[i] = IF i = 0 THEN start ELSE Send(g[i - 1], e, to[i])
  BY <1>4, <1>5 DEF SendsOf
<1>7. g = [i \in 0..k |-> g[i]]
  OBVIOUS
<1> HIDE DEF g
<1>8. g = SendsOf(acc, e, to, k, g)
  BY <1>6, <1>7 DEF SendsOf
<1> QED
  BY <1>2, <1>8

LEMMA SendsUnfold ==
  ASSUME NEW acc, NEW e, NEW to, Len(to) \in Nat
  PROVE  /\ Sends(acc, e, to)[0] =
              [left |-> acc.left, rest |-> e.people, used |-> 0, rows |-> acc.rows]
         /\ \A i \in 1..Len(to) : Sends(acc, e, to)[i] = Send(Sends(acc, e, to)[i - 1], e, to[i])
<1>1. \E sent : sent = SendsOf(acc, e, to, Len(to), sent)
  BY SendsExist
<1>2. Sends(acc, e, to) = SendsOf(acc, e, to, Len(to), Sends(acc, e, to))
  BY <1>1, Zenon DEF Sends, SendsOf
<1> QED
  BY <1>2 DEF SendsOf

PlacementsOf(q, reg, shut, n, placed) ==
  [i \in 0..n |->
     IF i = 0 THEN [left |-> Room(reg), rows |-> {}]
     ELSE PlaceZone(placed[i - 1], q[i], reg, shut)]

LEMMA PlacementsExist ==
  ASSUME NEW q, NEW reg, NEW shut, NEW n \in Nat
  PROVE  \E placed : placed = PlacementsOf(q, reg, shut, n, placed)
<1> DEFINE none == {k \in Nat : ~ \E placed : placed = PlacementsOf(q, reg, shut, k, placed)}
           start == [left |-> Room(reg), rows |-> {}]
<1>1. SUFFICES ASSUME none # {}
               PROVE  FALSE
  OBVIOUS
<1>2. PICK k \in none : \A j \in none : k <= j
  BY <1>1, LeastNumber
<1>3. [i \in 0..0 |-> start] = PlacementsOf(q, reg, shut, 0, [i \in 0..0 |-> start])
  BY DEF PlacementsOf
<1>4. k \in Nat \ {0} /\ k - 1 \notin none
  BY <1>2, <1>3
<1>5. PICK f : f = PlacementsOf(q, reg, shut, k - 1, f)
  BY <1>4
<1> DEFINE g == [i \in 0..k |-> IF i = k THEN PlaceZone(f[k - 1], q[k], reg, shut) ELSE f[i]]
<1>6. \A i \in 0..k : g[i] = IF i = 0 THEN start ELSE PlaceZone(g[i - 1], q[i], reg, shut)
  <2>1. \A i \in 0..k - 1 : f[i] = IF i = 0 THEN start ELSE PlaceZone(f[i - 1], q[i], reg, shut)
    BY <1>4, <1>5 DEF PlacementsOf
  <2> HIDE DEF start
  <2>2. \A i \in 0..k : g[i] = IF i = k THEN PlaceZone(f[k - 1], q[k], reg, shut) ELSE f[i]
    OBVIOUS
  <2> HIDE DEF g
  <2>3. \A i \in 0..k : i # k => i \in 0..k - 1
    BY <1>4
  <2>4. \A i \in 1..k : g[i - 1] = f[i - 1]
    BY <1>4, <2>2
  <2> QED
    BY <1>4, <2>1, <2>2, <2>3, <2>4
<1>7. g = [i \in 0..k |-> g[i]]
  OBVIOUS
<1> HIDE DEF g
<1>8. g = PlacementsOf(q, reg, shut, k, g)
  BY <1>6, <1>7 DEF PlacementsOf
<1> QED
  BY <1>2, <1>8

LEMMA PlacementsUnfold ==
  ASSUME NEW q, NEW reg, NEW shut, NEW n \in Nat
  PROVE  LET p == Placements(q, reg, shut, n)
         IN /\ p[0] = [left |-> Room(reg), rows |-> {}]
            /\ \A i \in 1..n : p[i] = PlaceZone(p[i - 1], q[i], reg, shut)
<1>1. \E placed : placed = PlacementsOf(q, reg, shut, n, placed)
  BY PlacementsExist
<1>2. Placements(q, reg, shut, n) = PlacementsOf(q, reg, shut, n, Placements(q, reg, shut, n))
  BY <1>1, Zenon DEF Placements, PlacementsOf
<1> DEFINE p == Placements(q, reg, shut, n)
           start == [left |-> Room(reg), rows |-> {}]
<1>3. p = [i \in 0..n |-> IF i = 0 THEN start ELSE PlaceZone(p[i - 1], q[i], reg, shut)]
  BY <1>2, Zenon DEF PlacementsOf
<1> HIDE DEF p, start
<1>4. p[0] = start
  BY <1>3
<1>5. \A i \in 1..n : p[i] = PlaceZone(p[i - 1], q[i], reg, shut)
  BY <1>3
<1> QED
  BY <1>4, <1>5 DEF p, start

-----------------------------------------------------------------------------
(* District: the plan fits and serves *)

Entry == [zone : Zones, people : Nat]

PlanRow == [zone : Zones, to : Shelters \union {NoShelter}, people : Nat]

\* The people sent to a shelter and the room that is left are all its room.
Accounted(left, rows, reg) ==
  /\ left \in [Shelters -> Nat]
  /\ rows \in SUBSET PlanRow /\ IsFiniteSet(rows) /\ IsFiniteSet(Persons(rows))
  /\ \A s \in Shelters : Heads(To(rows, s)) + left[s] = Room(reg)[s]

Split(rows, z) == {r \in rows : r.zone = z /\ r.to # NoShelter}

\* A zone in the middle of its candidates: the first i of them have been tried.
Placing(a, acc, e, to, reg, i) ==
  /\ Accounted(a.left, a.rows, reg)
  /\ a.rest \in Nat /\ a.used \in Nat
  /\ acc.rows \subseteq a.rows
  /\ \A r \in a.rows \ acc.rows : r.zone = e.zone /\ \E k \in 1..i : r.to = to[k]
  /\ Heads(From(a.rows, e.zone)) + a.rest = e.people
  /\ a.used = Cardinality(Split(a.rows, e.zone))
  /\ \A k \in 1..i : a.rest = 0 \/ a.used = MaxSplit \/ a.left[to[k]] = 0
  /\ \A s \in Shelters : a.left[s] <= acc.left[s]

\* The candidates of a zone: each once, and none left out that has room.
Offered(to, left) ==
  /\ to \in Seq(Shelters)
  /\ \A i, j \in 1..Len(to) : i # j => to[i] # to[j]
  /\ \A s \in Shelters : (\A i \in 1..Len(to) : to[i] # s) => left[s] = 0

LEMMA CheaperLines ==
  ASSUME NEW e \in Entry, NEW reg, NEW shut, NEW left \in [Shelters -> Nat]
  PROVE  Lines(Cheaper(e, reg, shut, left), Shelters)
<1> DEFINE cost == [s \in Shelters |-> Cost(e, s, reg, shut, left)]
<1>1. ASSUME NEW s \in Shelters
      PROVE  Cost(e, s, reg, shut, left) \in Int
  <2>1. Distance[e.zone][s] \in Nat
    <3>1. e.zone \in Zones
      BY DEF Entry
    <3>2. Distance \in [Zones -> [Shelters -> Nat]]
      BY DistrictAssumption
    <3> QED
      BY <3>1, <3>2
  <2>2. PICK n \in Nat \ {0} : n = IF e.people > 1 THEN e.people ELSE 1
    BY DEF Entry
  <2>3. left[s] \div n \in Nat
    <3>1. left[s] \in Nat
      OBVIOUS
    <3> QED
      BY <3>1
  <2>4. Min({left[s] \div n, 2}) \in Nat
    BY <2>3, MinOfTwo
  <2> QED
    BY <2>1, <2>2, <2>4 DEF Cost
<1>2. cost \in [Shelters -> Int]
  BY <1>1
<1>3. \A x, y \in Shelters : <<x, y>> \in Cheaper(e, reg, shut, left) <=>
        cost[x] < cost[y] \/ (cost[x] = cost[y] /\ x < y)
  BY DEF Cheaper
<1> HIDE DEF cost
<1>4. Shelters \in SUBSET Nat
  BY DistrictAssumption
<1> QED
  BY <1>2, <1>3, <1>4 DEF Lines

LEMMA CandidatesOffered ==
  ASSUME NEW e \in Entry, NEW reg, NEW shut, NEW left, NEW rows, Accounted(left, rows, reg)
  PROVE  Offered(Candidates(e, reg, shut, left), left)
<1> DEFINE S == {s \in Shelters : reg[s].operational /\ left[s] > 0}
           R == Cheaper(e, reg, shut, left)
<1>1. left \in [Shelters -> Nat]
  BY DEF Accounted
<1>2. S \in SUBSET Shelters
  OBVIOUS
<1>3. IsFiniteSet(S)
  BY <1>2, DistrictAssumption, FS_Subset, Zenon
<1>4. Lines(R, S)
  BY <1>1, <1>2, CheaperLines DEF Lines
<1>5. ASSUME NEW s \in Shelters \ S
      PROVE  left[s] = 0
  <2>1. CASE reg[s].operational
    BY <1>1, <2>1
  <2>2. CASE ~reg[s].operational
    <3>1. Room(reg)[s] = 0
      BY <2>2 DEF Room
    <3>2. To(rows, s) \in SUBSET rows
      BY DEF To
    <3>3. Heads(To(rows, s)) \in Nat
      BY <3>2, PartOfRows DEF Accounted
    <3>4. Heads(To(rows, s)) + left[s] = 0 /\ left[s] \in Nat
      BY <1>1, <3>1 DEF Accounted
    <3> QED
      BY <3>3, <3>4
  <2> QED
    BY <2>1, <2>2
<1>6. Candidates(e, reg, shut, left) = Arranged(S, R)
  BY DEF Candidates
<1> HIDE DEF S, R
<1>7. /\ Arranged(S, R) \in Seq(S) /\ Len(Arranged(S, R)) = Cardinality(S)
      /\ Cardinality(S) \in Nat
      /\ \A m, n \in 1..Cardinality(S) : m # n => Arranged(S, R)[m] # Arranged(S, R)[n]
      /\ \A x \in S : \E n \in 1..Cardinality(S) : Arranged(S, R)[n] = x
  BY <1>3, <1>4, ArrangedOnce
<1>8. Arranged(S, R) \in Seq(Shelters)
  BY <1>2, <1>7
<1> QED
  BY <1>5, <1>6, <1>7, <1>8 DEF Offered

\* What a further row of the zone does to the accounts.
LEMMA RowOfZone ==
  ASSUME NEW rows \in SUBSET PlanRow, IsFiniteSet(rows), IsFiniteSet(Persons(rows)),
         NEW x \in PlanRow, x \notin rows
  PROVE  /\ rows \union {x} \in SUBSET PlanRow
         /\ IsFiniteSet(rows \union {x}) /\ IsFiniteSet(Persons(rows \union {x}))
         /\ \A s \in Shelters :
              Heads(To(rows \union {x}, s)) = Heads(To(rows, s)) + (IF x.to = s THEN x.people ELSE 0)
         /\ Heads(From(rows \union {x}, x.zone)) = Heads(From(rows, x.zone)) + x.people
         /\ Cardinality(Split(rows \union {x}, x.zone)) =
              Cardinality(Split(rows, x.zone)) + (IF x.to # NoShelter THEN 1 ELSE 0)
<1>1. x.people \in Nat
  BY DEF PlanRow
<1>2. /\ IsFiniteSet(rows \union {x}) /\ IsFiniteSet(Persons(rows \union {x}))
      /\ \A s : Heads(To(rows \union {x}, s)) = Heads(To(rows, s)) + (IF x.to = s THEN x.people ELSE 0)
      /\ \A z : Heads(From(rows \union {x}, z)) = Heads(From(rows, z)) + (IF x.zone = z THEN x.people ELSE 0)
  BY <1>1, RowCounts
<1>3. Cardinality(Split(rows \union {x}, x.zone)) =
        Cardinality(Split(rows, x.zone)) + (IF x.to # NoShelter THEN 1 ELSE 0)
  <2>1. Split(rows, x.zone) \in SUBSET rows /\ x \notin Split(rows, x.zone)
    BY DEF Split
  <2>2. IsFiniteSet(Split(rows, x.zone))
    BY <2>1, FS_Subset, Zenon
  <2>3. Cardinality(Split(rows, x.zone)) \in Nat
    BY <2>2, FS_CardinalityType
  <2>4. Cardinality(Split(rows, x.zone) \union {x}) = Cardinality(Split(rows, x.zone)) + 1
    BY <2>1, <2>2, FS_AddElement
  <2>5. Split(rows \union {x}, x.zone) =
          IF x.to # NoShelter THEN Split(rows, x.zone) \union {x} ELSE Split(rows, x.zone)
    BY DEF Split
  <2> QED
    BY <2>3, <2>4, <2>5
<1> QED
  BY <1>2, <1>3

\* One candidate more: it gets what is left to place or what it has room for.
LEMMA SendKeeps ==
  ASSUME NEW e \in Entry, NEW acc, NEW to, NEW reg,
         acc.left \in [Shelters -> Nat], Offered(to, acc.left),
         \A r \in acc.rows : r.zone # e.zone,
         NEW i \in 1..Len(to), NEW a, Placing(a, acc, e, to, reg, i - 1)
  PROVE  Placing(Send(a, e, to[i]), acc, e, to, reg, i)
<1> DEFINE s == to[i]
           b == Send(a, e, s)
<1>1. Len(to) \in Nat /\ s \in Shelters /\ s # NoShelter /\ i \in Nat
  <2>1. to \in Seq(Shelters)
    BY DEF Offered
  <2>2. Len(to) \in Nat /\ s \in Shelters /\ i \in Nat
    BY <2>1
  <2>3. NoShelter \notin Shelters
    BY DistrictAssumption
  <2> QED
    BY <2>2, <2>3
<1>2. /\ Accounted(a.left, a.rows, reg) /\ a.rest \in Nat /\ a.used \in Nat
      /\ acc.rows \subseteq a.rows
      /\ \A r \in a.rows \ acc.rows : r.zone = e.zone /\ \E k \in 1..i - 1 : r.to = to[k]
      /\ Heads(From(a.rows, e.zone)) + a.rest = e.people
      /\ a.used = Cardinality(Split(a.rows, e.zone))
      /\ \A k \in 1..i - 1 : a.rest = 0 \/ a.used = MaxSplit \/ a.left[to[k]] = 0
      /\ \A t \in Shelters : a.left[t] <= acc.left[t]
  BY DEF Placing
<1>3. /\ a.left \in [Shelters -> Nat] /\ a.rows \in SUBSET PlanRow
      /\ IsFiniteSet(a.rows) /\ IsFiniteSet(Persons(a.rows))
      /\ \A t \in Shelters : Heads(To(a.rows, t)) + a.left[t] = Room(reg)[t]
  BY <1>2 DEF Accounted
<1>4. CASE a.rest = 0 \/ a.used = MaxSplit
  <2>1. b = a
    BY <1>4 DEF Send
  <2>2. \A k \in 1..i - 1 : k \in 1..i
    BY <1>1
  <2>3. \A r \in a.rows \ acc.rows : r.zone = e.zone /\ \E k \in 1..i : r.to = to[k]
    BY <1>2, <2>2
  <2> QED
    BY <1>2, <1>4, <2>1, <2>3 DEF Placing
<1>5. CASE a.rest # 0 /\ a.used # MaxSplit
  <2> DEFINE take == Min({a.rest, a.left[s]})
             x == [zone |-> e.zone, to |-> s, people |-> take]
  <2>1. b = [left |-> [a.left EXCEPT ![s] = @ - take], rest |-> a.rest - take,
             used |-> a.used + 1, rows |-> a.rows \union {x}]
    BY <1>5 DEF Send
  <2>2. take \in Nat /\ take \in {a.rest, a.left[s]} /\ take <= a.rest /\ take <= a.left[s]
    <3>1. a.left[s] \in Nat
      BY <1>1, <1>3
    <3> QED
      BY <1>2, <3>1, MinOfTwo
  <2> HIDE DEF take, b
  <2>3. x \in PlanRow /\ x.zone = e.zone /\ x.to = s /\ x.people = take
    BY <1>1, <2>2 DEF PlanRow, Entry
  <2>4. x \notin a.rows
    <3>1. SUFFICES ASSUME x \in a.rows
                   PROVE  FALSE
      OBVIOUS
    <3>2. x \notin acc.rows
      BY <2>3
    <3>3. PICK k \in 1..i - 1 : x.to = to[k]
      BY <1>2, <3>1, <3>2
    <3>4. k \in 1..Len(to) /\ k # i
      BY <1>1
    <3> QED
      BY <2>3, <3>3, <3>4 DEF Offered
  <2> HIDE DEF x, s
  <2>5. /\ a.rows \union {x} \in SUBSET PlanRow
        /\ IsFiniteSet(a.rows \union {x}) /\ IsFiniteSet(Persons(a.rows \union {x}))
        /\ \A t \in Shelters : Heads(To(a.rows \union {x}, t)) =
                                 Heads(To(a.rows, t)) + (IF x.to = t THEN x.people ELSE 0)
        /\ Heads(From(a.rows \union {x}, x.zone)) = Heads(From(a.rows, x.zone)) + x.people
        /\ Cardinality(Split(a.rows \union {x}, x.zone)) =
             Cardinality(Split(a.rows, x.zone)) + (IF x.to # NoShelter THEN 1 ELSE 0)
    BY <1>3, <2>3, <2>4, RowOfZone
  <2>6. /\ b.left = [a.left EXCEPT ![s] = @ - take] /\ b.rest = a.rest - take
        /\ b.used = a.used + 1 /\ b.rows = a.rows \union {x}
    BY <2>1
  <2>7. /\ b.left \in [Shelters -> Nat]
        /\ \A t \in Shelters : b.left[t] = IF t = s THEN a.left[t] - take ELSE a.left[t]
    BY <1>1, <1>3, <2>2, <2>6
  <2>8. \A t \in Shelters : Heads(To(b.rows, t)) + b.left[t] = Room(reg)[t]
    <3>1. SUFFICES ASSUME NEW t \in Shelters
                   PROVE  Heads(To(b.rows, t)) + b.left[t] = Room(reg)[t]
      OBVIOUS
    <3>2. Heads(To(b.rows, t)) = Heads(To(a.rows, t)) + (IF s = t THEN take ELSE 0)
      BY <2>3, <2>5, <2>6
    <3>3. Heads(To(a.rows, t)) \in Nat
      <4>1. To(a.rows, t) \in SUBSET a.rows
        BY DEF To
      <4> QED
        BY <1>3, <4>1, PartOfRows
    <3>4. a.left[t] \in Nat /\ Heads(To(a.rows, t)) + a.left[t] = Room(reg)[t]
      BY <1>3
    <3> QED
      BY <2>2, <2>7, <3>2, <3>3, <3>4
  <2>9. Accounted(b.left, b.rows, reg)
    BY <2>5, <2>6, <2>7, <2>8 DEF Accounted
  <2>10. b.rest \in Nat /\ b.used \in Nat /\ acc.rows \subseteq b.rows
    BY <1>2, <2>2, <2>6
  <2>11. \A r \in b.rows \ acc.rows : r.zone = e.zone /\ \E k \in 1..i : r.to = to[k]
    <3>1. \A k \in 1..i - 1 : k \in 1..i
      BY <1>1
    <3>2. i \in 1..i /\ x.zone = e.zone /\ x.to = to[i]
      BY <1>1, <2>3 DEF s
    <3> QED
      BY <1>2, <2>6, <3>1, <3>2
  <2>12. Heads(From(b.rows, e.zone)) + b.rest = e.people
    <3>1. Heads(From(a.rows, e.zone)) \in Nat
      <4>1. From(a.rows, e.zone) \in SUBSET a.rows
        BY DEF From
      <4> QED
        BY <1>3, <4>1, PartOfRows
    <3>2. Heads(From(b.rows, e.zone)) = Heads(From(a.rows, e.zone)) + take
      BY <2>3, <2>5, <2>6
    <3> QED
      BY <1>2, <2>2, <2>6, <3>1, <3>2
  <2>13. b.used = Cardinality(Split(b.rows, e.zone))
    BY <1>1, <1>2, <2>3, <2>5, <2>6 DEF s
  <2>14. ASSUME NEW k \in 1..i
         PROVE  b.rest = 0 \/ b.left[to[k]] = 0
    <3>1. CASE k = i
      <4>1. b.left[s] = a.left[s] - take /\ a.left[s] \in Nat
        BY <1>1, <1>3, <2>7
      <4> QED
        BY <1>2, <2>2, <2>6, <3>1, <4>1 DEF s
    <3>2. CASE k # i
      <4>1. k \in 1..i - 1 /\ k \in 1..Len(to)
        BY <1>1, <3>2
      <4>2. to[k] \in Shelters /\ a.left[to[k]] = 0
        BY <1>2, <1>5, <4>1 DEF Offered
      <4>3. to[k] # s
        BY <3>2, <4>1 DEF Offered, s
      <4> QED
        BY <2>7, <4>2, <4>3
    <3> QED
      BY <3>1, <3>2
  <2>15. \A t \in Shelters : b.left[t] <= acc.left[t]
    <3>1. SUFFICES ASSUME NEW t \in Shelters
                   PROVE  b.left[t] <= acc.left[t]
      OBVIOUS
    <3>2. b.left[t] <= a.left[t] /\ b.left[t] \in Nat /\ a.left[t] \in Nat
      BY <1>3, <2>2, <2>7
    <3>3. a.left[t] <= acc.left[t] /\ acc.left[t] \in Nat
      BY <1>2
    <3> QED
      BY <3>2, <3>3
  <2> QED
    BY <2>9, <2>10, <2>11, <2>12, <2>13, <2>14, <2>15 DEF Placing, b, s
<1> QED
  BY <1>4, <1>5

\* All candidates: what holds before the first and is kept by each holds after any.
LEMMA SendsKeep ==
  ASSUME NEW e \in Entry, NEW acc, NEW to, NEW reg, Offered(to, acc.left),
         \A r \in acc.rows : r.zone # e.zone, Accounted(acc.left, acc.rows, reg)
  PROVE  Placing(Sends(acc, e, to)[Len(to)], acc, e, to, reg, Len(to))
<1> DEFINE sent == Sends(acc, e, to)
           bad == {i \in 0..Len(to) : ~Placing(sent[i], acc, e, to, reg, i)}
<1>1. Len(to) \in Nat /\ acc.left \in [Shelters -> Nat]
  BY DEF Offered, Accounted
<1>2. /\ sent[0] = [left |-> acc.left, rest |-> e.people, used |-> 0, rows |-> acc.rows]
      /\ \A i \in 1..Len(to) : sent[i] = Send(sent[i - 1], e, to[i])
  BY <1>1, SendsUnfold
<1> HIDE DEF sent
<1>3. Placing(sent[0], acc, e, to, reg, 0)
  <2>1. From(acc.rows, e.zone) = {} /\ Split(acc.rows, e.zone) = {}
    BY DEF From, Split
  <2>2. Heads({}) = 0 /\ Cardinality({}) = 0
    BY NobodyInNoRows, FS_EmptySet
  <2>3. e.people \in Nat
    BY DEF Entry
  <2>4. /\ sent[0].left = acc.left /\ sent[0].rows = acc.rows /\ sent[0].rest = e.people
        /\ sent[0].used = 0
    BY <1>2
  <2>5. \A t \in Shelters : acc.left[t] <= acc.left[t]
    BY <1>1
  <2> QED
    BY <2>1, <2>2, <2>3, <2>4, <2>5 DEF Placing
<1>4. ASSUME NEW i \in 1..Len(to), Placing(sent[i - 1], acc, e, to, reg, i - 1)
      PROVE  Placing(sent[i], acc, e, to, reg, i)
  BY <1>1, <1>2, <1>4, SendKeeps
<1>5. bad = {}
  <2>1. SUFFICES ASSUME bad # {}
                 PROVE  FALSE
    OBVIOUS
  <2>2. bad \in SUBSET Nat
    BY <1>1
  <2>3. PICK i \in bad : \A j \in bad : i <= j
    BY <2>1, <2>2, LeastNumber
  <2>4. i \in 1..Len(to) /\ i - 1 \in 0..Len(to) /\ i - 1 \notin bad
    BY <1>1, <1>3, <2>3
  <2> QED
    BY <1>4, <2>3, <2>4
<1> QED
  BY <1>1, <1>5 DEF sent

\* The zones first in the queue, each once.
QueueOf(q, h) ==
  /\ q \in Seq(Entry)
  /\ \A i \in 1..Len(q) : q[i].people = People[h][q[i].zone]
  /\ \A i, j \in 1..Len(q) : i # j => q[i].zone # q[j].zone

\* A plan for the first n zones of a queue.
Placed(p, q, reg, n) ==
  /\ Accounted(p.left, p.rows, reg)
  /\ \A r \in p.rows : \E i \in 1..n : r.zone = q[i].zone
  /\ \A i \in 1..n : Heads(From(p.rows, q[i].zone)) = q[i].people
  /\ \A i \in 1..n : (\E r \in p.rows : r.zone = q[i].zone /\ r.to = NoShelter) =>
       \/ Cardinality(Split(p.rows, q[i].zone)) = MaxSplit
       \/ \A s \in Shelters : p.left[s] = 0

\* One zone more.  The rows of the others stay, and room only shrinks.
LEMMA PlaceZoneKeeps ==
  ASSUME NEW h, NEW q, QueueOf(q, h), NEW reg, NEW shut, NEW n \in 1..Len(q),
         NEW p, Placed(p, q, reg, n - 1)
  PROVE  Placed(PlaceZone(p, q[n], reg, shut), q, reg, n)
<1> DEFINE e == q[n]
           to == Candidates(e, reg, shut, p.left)
           a == Sends(p, e, to)[Len(to)]
           b == PlaceZone(p, e, reg, shut)
           x == [zone |-> e.zone, to |-> NoShelter, people |-> a.rest]
<1>1. e \in Entry /\ Len(q) \in Nat /\ n \in Nat
  BY DEF QueueOf
<1>2. Accounted(p.left, p.rows, reg)
  BY DEF Placed
<1>3. \A i \in 1..n - 1 : i \in 1..Len(q) /\ i # n /\ q[i].zone # e.zone
  BY <1>1 DEF QueueOf
<1>4. \A r \in p.rows : r.zone # e.zone
  BY <1>3 DEF Placed
<1> HIDE DEF e
<1>5. Offered(to, p.left)
  BY <1>1, <1>2, CandidatesOffered
<1> HIDE DEF to
<1>6. Placing(a, p, e, to, reg, Len(to))
  BY <1>1, <1>2, <1>4, <1>5, SendsKeep
<1>7. b = [left |-> a.left, rows |-> IF a.rest = 0 THEN a.rows ELSE a.rows \union {x}]
  BY DEF PlaceZone, to
<1> HIDE DEF a, b, x
<1>8. /\ a.left \in [Shelters -> Nat] /\ a.rows \in SUBSET PlanRow
      /\ IsFiniteSet(a.rows) /\ IsFiniteSet(Persons(a.rows))
      /\ \A t \in Shelters : Heads(To(a.rows, t)) + a.left[t] = Room(reg)[t]
      /\ a.rest \in Nat /\ p.rows \subseteq a.rows
      /\ \A r \in a.rows \ p.rows : r.zone = e.zone /\ \E k \in 1..Len(to) : r.to = to[k]
      /\ Heads(From(a.rows, e.zone)) + a.rest = e.people
      /\ a.used = Cardinality(Split(a.rows, e.zone))
      /\ \A k \in 1..Len(to) : a.rest = 0 \/ a.used = MaxSplit \/ a.left[to[k]] = 0
      /\ \A t \in Shelters : a.left[t] <= p.left[t]
  BY <1>6 DEF Placing, Accounted
<1>9. Heads(From(a.rows, e.zone)) \in Nat
  <2>1. From(a.rows, e.zone) \in SUBSET a.rows
    BY DEF From
  <2> QED
    BY <1>8, <2>1, PartOfRows
<1>10. /\ x = [zone |-> e.zone, to |-> NoShelter, people |-> a.rest] /\ x \in PlanRow
       /\ x.zone = e.zone /\ x.to = NoShelter /\ x.people = a.rest
  BY <1>1, <1>8 DEF x, PlanRow, Entry
<1>11. x \notin a.rows
  <2>1. x \notin p.rows
    BY <1>4, <1>10
  <2>2. \A k \in 1..Len(to) : to[k] \in Shelters
    BY <1>5 DEF Offered
  <2>3. NoShelter \notin Shelters
    BY DistrictAssumption
  <2> QED
    BY <1>8, <1>10, <2>1, <2>2, <2>3
<1>12. /\ a.rows \union {x} \in SUBSET PlanRow
       /\ IsFiniteSet(a.rows \union {x}) /\ IsFiniteSet(Persons(a.rows \union {x}))
       /\ \A t \in Shelters : Heads(To(a.rows \union {x}, t)) =
                                Heads(To(a.rows, t)) + (IF x.to = t THEN x.people ELSE 0)
       /\ Heads(From(a.rows \union {x}, x.zone)) = Heads(From(a.rows, x.zone)) + x.people
       /\ Cardinality(Split(a.rows \union {x}, x.zone)) =
            Cardinality(Split(a.rows, x.zone)) + (IF x.to # NoShelter THEN 1 ELSE 0)
  BY <1>8, <1>10, <1>11, RowOfZone
<1>13. b.left = a.left /\ b.rows = IF a.rest = 0 THEN a.rows ELSE a.rows \union {x}
  BY <1>7
<1>14. Accounted(b.left, b.rows, reg)
  <2>1. NoShelter \notin Shelters
    BY DistrictAssumption
  <2>2. \A t \in Shelters : To(a.rows, t) \in SUBSET a.rows
    BY DEF To
  <2>3. \A t \in Shelters : Heads(To(a.rows, t)) \in Nat
    BY <1>8, <2>2, PartOfRows
  <2>4. ASSUME NEW t \in Shelters
        PROVE  Heads(To(a.rows \union {x}, t)) = Heads(To(a.rows, t))
    <3>1. x.to # t
      BY <1>10, <2>1
    <3>2. Heads(To(a.rows \union {x}, t)) = Heads(To(a.rows, t)) + 0
      BY <1>12, <3>1
    <3> QED
      BY <2>3, <3>2
  <2> QED
    BY <1>8, <1>12, <1>13, <2>4 DEF Accounted
<1>15. p.rows \subseteq b.rows /\ \A r \in b.rows \ p.rows : r.zone = e.zone
  BY <1>8, <1>10, <1>13
<1>16. Heads(From(b.rows, e.zone)) = e.people
  <2>1. CASE a.rest = 0
    BY <1>8, <1>9, <1>13, <2>1
  <2>2. CASE a.rest # 0
    <3>1. Heads(From(a.rows \union {x}, e.zone)) = Heads(From(a.rows, e.zone)) + a.rest
      BY <1>10, <1>12
    <3> QED
      BY <1>8, <1>13, <2>2, <3>1
  <2> QED
    BY <2>1, <2>2
<1>17. (\E r \in b.rows : r.zone = e.zone /\ r.to = NoShelter) =>
         \/ Cardinality(Split(b.rows, e.zone)) = MaxSplit
         \/ \A s \in Shelters : b.left[s] = 0
  <2>1. SUFFICES ASSUME \E r \in b.rows : r.zone = e.zone /\ r.to = NoShelter,
                        a.used # MaxSplit
                 PROVE  \A s \in Shelters : b.left[s] = 0
    <3>1. Split(b.rows, e.zone) = Split(a.rows, e.zone)
      BY <1>10, <1>13 DEF Split
    <3> QED
      BY <1>8, <3>1
  <2>2. a.rest # 0
    <3>1. SUFFICES ASSUME a.rest = 0
                   PROVE  FALSE
      OBVIOUS
    <3>2. PICK r \in a.rows : r.zone = e.zone /\ r.to = NoShelter
      BY <1>13, <2>1, <3>1
    <3>3. PICK k \in 1..Len(to) : r.to = to[k]
      BY <1>4, <1>8, <3>2
    <3>4. to[k] \in Shelters
      BY <1>5 DEF Offered
    <3>5. NoShelter \notin Shelters
      BY DistrictAssumption
    <3> QED
      BY <3>2, <3>3, <3>4, <3>5
  <2>3. ASSUME NEW s \in Shelters
        PROVE  a.left[s] = 0
    <3>1. CASE \E k \in 1..Len(to) : to[k] = s
      BY <1>8, <2>1, <2>2, <3>1
    <3>2. CASE \A k \in 1..Len(to) : to[k] # s
      <4>1. p.left[s] = 0
        BY <1>5, <3>2 DEF Offered
      <4>2. a.left[s] \in Nat /\ a.left[s] <= p.left[s]
        BY <1>8
      <4> QED
        BY <4>1, <4>2
    <3> QED
      BY <3>1, <3>2
  <2> QED
    BY <1>13, <2>3
<1>18. ASSUME NEW i \in 1..n - 1
       PROVE  /\ Heads(From(b.rows, q[i].zone)) = q[i].people
              /\ (\E r \in b.rows : r.zone = q[i].zone /\ r.to = NoShelter) =>
                   \/ Cardinality(Split(b.rows, q[i].zone)) = MaxSplit
                   \/ \A s \in Shelters : b.left[s] = 0
  <2>1. q[i].zone # e.zone
    BY <1>3
  <2>2. /\ From(b.rows, q[i].zone) = From(p.rows, q[i].zone)
        /\ Split(b.rows, q[i].zone) = Split(p.rows, q[i].zone)
        /\ \A r \in b.rows : r.zone = q[i].zone => r \in p.rows
    BY <1>15, <2>1 DEF From, Split
  <2>3. ASSUME NEW s \in Shelters, p.left[s] = 0
        PROVE  b.left[s] = 0
    <3>1. a.left[s] \in Nat /\ a.left[s] <= p.left[s]
      BY <1>8
    <3> QED
      BY <1>13, <2>3, <3>1
  <2>4. /\ Heads(From(p.rows, q[i].zone)) = q[i].people
        /\ (\E r \in p.rows : r.zone = q[i].zone /\ r.to = NoShelter) =>
             \/ Cardinality(Split(p.rows, q[i].zone)) = MaxSplit
             \/ \A s \in Shelters : p.left[s] = 0
    BY DEF Placed
  <2> QED
    BY <2>2, <2>3, <2>4
<1>19. \A r \in b.rows : \E i \in 1..n : r.zone = q[i].zone
  <2>1. \A i \in 1..n - 1 : i \in 1..n
    BY <1>1
  <2>2. n \in 1..n
    BY <1>1
  <2> QED
    BY <1>15, <2>1, <2>2 DEF Placed, e
<1>20. \A i \in 1..n : i = n \/ i \in 1..n - 1
  BY <1>1
<1>21. Placed(b, q, reg, n)
  BY <1>14, <1>16, <1>17, <1>18, <1>19, <1>20 DEF Placed, e
<1> QED
  BY <1>21 DEF b, e

\* The whole plan.
LEMMA PlanIsPlaced ==
  ASSUME NEW h, NEW q, QueueOf(q, h), NEW reg, Room(reg) \in [Shelters -> Nat], NEW shut
  PROVE  /\ Served(q) \in 0..Len(q)
         /\ \E left : Placed([left |-> left, rows |-> PlanFor(q, reg, shut)], q, reg, Served(q))
<1> DEFINE N == Served(q)
           p == Placements(q, reg, shut, N)
           bad == {n \in 0..N : ~Placed(p[n], q, reg, n)}
<1>1. Len(q) \in Nat /\ N \in Nat /\ N <= Len(q)
  <2>1. MaxPlanned \in Nat
    BY DistrictAssumption
  <2> QED
    BY <2>1 DEF QueueOf, Served
<1> HIDE DEF N
<1>2. p[0] = [left |-> Room(reg), rows |-> {}]
      /\ \A n \in 1..N : p[n] = PlaceZone(p[n - 1], q[n], reg, shut)
  BY <1>1, PlacementsUnfold
<1> HIDE DEF p
<1>3. Placed(p[0], q, reg, 0)
  <2>1. \A s \in Shelters : To({}, s) = {}
    BY DEF To
  <2>2. IsFiniteSet({}) /\ IsFiniteSet(Persons({})) /\ Heads({}) = 0
    BY FS_EmptySet, NobodyInNoRows
  <2>3. p[0].left = Room(reg) /\ p[0].rows = {}
    BY <1>2
  <2>4. \A s \in Shelters : 0 + Room(reg)[s] = Room(reg)[s]
    OBVIOUS
  <2>5. Accounted(p[0].left, p[0].rows, reg)
    BY <2>1, <2>2, <2>3, <2>4 DEF Accounted
  <2> QED
    BY <2>3, <2>5 DEF Placed
<1>4. ASSUME NEW n \in 1..N, Placed(p[n - 1], q, reg, n - 1)
      PROVE  Placed(p[n], q, reg, n)
  <2>1. n \in 1..Len(q)
    BY <1>1
  <2> QED
    BY <1>2, <1>4, <2>1, PlaceZoneKeeps
<1>5. bad = {}
  <2>1. SUFFICES ASSUME bad # {}
                 PROVE  FALSE
    OBVIOUS
  <2>2. bad \in SUBSET Nat
    BY <1>1
  <2>3. PICK n \in bad : \A j \in bad : n <= j
    BY <2>1, <2>2, LeastNumber
  <2>4. n \in 1..N /\ n - 1 \in 0..N /\ n - 1 \notin bad
    BY <1>1, <1>3, <2>3
  <2> QED
    BY <1>4, <2>3, <2>4
<1>6. Placed(p[N], q, reg, N)
  BY <1>1, <1>5
<1>7. PlanFor(q, reg, shut) = p[N].rows
  BY DEF PlanFor, N, p
<1>8. Placed([left |-> p[N].left, rows |-> PlanFor(q, reg, shut)], q, reg, N)
  BY <1>6, <1>7 DEF Placed
<1>9. \E left : Placed([left |-> left, rows |-> PlanFor(q, reg, shut)], q, reg, N)
  BY <1>8, Zenon
<1>10. N \in 0..Len(q)
  BY <1>1
<1> QED
  BY <1>9, <1>10, Zenon DEF N

LEMMA QueueForIsQueue ==
  ASSUME NEW h \in Hazards, NEW cells \in [Hazards -> [Zones -> NoData..High]]
  PROVE  QueueOf(QueueFor(h, cells), h)
<1> DEFINE S == {z \in Zones : cells[h][z] >= Mid}
           R == Before(h, cells)
           zones == Arranged(S, R)
           score == [z \in Zones |-> ZoneScore(h, cells, z)]
<1>1. Zones \in SUBSET Nat /\ IsFiniteSet(Zones)
      /\ People \in [Hazards -> [Zones -> Nat]] /\ Merit \in [Hazards -> [Zones -> Nat]]
  BY DistrictAssumption
<1>2. S \in SUBSET Zones
  OBVIOUS
<1>3. IsFiniteSet(S)
  BY <1>1, <1>2, FS_Subset, Zenon
<1>4. score \in [Zones -> Int]
  <2>1. \A z \in Zones : cells[h][z] \in Int /\ Merit[h][z] \in Int
    BY <1>1 DEF NoData, High
  <2> QED
    BY <2>1 DEF ZoneScore
<1>5. \A x, y \in Zones : <<x, y>> \in R <=> score[x] > score[y] \/ (score[x] = score[y] /\ x < y)
  BY DEF Before
<1> HIDE DEF score, S, R
<1>6. Lines(R, S)
  <2>1. \A x \in Zones : x \in Nat /\ score[x] \in Int
    BY <1>1, <1>4
  <2>2. \A x \in Zones : <<x, x>> \notin R
    BY <1>5, <2>1
  <2>3. \A x, y, z \in Zones : <<x, y>> \in R /\ <<y, z>> \in R => <<x, z>> \in R
    BY <1>5, <2>1
  <2>4. ASSUME NEW x \in Zones, NEW y \in Zones, x # y
        PROVE  <<x, y>> \in R \/ <<y, x>> \in R
    <3>1. score[x] > score[y] \/ score[y] > score[x] \/ (score[x] = score[y] /\ (x < y \/ y < x))
      BY <2>1, <2>4
    <3> QED
      BY <1>5, <3>1
  <2> QED
    BY <1>2, <2>2, <2>3, <2>4 DEF Lines
<1>7. /\ zones \in Seq(S) /\ Len(zones) = Cardinality(S) /\ Cardinality(S) \in Nat
      /\ \A m, n \in 1..Cardinality(S) : m # n => zones[m] # zones[n]
  BY <1>3, <1>6, ArrangedOnce
<1>8. QueueFor(h, cells) = [i \in DOMAIN zones |-> [zone |-> zones[i], people |-> People[h][zones[i]]]]
  BY DEF QueueFor, S, R
<1> HIDE DEF zones
<1>9. DOMAIN zones = 1..Cardinality(S) /\ \A i \in 1..Cardinality(S) : zones[i] \in Zones
  BY <1>2, <1>7
<1> DEFINE q == QueueFor(h, cells)
<1>10. \A i \in 1..Cardinality(S) : /\ q[i].zone = zones[i] /\ q[i].people = People[h][zones[i]]
                                    /\ q[i] \in Entry
  <2>1. \A i \in 1..Cardinality(S) : q[i] = [zone |-> zones[i], people |-> People[h][zones[i]]]
    BY <1>8, <1>9
  <2>2. \A i \in 1..Cardinality(S) : zones[i] \in Zones /\ People[h][zones[i]] \in Nat
    BY <1>1, <1>9
  <2>3. ASSUME NEW i \in 1..Cardinality(S)
        PROVE  q[i].zone = zones[i] /\ q[i].people = People[h][zones[i]] /\ q[i] \in Entry
    <3> HIDE DEF q
    <3>1. q[i] = [zone |-> zones[i], people |-> People[h][zones[i]]]
      BY <2>1
    <3> QED
      BY <2>2, <3>1 DEF Entry
  <2> QED
    BY <2>3
<1>11. q = [i \in 1..Cardinality(S) |-> q[i]]
  BY <1>8, <1>9
<1> HIDE DEF q
<1>12. q \in Seq(Entry) /\ Len(q) = Cardinality(S)
  BY <1>7, <1>10, <1>11
<1>13. QueueOf(q, h)
  BY <1>7, <1>10, <1>12 DEF QueueOf
<1> QED
  BY <1>13 DEF q

-----------------------------------------------------------------------------
(* District: every step leaves the plan of what it leaves *)

ShelterRow ==
  [zone : Zones, size : Nat, occ : Nat, days : 0..2, staff : Nat,
   state : {"open", "standby", "compromised", "full"}, operational : BOOLEAN, eff : Nat]

DistrictTrue ==
  /\ hazard \in Hazards
  /\ risk \in [Hazards -> [Zones -> NoData..High]]
  /\ shelter \in [Shelters -> ShelterRow]
  /\ QueueOf(queue, hazard)
  /\ plan = PlanFor(queue, shelter, blocked)

\* What a shelter can take is a number whatever its figures say.
LEMMA UsableIsNumber ==
  ASSUME NEW s, s.size \in Nat, s.occ \in Nat, s.days \in 0..2, s.staff \in Nat
  PROVE  Usable(s) \in Nat
<1>1. Space(s) \in Nat
  BY DEF Space
<1>2. Supplied(s) \in Nat
  <2>1. CASE s.days = 2
    BY <1>1, <2>1 DEF Supplied
  <2>2. CASE s.days = 1
    <3>1. Space(s) * 1 = Space(s)
      BY <1>1
    <3>2. Supplied(s) = Space(s) \div 2
      BY <2>2, <3>1 DEF Supplied
    <3> QED
      BY <1>1, <3>2
  <2>3. CASE s.days = 0
    <3>1. Space(s) * 0 = 0
      BY <1>1
    <3>2. Supplied(s) = 0 \div 2
      BY <2>3, <3>1 DEF Supplied
    <3> QED
      BY <3>2
  <2> QED
    BY <2>1, <2>2, <2>3
<1>3. Staffed(s) \in Nat
  <2>1. PerStaff \in Nat
    BY DistrictAssumption
  <2>2. s.staff * PerStaff \in Nat
    BY <2>1
  <2> QED
    BY <2>2 DEF Staffed
<1>4. Min({Space(s), Supplied(s), Staffed(s)}) \in {Space(s), Supplied(s), Staffed(s)}
  <2>1. {Space(s), Supplied(s), Staffed(s)} \in SUBSET Nat
    BY <1>1, <1>2, <1>3
  <2> QED
    BY <2>1, MinIsLeast
<1> QED
  BY <1>1, <1>2, <1>3, <1>4 DEF Usable

LEMMA RecomputedIsRow ==
  ASSUME NEW r \in ShelterRow
  PROVE  Recomputed(r) \in ShelterRow
<1>1. Usable(r) \in Nat
  BY UsableIsNumber DEF ShelterRow
<1>2. PICK n \in Nat : n = IF r.operational THEN Usable(r) ELSE 0
  BY <1>1
<1>3. Recomputed(r) = [r EXCEPT !.eff = n]
  BY <1>2 DEF Recomputed
<1> QED
  BY <1>3 DEF ShelterRow

LEMMA OpenedIsRow ==
  ASSUME NEW st \in States, NEW s \in Shelters, NEW cells
  PROVE  Opened(BuildStateShelters(st)[s], cells) \in ShelterRow
<1> DEFINE row == BuildStateShelters(st)[s]
           fit == row.state # "compromised" /\ cells[hazard][row.zone] # High
<1>1. Register[st][s] \in [zone : Zones, size : Nat, occ : Nat, days : 0..2, staff : Nat,
                           state : {"open", "standby", "compromised"}]
  BY DistrictAssumption
<1>2. row \in [zone : Zones, size : Nat, occ : Nat, days : 0..2, staff : Nat,
               state : {"open", "standby", "compromised", "full"}]
  <2>1. row = [Register[st][s] EXCEPT !.state =
                 IF Register[st][s].occ * 10 >= Register[st][s].size * 9 THEN "full" ELSE @]
    BY DEF BuildStateShelters
  <2> HIDE DEF row
  <2>2. PICK w \in {"open", "standby", "compromised", "full"} : row = [Register[st][s] EXCEPT !.state = w]
    BY <1>1, <2>1
  <2> QED
    BY <1>1, <2>2
<1> HIDE DEF row
<1>3. Usable(row) \in Nat
  BY <1>2, UsableIsNumber
<1>4. PICK n \in Nat : n = IF ~fit THEN 0 ELSE IF row.state = "standby" THEN Usable(row) \div 2
                           ELSE Usable(row)
  BY <1>3
<1>5. Opened(row, cells) =
        [zone |-> row.zone, size |-> row.size, occ |-> row.occ, days |-> row.days,
         staff |-> row.staff, state |-> row.state, operational |-> fit, eff |-> n]
  BY <1>4 DEF Opened
<1>6. fit \in BOOLEAN
  OBVIOUS
<1> HIDE DEF fit
<1>7. Opened(row, cells) \in ShelterRow
  BY <1>2, <1>5, <1>6 DEF ShelterRow
<1> QED
  BY <1>7 DEF row

LEMMA CellsOfState ==
  ASSUME NEW st, NEW cells \in BuildStateCells(st)
  PROVE  cells \in [Hazards -> [Zones -> NoData..High]]
<1>1. \A v : Band(v) \in NoData..High
  BY DEF Band, NoData, Low, Mid, High
<1>2. NoData \in NoData..High
  BY DEF NoData, High
<1>3. /\ cells = [h \in Hazards |-> cells[h]]
      /\ \A h \in Hazards : /\ cells[h] = [z \in Zones |-> cells[h][z]]
                            /\ \A z \in Zones : cells[h][z] \in NoData..High
  <2>1. PICK clock : cells = CellsIn(st, clock)
    BY DEF BuildStateCells
  <2> QED
    BY <1>1, <1>2, <2>1 DEF CellsIn
<1>4. \A h \in Hazards : cells[h] \in [Zones -> NoData..High]
  BY <1>3
<1> QED
  BY <1>3, <1>4

LEMMA RoomIsNumber ==
  ASSUME NEW reg \in [Shelters -> ShelterRow]
  PROVE  Room(reg) \in [Shelters -> Nat]
BY DEF Room, ShelterRow

\* The plan of a queue and shelters that are well formed is what the two properties ask.
LEMMA TruePlan == DistrictTrue => PlanFits /\ PlanServesQueue
<1> SUFFICES ASSUME DistrictTrue
             PROVE  PlanFits /\ PlanServesQueue
  OBVIOUS
<1> DEFINE N == Served(queue)
<1>1. QueueOf(queue, hazard) /\ plan = PlanFor(queue, shelter, blocked)
      /\ Room(shelter) \in [Shelters -> Nat]
  BY RoomIsNumber DEF DistrictTrue
<1>2. N \in 0..Len(queue)
  BY <1>1, PlanIsPlaced
<1>3. PICK left : Placed([left |-> left, rows |-> plan], queue, shelter, N)
  BY <1>1, PlanIsPlaced
<1>4. /\ left \in [Shelters -> Nat]
      /\ plan \in SUBSET PlanRow /\ IsFiniteSet(Persons(plan))
      /\ \A s \in Shelters : Heads(To(plan, s)) + left[s] = Room(shelter)[s]
      /\ \A r \in plan : \E i \in 1..N : r.zone = queue[i].zone
      /\ \A i \in 1..N : Heads(From(plan, queue[i].zone)) = queue[i].people
      /\ \A i \in 1..N : (\E r \in plan : r.zone = queue[i].zone /\ r.to = NoShelter) =>
           \/ Cardinality(Split(plan, queue[i].zone)) = MaxSplit
           \/ \A s \in Shelters : left[s] = 0
  BY <1>3 DEF Placed, Accounted
<1>5. \A s \in Shelters : SentTo(s) = Heads(To(plan, s)) /\ SentTo(s) \in Nat
  <2>1. \A s \in Shelters : To(plan, s) \in SUBSET plan
    BY DEF To
  <2>2. \A s \in Shelters : Heads(To(plan, s)) \in Nat
    BY <1>4, <2>1, PartOfRows
  <2> QED
    BY <2>2 DEF SentTo, Heads, To
<1>6. \A z : SentFrom(z) = Heads(From(plan, z))
  BY DEF SentFrom, Heads, From
<1>7. PlanFits
  BY <1>4, <1>5 DEF PlanFits
<1>8. \A s \in Shelters : left[s] = 0 => SentTo(s) = Room(shelter)[s]
  BY <1>4, <1>5
<1>9. \A s \in Shelters : shelter[s].operational => Room(shelter)[s] = shelter[s].eff
  BY DEF Room
<1>10. \A i \in 1..N : i \in 1..Len(queue) /\ queue[i].people = People[hazard][queue[i].zone]
  BY <1>1, <1>2 DEF QueueOf
<1>11. PlanServesQueue
  BY <1>4, <1>6, <1>8, <1>9, <1>10 DEF PlanServesQueue, Split
<1> QED
  BY <1>7, <1>11

\* The plan is made again by every step that touches what it rests on; the one that
\* does not re-order (an operator's save) leaves the layer, and the one that does
\* neither (a partial tick) leaves the shelters too.
LEMMA Replanned ==
  ASSUME hazard' \in Hazards, risk' \in [Hazards -> [Zones -> NoData..High]],
         shelter' \in [Shelters -> ShelterRow], Reorder
  PROVE  DistrictTrue'
<1>1. QueueOf(QueueFor(hazard', risk'), hazard')
  BY QueueForIsQueue
<1> QED
  BY <1>1 DEF Reorder, Reroute, DistrictTrue

LEMMA LoadedIsTrue ==
  ASSUME NEW st \in States, Load(st), hazard \in Hazards
  PROVE  DistrictTrue'
<1>1. PICK cells \in BuildStateCells(st) :
        /\ risk' = cells
        /\ shelter' = [s \in Shelters |-> Opened(BuildStateShelters(st)[s], cells)]
        /\ hazard' = IF \E z \in Zones : cells[hazard][z] # NoData THEN hazard ELSE Primary[st]
        /\ Reorder
  BY DEF Load
<1>2. hazard' \in Hazards
  BY <1>1, DistrictAssumption
<1>3. risk' \in [Hazards -> [Zones -> NoData..High]]
  BY <1>1, CellsOfState
<1>4. shelter' \in [Shelters -> ShelterRow]
  BY <1>1, OpenedIsRow
<1> QED
  BY <1>1, <1>2, <1>3, <1>4, Replanned

LEMMA DistrictStarts == DistrictInit => DistrictTrue
<1> SUFFICES ASSUME DistrictInit
             PROVE  DistrictTrue
  OBVIOUS
<1>1. Home \in States /\ Primary \in [States -> Hazards]
  BY DistrictAssumption
<1>2. hazard \in Hazards
  BY <1>1 DEF DistrictInit
<1>3. risk \in BuildStateCells(Home)
      /\ shelter = [s \in Shelters |-> Opened(BuildStateShelters(Home)[s], risk)]
      /\ queue = QueueFor(hazard, risk) /\ plan = PlanFor(queue, shelter, blocked)
  BY DEF DistrictInit
<1>4. risk \in [Hazards -> [Zones -> NoData..High]]
  BY <1>3, CellsOfState
<1>5. shelter \in [Shelters -> ShelterRow]
  BY <1>1, <1>3, OpenedIsRow
<1>6. QueueOf(queue, hazard)
  BY <1>2, <1>3, <1>4, QueueForIsQueue
<1> QED
  BY <1>2, <1>3, <1>4, <1>5, <1>6 DEF DistrictTrue

LEMMA RiskSteps ==
  ASSUME DistrictTrue, NEW h \in Hazards
  PROVE  /\ \A z \in Zones : Drift(h, z) => risk' \in [Hazards -> [Zones -> NoData..High]]
         /\ \A z \in Zones : risk[hazard][z] \in Low..Mid =>
              [risk EXCEPT ![hazard][z] = @ + 1] \in [Hazards -> [Zones -> NoData..High]]
         /\ \A level \in [Zones -> Low..High] :
              [risk EXCEPT ![h] = [z \in Zones |-> IF @[z] = NoData THEN NoData ELSE level[z]]]
                \in [Hazards -> [Zones -> NoData..High]]
<1>1. hazard \in Hazards /\ risk \in [Hazards -> [Zones -> NoData..High]]
  BY DEF DistrictTrue
<1>2. ASSUME NEW k \in Hazards, NEW z \in Zones, NEW b \in NoData..High
      PROVE  [risk EXCEPT ![k][z] = b] \in [Hazards -> [Zones -> NoData..High]]
  <2> DEFINE row == [risk[k] EXCEPT ![z] = b]
  <2>1. row \in [Zones -> NoData..High]
    BY <1>1
  <2> HIDE DEF row
  <2>2. [risk EXCEPT ![k] = row] \in [Hazards -> [Zones -> NoData..High]]
    BY <1>1, <2>1
  <2> QED
    BY <2>2 DEF row
<1>3. ASSUME NEW z \in Zones, Drift(h, z)
      PROVE  risk' \in [Hazards -> [Zones -> NoData..High]]
  <2>1. PICK b \in Low..High : risk' = [risk EXCEPT ![h][z] = b]
    BY <1>3 DEF Drift
  <2>2. b \in NoData..High
    BY DEF NoData, Low, High
  <2> QED
    BY <1>2, <2>1, <2>2
<1>4. ASSUME NEW z \in Zones, risk[hazard][z] \in Low..Mid
      PROVE  [risk EXCEPT ![hazard][z] = @ + 1] \in [Hazards -> [Zones -> NoData..High]]
  <2>1. risk[hazard][z] + 1 \in NoData..High
    BY <1>4 DEF NoData, Low, Mid, High
  <2>2. [risk EXCEPT ![hazard][z] = @ + 1] = [risk EXCEPT ![hazard][z] = risk[hazard][z] + 1]
    BY <1>1
  <2> QED
    BY <1>1, <1>2, <2>1, <2>2
<1>5. ASSUME NEW level \in [Zones -> Low..High]
      PROVE  [risk EXCEPT ![h] = [z \in Zones |-> IF @[z] = NoData THEN NoData ELSE level[z]]]
               \in [Hazards -> [Zones -> NoData..High]]
  <2> DEFINE row == [z \in Zones |-> IF risk[h][z] = NoData THEN NoData ELSE level[z]]
  <2>1. Low..High \subseteq NoData..High /\ NoData \in NoData..High
    BY DEF NoData, Low, High
  <2>2. row \in [Zones -> NoData..High]
    BY <2>1
  <2> HIDE DEF row
  <2>3. [risk EXCEPT ![h] = row] \in [Hazards -> [Zones -> NoData..High]]
    BY <1>1, <2>2
  <2> QED
    BY <2>3 DEF row
<1> QED
  BY <1>3, <1>4, <1>5

LEMMA ShelterSteps ==
  ASSUME DistrictTrue, NEW s \in Shelters
  PROVE  /\ Arrivals(s) => shelter' \in [Shelters -> ShelterRow]
         /\ \A form \in Forms : SaveShelter(s, form) => shelter' \in [Shelters -> ShelterRow]
<1>1. shelter \in [Shelters -> ShelterRow] /\ shelter[s] \in ShelterRow
  BY DEF DistrictTrue
<1>2. ASSUME NEW r \in ShelterRow
      PROVE  [shelter EXCEPT ![s] = Recomputed(r)] \in [Shelters -> ShelterRow]
  BY <1>1, RecomputedIsRow
<1>3. ASSUME Arrivals(s)
      PROVE  shelter' \in [Shelters -> ShelterRow]
  <2>1. PICK used \in {0, 1} :
          shelter' = [shelter EXCEPT ![s] = Recomputed(
            [shelter[s] EXCEPT
               !.occ = Min({shelter[s].occ + 1, shelter[s].size}),
               !.days = IF shelter[s].days >= used THEN shelter[s].days - used ELSE 0])]
    BY <1>3 DEF Arrivals
  <2>2. shelter[s].occ \in Nat /\ shelter[s].size \in Nat /\ shelter[s].days \in 0..2
    BY <1>1 DEF ShelterRow
  <2> DEFINE occ == Min({shelter[s].occ + 1, shelter[s].size})
             days == IF shelter[s].days >= used THEN shelter[s].days - used ELSE 0
             row == [shelter[s] EXCEPT !.occ = occ, !.days = days]
  <2>3. occ \in Nat
    BY <2>2, MinOfTwo
  <2>4. days \in 0..2
    BY <2>2
  <2>5. shelter' = [shelter EXCEPT ![s] = Recomputed(row)]
    BY <2>1
  <2>6. row \in ShelterRow
    <3> HIDE DEF occ, days
    <3> QED
      BY <1>1, <2>3, <2>4 DEF ShelterRow
  <2> HIDE DEF row
  <2> QED
    BY <1>2, <2>5, <2>6
<1>4. ASSUME NEW form \in Forms, SaveShelter(s, form)
      PROVE  shelter' \in [Shelters -> ShelterRow]
  <2>1. form.occ \in Nat /\ form.days \in 0..2 /\ form.staff \in Nat
    BY DistrictAssumption
  <2>2. shelter' = [shelter EXCEPT ![s] = Recomputed(
          [shelter[s] EXCEPT !.occ = form.occ, !.days = form.days, !.staff = form.staff])]
    BY <1>1, <1>4 DEF SaveShelter
  <2>3. [shelter[s] EXCEPT !.occ = form.occ, !.days = form.days, !.staff = form.staff] \in ShelterRow
    BY <1>1, <2>1 DEF ShelterRow
  <2> QED
    BY <1>2, <2>2, <2>3
<1> QED
  BY <1>3, <1>4

LEMMA DistrictSteps == DistrictTrue /\ [DistrictNext]_districtVars => DistrictTrue'
<1> SUFFICES ASSUME DistrictTrue, [DistrictNext]_districtVars
             PROVE  DistrictTrue'
  OBVIOUS
<1>1. /\ hazard \in Hazards /\ risk \in [Hazards -> [Zones -> NoData..High]]
      /\ shelter \in [Shelters -> ShelterRow] /\ QueueOf(queue, hazard)
      /\ plan = PlanFor(queue, shelter, blocked)
  BY DEF DistrictTrue
<1>2. CASE \E st \in States : PickState(st)
  BY <1>1, <1>2, LoadedIsTrue DEF PickState
<1>3. CASE \E h \in Hazards : SetHazard(h)
  BY <1>1, <1>3, Replanned DEF SetHazard
<1>4. CASE \E h \in Hazards : Observe(h)
  <2>1. PICK h \in Hazards : Observe(h)
    BY <1>4
  <2>2. risk' \in [Hazards -> [Zones -> NoData..High]]
    BY <2>1, RiskSteps DEF Observe
  <2> QED
    BY <1>1, <2>1, <2>2, Replanned DEF Observe, OrderAgain
<1>5. CASE PartialTick
  <2>1. risk' \in [Hazards -> [Zones -> NoData..High]]
    BY <1>5, RiskSteps DEF PartialTick
  <2> QED
    BY <1>1, <1>5, <2>1 DEF PartialTick, DistrictTrue
<1>6. CASE FullTick \/ RoadChange
  BY <1>1, <1>6, Replanned DEF FullTick, RoadChange, OrderAgain
<1>7. CASE \E z \in Zones : RiskRises(z)
  <2>1. PICK z \in Zones : RiskRises(z)
    BY <1>7
  <2>2. risk' \in [Hazards -> [Zones -> NoData..High]]
    BY <1>1, <2>1, RiskSteps DEF RiskRises
  <2> QED
    BY <1>1, <2>1, <2>2, Replanned DEF RiskRises, OrderAgain
<1>8. CASE \E s \in Shelters : Arrivals(s)
  <2>1. PICK s \in Shelters : Arrivals(s)
    BY <1>8
  <2>2. shelter' \in [Shelters -> ShelterRow]
    BY <2>1, ShelterSteps
  <2> QED
    BY <1>1, <2>1, <2>2, Replanned DEF Arrivals, OrderAgain
<1>9. CASE \E s \in Shelters : \E form \in Forms : SaveShelter(s, form)
  <2>1. PICK s \in Shelters, form \in Forms : SaveShelter(s, form)
    BY <1>9
  <2>2. shelter' \in [Shelters -> ShelterRow]
    BY <2>1, ShelterSteps
  <2> QED
    BY <1>1, <2>1, <2>2 DEF SaveShelter, Reroute, DistrictTrue
<1>10. CASE UNCHANGED districtVars
  BY <1>1, <1>10 DEF districtVars, DistrictTrue
<1> QED
  BY <1>2, <1>3, <1>4, <1>5, <1>6, <1>7, <1>8, <1>9, <1>10 DEF DistrictNext

\* data.js, computeRoutes: for any number of zones and shelters, whatever arrives, is
\* closed, saved, switched or opened, the plan shown promises no shelter more than the
\* shelter shown can take.
THEOREM PlansFit == DistrictSpec => []PlanFits
<1>1. DistrictTrue => PlanFits
  BY TruePlan
<1> QED
  BY DistrictStarts, DistrictSteps, <1>1, PTL DEF DistrictSpec

\* data.js, computeRoutes: it places or records every person of the zones first in the
\* queue shown, and leaves people over only where it may not send or nothing is left.
THEOREM PlansServe == DistrictSpec => []PlanServesQueue
<1>1. DistrictTrue => PlanServesQueue
  BY TruePlan
<1> QED
  BY DistrictStarts, DistrictSteps, <1>1, PTL DEF DistrictSpec

================================================================================
