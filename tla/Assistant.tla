------------------------------- MODULE Assistant -------------------------------
(***************************************************************************)
(* The assistant of the browser build, frontend/standalone/src/rag.js: an  *)
(* index over documents and the live records of the store, rebuilt when it *)
(* was marked out of date, the retrieval over it, and answers composed a   *)
(* moment after the question, several of which may be under way.           *)
(*                                                                         *)
(* A record has a kind, the words its passage matches and a version that   *)
(* every change of the store raises.  A question has the cues its wording  *)
(* gives and its content words, stopwords and suffixes gone.  Of a bm25    *)
(* score it is known that it is positive just when they share a word.      *)
(***************************************************************************)
EXTENDS Integers, FiniteSets, FiniteSetsExt, Functions, Sequences, Ordering

CONSTANTS
  Records,     \* 1..n: docCorpus, then liveCorpus
  Documents,   \* the records of docCorpus, which never change
  Kind, Words, \* per record
  Questions,   \* records of cues and words
  Bm25,        \* Bm25[q][r]
  Boost,       \* Boost[i][kind]: INTENT_BOOST, in tenths
  Exclude,     \* Exclude[i]: INTENT_EXCLUDE
  PoolMax,     \* 40: the best records mmr looks at
  TopK,        \* 5 passages
  MinPerTerm,  \* RAG.minPerTerm, in tenths
  MaxVersion, MaxAsked  \* bounds: changes of a record, questions under way

Intents == <<"personal", "latest", "guidance", "quantity", "explain", "locate">>
Known == Range(Intents) \union {"general"}
Kinds == {Kind[r] : r \in Records}

ASSUME AssistantAssumption ==
  /\ IsFiniteSet(Records) /\ Records = 1..Cardinality(Records)
  /\ Documents \subseteq Records
  /\ \A q \in Questions : q.cues \subseteq Range(Intents)
  /\ Bm25 \in [Questions -> [Records -> Nat]]
  /\ \A q \in Questions, r \in Records : Bm25[q][r] > 0 <=> q.words \intersect Words[r] # {}
  /\ Boost \in [Known -> [Kinds -> Nat \ {0}]] /\ Exclude \in [Known -> SUBSET Kinds]
  /\ PoolMax \in Nat \ {0} /\ TopK \in Nat \ {0} /\ MinPerTerm \in Nat
  /\ MaxVersion \in Nat /\ MaxAsked \in Nat

VARIABLES
  store,   \* the version of each record
  marked,  \* the versions when the index was last marked out of date
  dirty,   \* RAG.dirty
  index,   \* the versions RAG.chunks holds
  open,    \* S.chat
  asked,   \* asked[q]: how many of q wait for their answer
  answer   \* the last answer, with the question it is to

storeVars == <<store, marked>>
assistantVars == <<storeVars, dirty, index, open, asked, answer>>

NoAnswer == [to |-> [cues |-> {}, words |-> {}], refused |-> TRUE, passages |-> <<>>, footer |-> "none"]

AssistantInit ==
  /\ store = [r \in Records |-> 0] /\ marked = store
  /\ dirty = TRUE /\ index = store
  /\ open = FALSE
  /\ asked = [q \in Questions |-> 0] /\ answer = NoAnswer

-----------------------------------------------------------------------------
(* Retrieval *)

\* intentOf tries its patterns in this order.
IntentOf(q) ==
  LET cues == {i \in DOMAIN Intents : Intents[i] \in q.cues}
  IN IF cues = {} THEN "general" ELSE Intents[Min(cues)]

Matches(q, r) == q.words \intersect Words[r]

\* bm25 and the boost of the intent.
Score(q, r) == Bm25[q][r] * Boost[IntentOf(q)][Kind[r]]

\* A stable sort, the best first.
Better(q, r, s) == Score(q, r) > Score(q, s) \/ (Score(q, r) = Score(q, s) /\ r < s)

\* How alike two passages are, per cent of the shorter one.
Sim(a, b) ==
  (100 * Cardinality(Words[a] \intersect Words[b])) \div
    Max({1, Min({Cardinality(Words[a]), Cardinality(Words[b])})})

\* Relevant and no near-duplicate of what was chosen before.
Worth(q, r, chosen, top) ==
  72 * Score(q, r) * 100
    - 28 * top * (IF chosen = <<>> THEN 0 ELSE Max({Sim(r, chosen[i]) : i \in DOMAIN chosen}))

\* The first of the best in the order of the scores.
IsBest(r, q, pool, chosen, top) ==
  /\ r \in pool
  /\ \A s \in pool \ {r} :
       LET w(x) == Worth(q, x, chosen, top) IN w(r) > w(s) \/ (w(r) = w(s) /\ Better(q, r, s))

\* Mutation: a chosen passage stays in the pool.
MmrKeeps(q, pool, top) ==
  {chosen \in [1..Min({TopK, Cardinality(pool)}) -> pool] :
     \A n \in DOMAIN chosen : IsBest(chosen[n], q, pool, SubSeq(chosen, 1, n - 1), top)}

\* What the loop of mmr chooses, one passage after the other, the chosen ones
\* taken out of the pool.
Mmr(q, pool, top) ==
  {chosen \in [1..Min({TopK, Cardinality(pool)}) -> pool] :
     \A n \in DOMAIN chosen :
       IsBest(chosen[n], q, pool \ {chosen[m] : m \in 1..n - 1}, SubSeq(chosen, 1, n - 1), top)}

\* The records that match, less the kinds that answer another question -- unless
\* they are all there is.
Pool(q) ==
  LET scored == {r \in Records : Score(q, r) > 0}
      kept == {r \in scored : Kind[r] \notin Exclude[IntentOf(q)]}
  IN IF kept = {} THEN scored ELSE kept

TopScore(q) == IF Pool(q) = {} THEN 0 ELSE Max({Score(q, r) : r \in Pool(q)})

Matchable(q) == {w \in q.words : \E r \in Records : w \in Words[r]}

\* The records mmr looks at.
Considered(q) == {r \in Pool(q) : Cardinality({s \in Pool(q) : Better(q, s, r)}) < PoolMax}

RagRetrieve(q) == Mmr(q, Considered(q), TopScore(q))

\* Nothing known about it, or nothing close enough.
TooWeak(q, records) ==
  records = <<>> \/ TopScore(q) < MinPerTerm * Cardinality(Matchable(q))

-----------------------------------------------------------------------------
(* Answers *)

\* Mutation: the index waits for the next opening of the panel.
BuildIndexLater == UNCHANGED <<dirty, index>>

\* ragRetrieve and toggleChat build the index when it is marked.
BuildIndex ==
  /\ dirty' = FALSE
  /\ index' = IF dirty THEN store ELSE index

\* What the sentences are quoted from, in the version the index has.
Quoted(records, held) == [i \in DOMAIN records |-> [record |-> records[i], version |-> held[records[i]]]]

Footer(records) ==
  LET model == \E i \in DOMAIN records : Kind[records[i]] \in {"cell", "priority", "model", "state"}
      alert == \E i \in DOMAIN records : Kind[records[i]] = "alert"
  IN IF model THEN IF alert THEN "warning first" ELSE "estimate" ELSE "none"

\* ragAnswer, on the records retrieved: a question about the person is answered
\* with the first three that are near and refused.
RagAnswer(q, records, held) ==
  IF IntentOf(q) = "personal"
    THEN LET near == {i \in DOMAIN records : Kind[records[i]] \in {"cell", "alert", "shelter", "state"}}
             first == {i \in near : Cardinality({j \in near : j < i}) < 3}
         IN [to |-> q, refused |-> TRUE, footer |-> "none",
             passages |-> Quoted(Kept(records, first), held)]
    ELSE IF TooWeak(q, records) THEN [NoAnswer EXCEPT !.to = q]
    ELSE [to |-> q, refused |-> FALSE, passages |-> Quoted(records, held),
          footer |-> Footer(records)]

AskAssistant(q) ==
  /\ FoldFunction(+, 0, asked) < MaxAsked
  /\ asked' = [asked EXCEPT ![q] = @ + 1]
  /\ UNCHANGED <<storeVars, dirty, index, open, answer>>

Answer(q) ==
  /\ asked[q] > 0
  /\ asked' = [asked EXCEPT ![q] = @ - 1]
  /\ BuildIndex
  /\ \E records \in RagRetrieve(q) : answer' = RagAnswer(q, records, index')
  /\ UNCHANGED <<storeVars, open>>

ToggleChat ==
  /\ open' = ~open
  /\ IF open THEN UNCHANGED <<dirty, index>> ELSE BuildIndex
  /\ UNCHANGED <<storeVars, asked, answer>>

-----------------------------------------------------------------------------
(* The store *)

Raised(r) == r \in Records \ Documents /\ store[r] < MaxVersion

\* A change that is logged, or marks the index itself: a report, an event, an
\* operator's write, another state, an observation.
LogChange(r) ==
  /\ Raised(r)
  /\ store' = [store EXCEPT ![r] = @ + 1]
  /\ marked' = store'
  /\ dirty' = TRUE
  /\ UNCHANGED <<index, open, asked, answer>>

\* The drift of a tick and the hazard switch move figures and mark nothing.
QuietChange(r) ==
  /\ Raised(r)
  /\ store' = [store EXCEPT ![r] = @ + 1]
  /\ UNCHANGED <<marked, dirty, index, open, asked, answer>>

AssistantNext ==
  \/ \E q \in Questions : AskAssistant(q) \/ Answer(q)
  \/ \E r \in Records : LogChange(r) \/ QuietChange(r)
  \/ ToggleChat

AssistantSpec == AssistantInit /\ [][AssistantNext]_assistantVars

-----------------------------------------------------------------------------
(* Properties *)

\* An answer is made from the records as they are now, or as they were when the log
\* last said something: a report that was announced is in every answer given after
\* it, also to a question asked before it (rag.js, markRagDirty and ragRetrieve).
AnswersKnowTheLog ==
  [][answer' # answer => \A i \in DOMAIN answer'.passages :
       answer'.passages[i].version >= marked[answer'.passages[i].record]]_assistantVars

\* An answer that is not a refusal rests on records that share a word with the
\* question, none quoted twice, of a kind the intent excludes only when nothing else
\* matched, and never shows a model's figure without saying what it is.
Grounded(a) ==
  a.refused \/
  LET q == a.to
      quoted == [i \in DOMAIN a.passages |-> a.passages[i].record]
      beside(r) == Kind[r] \in Exclude[IntentOf(q)]
  IN /\ "personal" \notin q.cues
     /\ quoted # <<>> /\ IsInjective(quoted)
     /\ \A i \in DOMAIN quoted :
          /\ Matches(q, quoted[i]) # {}
          /\ beside(quoted[i]) => \A r \in Records : Matches(q, r) # {} => beside(r)
          /\ Kind[quoted[i]] \in {"cell", "priority", "state"} => a.footer # "none"

AnswerGrounded == Grounded(answer)
================================================================================
