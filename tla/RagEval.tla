------------------------------ MODULE RagEval -------------------------------
(***************************************************************************)
(* The evaluation of the retrieval (eval/rag_eval.py) beside the index     *)
(* that it measures and the administrator who edits its cases              *)
(* (api/admin_graphql.py).  A run reads cases and gold chunks from the     *)
(* snapshot of its session but searches Qdrant as it is; nothing of it is  *)
(* committed before its end.  Recall and reciprocal rank are counted in    *)
(* parts of Unit.  Of the index there are the chunks of tables; RagIndex   *)
(* has the single steps of indexing.                                       *)
(***************************************************************************)
EXTENDS Integers, FiniteSets, Sequences

CONSTANTS Tables,      \* rows of table_metadata, of all datasources
          Names, NameOf,
          Prefixes,    \* <<t, u>>: the name u begins with the name t
          Questions,   \* of the benchmark
          Sessions,    \* that run, import or index
          TopK, Unit,
          MaxRuns,     \* bound: sessions that evaluate
          MaxChunk,    \* bound: chunks ever
          MaxCase,     \* bound: cases ever
          MaxEdits     \* bound: edits of the cases

ASSUME RagEvalAssumption ==
  /\ IsFiniteSet(Names) /\ IsFiniteSet(Questions)
  /\ NameOf \in [Tables -> Names] /\ Prefixes \subseteq Names \X Names
  /\ "none" \notin Names /\ "manual" \notin Sessions /\ "another" \notin Questions
  /\ TopK \in Nat \ {0} /\ Unit \in Nat \ {0}
  /\ MaxRuns \in Nat /\ MaxChunk \in Nat /\ MaxCase \in Nat /\ MaxEdits \in Nat
  /\ Cardinality(Names) <= Unit /\ MaxChunk <= Unit   \* no share is rounded to nothing

ChunkIds == 1..MaxChunk
CaseIds == 1..MaxCase

VARIABLES
  chunkRows,   \* rag_chunks of table documents: id -> table, committed
  collection,  \* Qdrant: id -> table
  cases,       \* id -> row of rag_eval_cases
  runs,        \* committed rows of rag_eval_runs, with their items
  session,     \* session -> its progress and its transaction
  lastChunk, lastCase, edits

evalVars == <<chunkRows, collection, cases, runs, session, lastChunk, lastCase, edits>>

None == [i \in {} |-> 0]

\* The rows of g under those of f.
Joined(f, g) ==
  [i \in DOMAIN f \cup DOMAIN g |-> IF i \in DOMAIN f THEN f[i] ELSE g[i]]

\* by and edited, whether the question ever was, are history.
Case(q, chunks, tables, by) ==
  [question |-> q, chunks |-> chunks, tables |-> tables, enabled |-> TRUE, by |-> by,
   edited |-> FALSE]

Enabled(listed) == { i \in DOMAIN listed : listed[i].enabled }

\* A session without a transaction; before is the history of what was over when
\* its import began.
Resting(pc, before) ==
  [pc |-> pc, view |-> None, cases |-> None, todo |-> {},
   items |-> {}, unflushed |-> {}, new |-> None, before |-> before]

Idle == Resting("idle", {})

EvalInit ==
  /\ lastChunk \in 0..MaxChunk
  /\ chunkRows \in [1..lastChunk -> Tables]   \* several of a table: RagIndex, TwiceOnlyByOverlap
  /\ collection = chunkRows
  /\ cases = None /\ lastCase = 0 /\ edits = 0
  /\ runs = {} /\ session = [o \in Sessions |-> Idle]

Over(o) == session' = [session EXCEPT ![o] = Resting("over", session[o].before)]

-----------------------------------------------------------------------------
(* The measure of one case. *)

Mode(case) ==
  IF case.chunks # {} THEN "chunk" ELSE IF case.tables # {} THEN "table" ELSE "none"

TableOf(i) == IF i = 0 THEN "none" ELSE NameOf[collection[i]]

\* is_chunk_relevant_weak: by the table name in the payload, or by the first
\* line of the content, which is compared as a prefix
Weak(table, expected) ==
  table \in expected \/ \E t \in expected : <<t, table>> \in Prefixes

\* resolve_gold_chunk_ids, from the snapshot v, for a case without a datasource:
\* of all tables of the name.  (With one, the case is one over the chunks of that
\* datasource.)
Gold(case, v) ==
  IF Mode(case) = "chunk" THEN case.chunks
  ELSE { i \in DOMAIN v : NameOf[v[i]] \in case.tables }

\* compute_metrics of the ranking r, a sequence of chunk ids
Relevant(case, gold, r, n) ==
  IF Mode(case) = "chunk" THEN r[n] \in gold ELSE Weak(TableOf(r[n]), case.tables)

\* Mutant: the first hit ends the search for others.
FirstHit(case, gold, r) ==
  { r[n] : n \in { m \in DOMAIN r : /\ Relevant(case, gold, r, m)
                                   /\ \A l \in 1..(m - 1) : ~Relevant(case, gold, r, l) } }

Hits(case, gold, r) ==
  { r[n] : n \in { m \in DOMAIN r : Relevant(case, gold, r, m) } }

Recall(case, gold, r) ==
  IF gold # {}
  THEN (Unit * Cardinality(Hits(case, gold, r) \cap gold)) \div Cardinality(gold)
  ELSE LET matched == { t \in case.tables :
                          \E n \in DOMAIN r : Weak(TableOf(r[n]), {t}) }
       IN (Unit * Cardinality(matched)) \div Cardinality(case.tables)

Mrr(case, gold, r) ==
  LET ranks == { n \in DOMAIN r : Relevant(case, gold, r, n) }
  IN IF ranks = {} THEN 0
     ELSE Unit \div (CHOOSE n \in ranks : \A m \in ranks : n <= m)

\* External: the collection ranks its points in any order; 0 is a chunk of
\* another document, of which there are enough.  That a run may be limited to a
\* datasource makes it one of the rankings that lack the others' chunks.
Rankings ==
  { r \in [1..TopK -> DOMAIN collection \cup {0}] :
      \A m, n \in 1..TopK : r[m] = r[n] => m = n \/ r[m] = 0 }

\* evaluate_case; for the properties the item keeps what was found and the snapshot.
Item(i, case, v, r) ==
  LET gold == Gold(case, v)
  IN IF Mode(case) = "none"
     THEN [case |-> i, of |-> case, skipped |-> TRUE, found |-> {}, tables |-> {},
           view |-> None, recall |-> 0, mrr |-> 0]
     ELSE [case |-> i, of |-> case, skipped |-> FALSE,
           found |-> { r[n] : n \in DOMAIN r } \ {0},
           tables |-> { TableOf(r[n]) : n \in DOMAIN r },
           view |-> v, recall |-> Recall(case, gold, r), mrr |-> Mrr(case, gold, r)]

-----------------------------------------------------------------------------
(* A run. *)

Running == { o \in Sessions : session[o].pc = "run" } \cup { r.by : r \in runs }

\* Mutant: the row of the run is committed.
BeginRunCommitted(o) ==
  /\ session[o].pc = "idle" /\ Cardinality(Running) < MaxRuns
  /\ session' = [session EXCEPT ![o].pc = "run", ![o].view = chunkRows, ![o].cases = cases,
                      ![o].todo = Enabled(cases)]
  /\ runs' = runs \cup {[by |-> o, status |-> "running", items |-> {},
                         count |-> Cardinality(session'[o].todo)]}
  /\ UNCHANGED <<chunkRows, collection, cases, lastChunk, lastCase, edits>>

\* The enabled cases; the row of the run is flushed, not committed.
BeginRun(o) ==
  /\ session[o].pc = "idle" /\ Cardinality(Running) < MaxRuns
  /\ session' = [session EXCEPT ![o].pc = "run", ![o].view = chunkRows, ![o].cases = cases,
                      ![o].todo = Enabled(cases)]
  /\ UNCHANGED <<chunkRows, collection, cases, runs, lastChunk, lastCase, edits>>

\* The items whose cases have been deleted meanwhile cannot be inserted.  The
\* session is unusable then, so the run that should become "failed" is lost.
Insertable(items) == \A x \in items : x.case \in DOMAIN cases

\* search, then the gold chunks, in the order of the ids.  The query for gold
\* chunks flushes the items before.
Evaluate(o) ==
  /\ session[o].pc = "run" /\ session[o].todo # {}
  /\ LET i == CHOOSE n \in session[o].todo : \A m \in session[o].todo : n <= m
         case == session[o].cases[i]
         flushes == Mode(case) = "table"
     IN \E r \in Rankings :
          IF flushes /\ ~Insertable(session[o].unflushed)
          THEN Over(o)
          ELSE session' = [session EXCEPT
                 ![o].todo = @ \ {i},
                 ![o].items = @ \cup {Item(i, case, session[o].view, r)},
                 ![o].unflushed =
                    (IF flushes THEN {} ELSE @) \cup {Item(i, case, session[o].view, r)}]
  /\ UNCHANGED <<chunkRows, collection, cases, runs, lastChunk, lastCase, edits>>

\* The means over the items are left out.
Row(o, status) ==
  [by |-> o, status |-> status, items |-> session[o].items,
   count |-> Cardinality(Enabled(session[o].cases))]

Finish(o) ==
  /\ session[o].pc = "run" /\ session[o].todo = {}
  /\ Over(o)
  /\ runs' = runs \cup (IF Insertable(session[o].unflushed) THEN {Row(o, "done")} ELSE {})
  /\ UNCHANGED <<chunkRows, collection, cases, lastChunk, lastCase, edits>>

\* Qdrant does not answer, or not in time: what has been measured is committed.
FailRun(o) ==
  /\ session[o].pc = "run" /\ session[o].todo # {}
  /\ Over(o)
  /\ runs' = runs \cup (IF Insertable(session[o].unflushed) THEN {Row(o, "failed")} ELSE {})
  /\ UNCHANGED <<chunkRows, collection, cases, lastChunk, lastCase, edits>>

-----------------------------------------------------------------------------
(* The cases. *)

BeginImport(o) ==
  /\ session[o].pc = "idle"
  /\ session' = [session EXCEPT ![o].pc = "import", ![o].cases = cases,
                                ![o].before = { p \in Sessions : session[p].pc = "over" }]
  /\ UNCHANGED <<chunkRows, collection, cases, runs, lastChunk, lastCase, edits>>

Seen(o, q) == { i \in DOMAIN session[o].cases : session[o].cases[i].question = q }

\* Mutant: skip_existing is not looked at.
ImportAll(o) ==
  LET new == Questions
  IN /\ session[o].pc = "import"
     /\ Over(o)
     /\ lastCase + Cardinality(new) <= MaxCase
     /\ lastCase' = lastCase + Cardinality(new)
     /\ \E f \in [(lastCase + 1)..lastCase' -> new] :
          /\ { f[i] : i \in DOMAIN f } = new
          /\ cases' = Joined([i \in DOMAIN f |-> Case(f[i], {}, Names, o)], cases)
     /\ UNCHANGED <<chunkRows, collection, runs, lastChunk, edits>>

\* import_cases_from_json: the questions that the snapshot does not show.  If it
\* shows one twice, scalar_one_or_none raises and nothing is imported.
Import(o) ==
  LET new == { q \in Questions : Seen(o, q) = {} }
  IN /\ session[o].pc = "import"
     /\ Over(o)
     /\ IF \E q \in Questions : Cardinality(Seen(o, q)) > 1
        THEN UNCHANGED <<cases, lastCase>>
        ELSE /\ lastCase + Cardinality(new) <= MaxCase
             /\ lastCase' = lastCase + Cardinality(new)
             /\ \E f \in [(lastCase + 1)..lastCase' -> new] :
                  /\ { f[i] : i \in DOMAIN f } = new
                  /\ cases' = Joined([i \in DOMAIN f |-> Case(f[i], {}, Names, o)], cases)
     /\ UNCHANGED <<chunkRows, collection, runs, lastChunk, edits>>

\* Expected chunks, or expected tables, which do not count beside chunks.
Labels == { <<{i}, {}>> : i \in DOMAIN chunkRows } \cup { <<{}, t>> : t \in SUBSET Names }

CreateCase ==
  /\ lastCase < MaxCase /\ lastCase' = lastCase + 1
  /\ \E q \in Questions \cup {"another"}, l \in Labels :
       cases' = Joined([i \in {lastCase'} |-> Case(q, l[1], l[2], "manual")], cases)
  /\ UNCHANGED <<chunkRows, collection, runs, session, lastChunk>>

\* update_rag_eval_case: what the input has no value for stays.
UpdateCase(i) ==
  /\ \E q \in Questions \cup {"another"}, e \in BOOLEAN,
        l \in Labels \cup {<<cases[i].chunks, cases[i].tables>>} :
       cases' = [cases EXCEPT ![i].question = q, ![i].chunks = l[1], ![i].tables = l[2],
                              ![i].enabled = e,
                              ![i].edited = @ \/ q # cases[i].question]
  /\ UNCHANGED <<chunkRows, collection, runs, session, lastChunk, lastCase>>

\* delete_rag_eval_case fails if an item refers to the case, and waits for one
\* that is being inserted.
DeleteCase(i) ==
  /\ \A r \in runs : \A x \in r.items : x.case # i
  /\ \A o \in Sessions : \A x \in session[o].items \ session[o].unflushed : x.case # i
  /\ cases' = [j \in DOMAIN cases \ {i} |-> cases[j]]
  /\ UNCHANGED <<chunkRows, collection, runs, session, lastChunk, lastCase>>

-----------------------------------------------------------------------------
(* The index. *)

\* Of the chunks that a session's snapshot shows, those of the table it indexes.
Stale(o) == { n \in DOMAIN session[o].view : session[o].view[n] \in session[o].todo }

\* A table is indexed again, or taken out: the points of its chunks are deleted
\* at once, those of a new one written at once, the rows follow with the commit.
BeginIndex(o, t) ==
  /\ session[o].pc = "idle"
  /\ session' = [session EXCEPT ![o].pc = "unindex", ![o].view = chunkRows, ![o].todo = {t}]
  /\ collection' = [i \in { n \in DOMAIN collection : n \in DOMAIN chunkRows => chunkRows[n] # t }
                      |-> collection[i]]
  /\ UNCHANGED <<chunkRows, cases, runs, lastChunk, lastCase, edits>>

\* The rows are deleted, which waits for another session that has deleted them,
\* and fails if they are gone then.
Deletes(o) ==
  /\ session[o].pc = "unindex"
  /\ \A p \in Sessions : session[p].pc = "index" => Stale(o) \cap Stale(p) = {}

DeleteFails(o) ==
  /\ Deletes(o) /\ ~ Stale(o) \subseteq DOMAIN chunkRows
  /\ Over(o)
  /\ UNCHANGED <<chunkRows, collection, cases, runs, lastChunk, lastCase, edits>>

StoreTable(o) ==
  /\ Deletes(o) /\ Stale(o) \subseteq DOMAIN chunkRows
  /\ lastChunk < MaxChunk /\ lastChunk' = lastChunk + 1
  /\ \E t \in session[o].todo :
       /\ session' = [session EXCEPT ![o].pc = "index", ![o].new = [i \in {lastChunk'} |-> t]]
       /\ collection' = Joined([i \in {lastChunk'} |-> t], collection)
  /\ UNCHANGED <<chunkRows, cases, runs, lastCase, edits>>

\* unindex_item stores nothing.
StoreNone(o) ==
  /\ Deletes(o) /\ Stale(o) \subseteq DOMAIN chunkRows
  /\ session' = [session EXCEPT ![o].pc = "index"]
  /\ UNCHANGED <<chunkRows, collection, cases, runs, lastChunk, lastCase, edits>>

CommitIndex(o) ==
  /\ session[o].pc = "index"
  /\ chunkRows' = Joined(session[o].new, [i \in DOMAIN chunkRows \ Stale(o) |-> chunkRows[i]])
  /\ Over(o)
  /\ UNCHANGED <<collection, cases, runs, lastChunk, lastCase, edits>>

\* A session is lost: its transaction is, its points are not.
Lose(o) ==
  /\ session[o].pc \notin {"idle", "over"} /\ Over(o)
  /\ UNCHANGED <<chunkRows, collection, cases, runs, lastChunk, lastCase, edits>>

Edit == CreateCase \/ \E i \in DOMAIN cases : UpdateCase(i) \/ DeleteCase(i)

EvalNext ==
  \/ \E o \in Sessions : \/ BeginRun(o) \/ Evaluate(o) \/ Finish(o) \/ FailRun(o)
                    \/ BeginImport(o) \/ Import(o)
                    \/ \E t \in Tables : BeginIndex(o, t)
                    \/ DeleteFails(o) \/ StoreTable(o) \/ StoreNone(o) \/ CommitIndex(o)
                    \/ Lose(o)
  \/ Edit /\ edits < MaxEdits /\ edits' = edits + 1

EvalSpec == EvalInit /\ [][EvalNext]_evalVars

-----------------------------------------------------------------------------
(* What holds. *)

\* The type of every variable; items refer to cases that exist, and measures are
\* fractions of Unit.
EvalTypeOK ==
  /\ DOMAIN chunkRows \subseteq 1..lastChunk /\ DOMAIN collection \subseteq 1..lastChunk
  /\ lastChunk \in 0..MaxChunk /\ lastCase \in 0..MaxCase
  /\ DOMAIN cases \subseteq 1..lastCase
  /\ \A r \in runs : \A x \in r.items : /\ x.case \in DOMAIN cases
                                       /\ x.recall \in 0..Unit /\ x.mrr \in 0..Unit

\* What is seen of a run is its end: it is done, with an item for every case, or
\* failed with fewer of them; none stays "running", whatever dies on the way,
\* and no item is left of a case that was deleted.
RunsAreWhole ==
  /\ EvalTypeOK
  /\ \A r \in runs :
       \/ r.status = "done" /\ Cardinality(r.items) = r.count
       \/ r.status = "failed" /\ Cardinality(r.items) < r.count

Items == UNION { r.items : r \in runs }
TableItems == { x \in Items : ~x.skipped /\ Mode(x.of) = "table" }

\* What the measures of a case with expected tables say.  If all of these were
\* retrieved, the recall is full, and a rank without a recall is that of a table
\* whose name begins like an expected one: unless a chunk was found that the
\* run's snapshot does not know, as the gold chunks are the snapshot's and the
\* found ones those of Qdrant.  Nor need the recall be full if the snapshot has
\* two chunks of an expected name, from indexings that overlapped or from tables
\* of two datasources, only one of which was found.  A full recall says that every
\* expected table that was indexed was retrieved; of the others it says nothing.
Explained(x) ==
  LET known == x.found \subseteq DOMAIN x.view
      twice == \E i, j \in DOMAIN x.view : /\ i # j /\ NameOf[x.view[i]] = NameOf[x.view[j]]
                                          /\ NameOf[x.view[i]] \in x.of.tables
      present == { NameOf[x.view[i]] : i \in DOMAIN x.view }
  IN /\ x.of.tables \subseteq x.tables /\ known /\ ~twice => x.recall = Unit
     /\ x.mrr > 0 /\ x.recall = 0 /\ known
          => \E t \in x.of.tables, u \in x.tables : <<t, u>> \in Prefixes
     /\ x.recall = Unit => x.of.tables \cap present \subseteq x.tables

MeasuresExplained == \A x \in TableItems : Explained(x)

\* Two imports double a question only if neither was over when the other began:
\* whatever is edited and deleted meanwhile, an import passes over what an
\* earlier one added.  Except a row whose question was edited: edited away it is
\* imported again, and edited back there are two.
Overlap(p, q) == p # q /\ p \notin session[q].before /\ q \notin session[p].before

Imported(i) == cases[i].by \in Sessions /\ ~cases[i].edited

ImportedTwiceOnlyByOverlap ==
  \A i, j \in DOMAIN cases :
    i # j /\ cases[i].question = cases[j].question /\ Imported(i) /\ Imported(j)
      => Overlap(cases[i].by, cases[j].by)

-----------------------------------------------------------------------------
(* What the proofs need besides. *)

IsMap(f, keys, values) == f \in [DOMAIN f -> values] /\ DOMAIN f \subseteq keys

CaseRows == [question : Questions \cup {"another"}, chunks : SUBSET ChunkIds,
             tables : SUBSET Names, enabled : BOOLEAN, by : Sessions \cup {"manual"},
             edited : BOOLEAN]

AreItems(S) == \A x \in S : x.recall \in 0..Unit /\ x.mrr \in 0..Unit

IsSession(s) ==
  /\ s = [pc |-> s.pc, view |-> s.view, cases |-> s.cases, todo |-> s.todo,
          items |-> s.items, unflushed |-> s.unflushed, new |-> s.new,
          before |-> s.before]
  /\ IsMap(s.cases, CaseIds, CaseRows)
  /\ AreItems(s.items)
  /\ s.pc = "unindex" => s.todo \subseteq Tables

\* Every place where a chunk is: the database, the collection, and what a
\* session has read or will commit.
Views == { session[o].view : o \in Sessions } \cup { session[o].new : o \in Sessions }
Places == {chunkRows, collection} \cup Views

EvalTypes ==
  /\ IsMap(cases, 1..lastCase, CaseRows)
  /\ session = [o \in Sessions |-> session[o]]
  /\ \A o \in Sessions : IsSession(session[o])
  /\ lastChunk \in 0..MaxChunk /\ lastCase \in 0..MaxCase
  /\ \A r \in runs : AreItems(r.items)

\* A chunk is that of the same table wherever it is.
ChunksAgree ==
  \E table \in [1..lastChunk -> Tables] :
    \A f \in Places : /\ IsMap(f, 1..lastChunk, Tables)
                      /\ \A i \in DOMAIN f : f[i] = table[i]

\* A run has one item for every case that it has done with, and nobody else has
\* items.
ItemsCount ==
  \A o \in Sessions :
    /\ session[o].pc # "run" => session[o].items = {}
    /\ session[o].pc = "run" =>
         /\ session[o].todo \subseteq Enabled(session[o].cases)
         /\ IsFiniteSet(session[o].items)
         /\ \A x \in session[o].items : x.case \notin session[o].todo
         /\ Cardinality(session[o].items) + Cardinality(session[o].todo)
              = Cardinality(Enabled(session[o].cases))

\* What has been flushed or committed refers to a case that exists.
ItemsRefer ==
  /\ \A o \in Sessions : Insertable(session[o].items \ session[o].unflushed)
  /\ \A r \in runs : Insertable(r.items)

\* The items of a run are explained before it commits them.
ItemsExplained ==
  \A x \in Items \cup UNION { session[o].items : o \in Sessions } :
    ~x.skipped /\ Mode(x.of) = "table" => Explained(x)

RunsCount ==
  \A r \in runs :
    \/ r.status = "done" /\ Cardinality(r.items) = r.count
    \/ r.status = "failed" /\ Cardinality(r.items) < r.count

EvalIInv ==
  /\ EvalTypes /\ ChunksAgree
  /\ ItemsCount /\ ItemsRefer /\ ItemsExplained /\ RunsCount

\* What an import sees: a session that was over when it began stays over, and the
\* rows of such a session are in the snapshot, with their questions unless these
\* were edited.
ImportsSee ==
  /\ \A i \in DOMAIN cases : cases[i].by \in Sessions => session[cases[i].by].pc = "over"
  /\ \A o \in Sessions : \A p \in session[o].before : p \in Sessions /\ session[p].pc = "over"
  /\ \A o \in Sessions : session[o].pc = "import" =>
       \A i \in DOMAIN cases : cases[i].by \in session[o].before =>
         /\ i \in DOMAIN session[o].cases
         /\ ~cases[i].edited => session[o].cases[i].question = cases[i].question

CasesIInv == ImportsSee /\ ImportedTwiceOnlyByOverlap
=============================================================================
