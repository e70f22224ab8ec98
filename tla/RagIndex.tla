------------------------------ MODULE RagIndex ------------------------------
(***************************************************************************)
(* The retrieval index (rag/indexer.py, rag/index_ops.py): documents and   *)
(* their chunks in MySQL, points in Qdrant.  An operation keeps its rows   *)
(* in one transaction and writes its points at once, so a rollback takes   *)
(* back the rows and not the points.  Operations are coroutines that wait  *)
(* at every statement: they interleave, each over the snapshot of its own  *)
(* session, and meet at the locks of the rows they delete.                 *)
(*                                                                         *)
(* Every document has one chunk: both are the chunk here, named after the  *)
(* operation that wrote it.  The sources are those of one datasource.      *)
(***************************************************************************)
CONSTANTS Sources,     \* tables, templates, foreign keys or entries
          Keys,        \* foreign keys among them: these have no is_indexed
          Ops,         \* operations on the index
          Past         \* earlier ones, which wrote the rows that Init finds

ASSUME PastAssumption == Past \cap Ops = {} /\ Keys \subseteq Sources

VARIABLES
  sources,  \* the sources that exist
  indexed,  \* those whose is_indexed is set
  rows,     \* committed rows of rag_chunks
  points,   \* the chunks that have a point in Qdrant
  scored,   \* chunks that rag_quality_scores or rag_alerts refer to
  op,       \* operation -> its progress and its transaction
  replaced  \* history: foreign keys that a synchronisation deleted

db == <<sources, indexed, rows, scored>>
vars == <<sources, indexed, rows, points, scored, op, replaced>>

Chunks == [op : Ops \cup Past, source : Sources]

Kinds == {"index_item", "index_all", "sync", "unindex_item", "delete",
          "cascade"}
Indexing == {"index_item", "index_all", "sync"}

OpStates ==
  [pc : {"idle", "ready", "clean", "mark", "commit", "delete", "over",
         "failed"},
   kind : Kinds,
   todo : SUBSET Sources,        \* the sources still to come
   cur : SUBSET Sources,         \* the one it is at
   view : SUBSET Chunks,         \* the rows in its snapshot
   flags : SUBSET Sources,       \* is_indexed as it was loaded
   dropped : SUBSET Chunks,      \* whose points it deleted
   gone : SUBSET Chunks,         \* rows it deleted, locked until the end
   new : SUBSET Chunks,          \* rows it inserted
   mark : SUBSET Sources]        \* whose is_indexed it updated, and locked

-----------------------------------------------------------------------------
\* Nothing is under way; what earlier operations, some of which overlapped, left
\* is consistent.
Init ==
  /\ sources = Sources
  /\ rows \in SUBSET [op : Past, source : Sources]
  /\ indexed \in SUBSET ({ c.source : c \in rows } \ Keys)
  /\ points = rows
  /\ scored = {} /\ replaced = {}
  /\ op \in [Ops -> [pc : {"idle"}, kind : {"sync"}, todo : {{}},
                     cur : {{}}, view : {{}}, flags : {{}}, dropped : {{}},
                     gone : {{}}, new : {{}}, mark : {{}}]]

\* A cascade has deleted the datasource: no document refers to it any more.
Purged == \E o \in Ops : op[o].kind = "cascade" /\ op[o].pc = "over"

\* What an operation of a kind goes through: sync has indexed tables, the cascade
\* takes what the documents refer to, an operation on one item that item.
Todo(kind, s) ==
  CASE kind = "index_all" -> sources
    [] kind = "sync" -> sources \ Keys
    [] kind = "cascade" -> { c.source : c \in rows }
    [] OTHER -> {s}

\* The session's first read.  An operation on one item finds it, or returns (but
\* unindex_item does not look); the cascade finds the datasource.
Begin(o) ==
  /\ op[o].pc = "idle"
  /\ \E kind \in Kinds, s \in Sources :
       /\ kind \in {"index_item", "delete"} => s \in sources
       /\ kind = "cascade" => ~Purged
       /\ op' = [op EXCEPT ![o].pc = "ready", ![o].kind = kind,
                   ![o].todo = Todo(kind, s),
                   ![o].view = rows, ![o].flags = indexed]
  /\ UNCHANGED <<db, points, replaced>>

\* The next source: unindex_by_source reads its documents.
Pick(o, s) ==
  /\ op[o].pc = "ready" /\ s \in op[o].todo
  /\ op' = [op EXCEPT ![o].pc = "clean", ![o].cur = {s},
                      ![o].todo = @ \ {s}]
  /\ UNCHANGED <<db, points, replaced>>

Documents(o) == { c \in op[o].view : c.source \in op[o].cur }

\* A row whose point is deleted and whose own delete is still to come.
Waiting(o) == (Documents(o) \cap op[o].dropped) \ op[o].gone

\* A transaction ends with its locks; what the session had loaded is of no use
\* any more.  (view and dropped stay as history, cur of a deletion also.)
Ended(o, pc) == [op EXCEPT ![o].pc = pc, ![o].gone = {}, ![o].new = {},
                           ![o].mark = {}, ![o].flags = {}, ![o].todo = {},
                           ![o].cur = IF op[o].kind = "delete" /\ pc # "failed"
                                      THEN @ ELSE {}]

\* Rolled back: the rows, the flags and the locks, but not the points.
Failed(o) == op' = Ended(o, "failed")

\* Mutant: the row goes, and its point is left to some later clean-up.
DropPointLater(o, c) ==
  /\ op[o].pc = "clean" /\ Waiting(o) = {}
  /\ c \in Documents(o) \ op[o].dropped
  /\ op' = [op EXCEPT ![o].dropped = @ \cup {c}]
  /\ UNCHANGED <<db, points, replaced>>

\* retriever.delete_by_chunk_id: at once.
DropPoint(o, c) ==
  /\ op[o].pc = "clean" /\ Waiting(o) = {}
  /\ c \in Documents(o) \ op[o].dropped
  /\ points' = points \ {c}
  /\ op' = [op EXCEPT ![o].dropped = @ \cup {c}]
  /\ UNCHANGED <<db, replaced>>

\* DELETE of the chunk and its document, once no other operation holds them.
\* If another has deleted them meanwhile, the flush fails over a chunk that
\* only the snapshot still has.  If scores or alerts refer to the chunk, the
\* statement fails: sync goes on with the next table, the others give up.
DropRow(o, c) ==
  /\ op[o].pc = "clean" /\ c \in Waiting(o)
  /\ \A p \in Ops \ {o} : c \notin op[p].gone
  /\ \/ /\ c \in rows \ scored
        /\ op' = [op EXCEPT ![o].gone = @ \cup {c}]
     \/ /\ c \in scored /\ op[o].kind = "sync"
        /\ op' = [op EXCEPT ![o].pc = "ready"]
     \/ /\ c \in scored /\ op[o].kind # "sync"
        /\ Failed(o)
     \/ /\ c \notin rows
        /\ Failed(o)
  /\ UNCHANGED <<db, points, replaced>>

\* Mutant: one document per source is expected, as scalar_one would.
CleanedOne(o) ==
  Documents(o) # {} => Documents(o) \cap op[o].gone # {}

\* Every document of the source that the snapshot shows is deleted.
Cleaned(o) == Documents(o) \subseteq op[o].gone

\* The _store_..._doc methods: insert document and chunk, write the point.  The
\* document refers to the datasource.
Store(o) ==
  LET chunks == [op : {o}, source : op[o].cur]
  IN /\ op[o].pc = "clean" /\ op[o].kind \in Indexing /\ Cleaned(o)
     /\ ~Purged
     /\ points' = points \cup chunks
     /\ op' = [op EXCEPT ![o].pc = "mark", ![o].new = @ \cup chunks]
     /\ UNCHANGED <<db, replaced>>

\* The UPDATE of is_indexed, once no other operation has the source locked.  It
\* fails when the source has been deleted since the snapshot.
Update(o, set, pc) ==
  /\ \A p \in Ops \ {o} : set \cap op[p].mark = {}
  /\ IF set \subseteq sources
     THEN op' = [op EXCEPT ![o].pc = pc, ![o].mark = @ \cup set]
     ELSE Failed(o)

\* The flag is written only if it was not loaded as set.
MarkIndexed(o) ==
  /\ op[o].pc = "mark"
  /\ Update(o, op[o].cur \ (op[o].flags \cup Keys), "ready")
  /\ UNCHANGED <<db, points, replaced>>

\* In a sync, a table that raises is reported and the next one is indexed: what
\* was deleted stays deleted, and a chunk whose upsert raised stays inserted.
\* (An exception in a flush makes the session unusable: that is Fail.)
Swallow(o) ==
  /\ op[o].pc = "clean" /\ op[o].kind = "sync"
  /\ \/ /\ ~Cleaned(o)
        /\ op' = [op EXCEPT ![o].pc = "ready"]
     \/ /\ Cleaned(o) /\ ~Purged
        /\ op' = [op EXCEPT ![o].pc = "ready",
                    ![o].new = @ \cup [op : {o}, source : op[o].cur]]
  /\ UNCHANGED <<db, points, replaced>>

\* Mutant: unindex_item does not reset the flag.
RemovedUnmarked(o) ==
  /\ op[o].pc = "clean" /\ op[o].kind \in {"unindex_item", "delete"} /\ Cleaned(o)
  /\ op' = [op EXCEPT ![o].pc = IF Documents(o) # {} THEN "commit"
                                ELSE IF op[o].kind = "delete" THEN "delete"
                                ELSE "over"]
  /\ UNCHANGED <<db, points, replaced>>

\* unindex_item: if there was a document the flag is reset and the transaction
\* committed, else there is nothing to do.
Removed(o) ==
  /\ op[o].pc = "clean" /\ op[o].kind \in {"unindex_item", "delete"} /\ Cleaned(o)
  /\ IF Documents(o) # {}
     THEN Update(o, op[o].cur \cap op[o].flags, "commit")
     ELSE op' = Ended(o, IF op[o].kind = "delete" THEN "delete" ELSE "over")
  /\ UNCHANGED <<db, points, replaced>>

\* Mutant: unindex_item returns without a commit.
CommitIndexing(o) ==
  /\ \/ op[o].pc = "ready" /\ op[o].todo = {} /\ op[o].kind \in Indexing
     \/ op[o].pc = "commit"
  /\ IF op[o].kind \in Indexing
     THEN /\ rows' = (rows \ op[o].gone) \cup op[o].new
          /\ indexed' = indexed \cup op[o].mark
     ELSE UNCHANGED <<rows, indexed>>
  /\ op' = Ended(o, IF op[o].kind = "delete" THEN "delete" ELSE "over")
  /\ UNCHANGED <<sources, points, scored, replaced>>

\* The transaction ends: rows and flags change together.
Commit(o) ==
  /\ \/ op[o].pc = "ready" /\ op[o].todo = {} /\ op[o].kind \in Indexing
     \/ op[o].pc = "commit"
  /\ rows' = (rows \ op[o].gone) \cup op[o].new
  /\ indexed' = IF op[o].kind \in Indexing THEN indexed \cup op[o].mark
                                           ELSE indexed \ op[o].mark
  /\ op' = Ended(o, IF op[o].kind = "delete" THEN "delete" ELSE "over")
  /\ UNCHANGED <<sources, points, scored, replaced>>

\* delete_table, delete_fk and their like: a second transaction, for the source itself.
DeleteSource(o) ==
  /\ op[o].pc = "delete"
  /\ \A p \in Ops \ {o} : op[o].cur \cap op[p].mark = {}
  /\ sources' = sources \ op[o].cur
  /\ indexed' = indexed \ op[o].cur
  /\ op' = Ended(o, "over")
  /\ UNCHANGED <<rows, points, scored, replaced>>

\* _purge_datasource_rag: one source done with, and no flag to reset.
PurgedOne(o) ==
  /\ op[o].pc = "clean" /\ op[o].kind = "cascade" /\ Cleaned(o)
  /\ op' = [op EXCEPT ![o].pc = "ready"]
  /\ UNCHANGED <<db, points, replaced>>

\* delete_datasource_cascade: the rest of it waits for who holds a lock on a
\* source, or has inserted a document, which locks the datasource; it fails over
\* a document that its snapshot did not show.
Cascade(o) ==
  /\ op[o].pc = "ready" /\ op[o].todo = {} /\ op[o].kind = "cascade"
  /\ \A p \in Ops \ {o} : op[p].new = {} /\ op[p].mark = {}
  /\ IF rows \subseteq op[o].gone
     THEN /\ rows' = {} /\ sources' = {} /\ indexed' = {}
          /\ op' = Ended(o, "over")
     ELSE Failed(o) /\ UNCHANGED <<rows, sources, indexed>>
  /\ UNCHANGED <<points, scored, replaced>>

\* The metadata are synchronised: the foreign keys of the tables are deleted,
\* and nobody unindexes them.  (They come back under new ids.)
ReplaceKeys(keys) ==
  /\ keys \subseteq sources \cap Keys
  /\ sources' = sources \ keys /\ replaced' = replaced \cup keys
  /\ UNCHANGED <<indexed, rows, points, scored, op>>

\* A statement, a call to Qdrant or the commit raises, or the process dies.
Fail(o) ==
  /\ op[o].pc \in {"ready", "clean", "mark", "commit", "delete"}
  /\ Failed(o)
  /\ UNCHANGED <<db, points, replaced>>

\* The scoring task stores a score for a chunk that a search returned; while
\* an operation has the chunk locked it waits.
Score(c) ==
  /\ c \in rows /\ \A o \in Ops : c \notin op[o].gone
  /\ scored' = scored \cup {c}
  /\ UNCHANGED <<sources, indexed, rows, points, op, replaced>>

Step(o) == \/ Begin(o) \/ Store(o) \/ MarkIndexed(o) \/ Swallow(o)
           \/ Removed(o) \/ Commit(o) \/ DeleteSource(o) \/ Fail(o)
           \/ PurgedOne(o) \/ Cascade(o)
           \/ \E s \in Sources : Pick(o, s)
           \/ \E c \in Chunks : DropPoint(o, c) \/ DropRow(o, c)

Next == \/ \E o \in Ops : Step(o)
        \/ \E c \in Chunks : Score(c)
        \/ \E keys \in SUBSET Keys : ReplaceKeys(keys)

Spec == Init /\ [][Next]_vars

-----------------------------------------------------------------------------
(* What holds. *)

\* The type of every variable.
TypeOK ==
  /\ sources \subseteq Sources /\ indexed \subseteq Sources
  /\ replaced \subseteq Sources
  /\ rows \subseteq Chunks /\ points \subseteq Chunks /\ scored \subseteq Chunks
  /\ op \in [Ops -> OpStates]

UnderWay(o) == op[o].pc \notin {"idle", "over", "failed"}

\* A search returns what is documented: a point without a committed row was
\* written by an operation that is still under way, or that failed.
PointsExplained ==
  \A c \in points \ rows : c.op \in Ops /\ (UnderWay(c.op) \/ op[c.op].pc = "failed")

\* A document that a search cannot find is one whose deletion is under way or
\* failed, or one that a sync gave up.
RowsExplained ==
  \A c \in rows \ points :
    \/ c.op \in Ops /\ op[c.op].kind = "sync"
    \/ \E o \in Ops : /\ c \in op[o].dropped
                      /\ UnderWay(o) \/ op[o].pc = "failed" \/ op[o].kind = "sync"

\* What the administrator sees as indexed has a document, whatever interleaves
\* and fails, unless a sync gave it up half-way.
IndexedHasRow ==
  \A s \in indexed :
    \/ \E c \in rows : c.source = s
    \/ \E o \in Ops : /\ op[o].kind = "sync"
                      /\ \E c \in op[o].dropped : c.source = s

\* Two documents of one source come only from operations that ran at the same
\* time: neither could see what the other wrote.
TwiceOnlyByOverlap ==
  \A c, d \in rows : c.source = d.source /\ c # d /\ d.op \in Ops =>
    c \notin op[d.op].view

\* Who deletes a table, a template or a foreign key unindexes it first, so a
\* document of a source that is gone was committed by an operation that
\* overlapped the deletion; but a synchronisation of the metadata unindexes
\* nothing, and a cascade leaves no document, or deletes nothing.
OrphansExplained ==
  \A c \in rows :
    \/ c.source \in sources \cup replaced
    \/ \E o \in Ops : /\ op[o].kind = "delete" /\ op[o].pc = "over"
                      /\ c.source \in op[o].cur /\ c \notin op[o].view

\* What the proofs need besides.  A chunk is committed, and then seen, only when
\* its operation is over; until then it is among the new ones of an indexing
\* operation, and has its point at most there.
CommittedIsOver ==
  \A c \in rows \cup UNION { op[o].view : o \in Ops } :
    c.op \in Ops => op[c.op].pc = "over"

PointsOwned ==
  \A c \in points : c.op \in Ops =>
    \/ op[c.op].pc \in {"over", "failed"}
    \/ UnderWay(c.op) /\ c \in op[c.op].new

NewOwned ==
  \A o \in Ops : \A c \in op[o].new :
    /\ c.op = o /\ op[o].kind \in Indexing /\ op[o].pc \in {"ready", "clean", "mark"}
    /\ \A d \in op[o].view : d.source = c.source => d \in op[o].gone

\* A row is deleted after its point, which nobody writes again, and its lock
\* keeps scores away.
DeletesInOrder ==
  \A o \in Ops : /\ op[o].gone \subseteq op[o].dropped
                 /\ op[o].dropped \subseteq op[o].view
                 /\ op[o].dropped \cap points = {}
                 /\ op[o].gone \cap scored = {}
                 /\ op[o].pc = "idle" => op[o].dropped = {}

ScoresKeepChunks == scored \subseteq rows

IInv == /\ TypeOK /\ PointsExplained /\ TwiceOnlyByOverlap
        /\ CommittedIsOver /\ PointsOwned /\ NewOwned /\ DeletesInOrder
        /\ ScoresKeepChunks

-----------------------------------------------------------------------------
(* What the proofs about rows and flags need besides, of the record n of an *)
(* operation.                                                               *)

GivenUp(s) == \E o \in Ops : /\ op[o].kind = "sync"
                             /\ \E c \in op[o].dropped : c.source = s

\* Only a sync keeps a new row without its point ...
NewHasPoint(n) == n.kind # "sync" => n.new \subseteq points

\* ... or a row whose point it deleted.
DropsFinish(n) ==
  n.kind # "sync" =>
    /\ n.pc = "clean" => \A c \in n.dropped \ n.gone : c.source \in n.cur
    /\ n.pc \in {"ready", "mark", "commit"} => n.dropped \subseteq n.gone
    /\ n.pc \in {"delete", "over"} => n.dropped \cap rows = {}

\* An operation that unindexes has one source, and resets its flag; a cascade
\* resets none.
OneSource(n) ==
  /\ n.kind = "cascade" =>
       n.pc \notin {"mark", "commit", "delete"} /\ n.mark = {}
  /\ n.kind \in {"unindex_item", "delete"} =>
       /\ n.pc # "mark"
       /\ n.pc = "ready" => n.dropped = {}
       /\ n.pc \in {"ready", "clean"} => n.mark = {}
       /\ n.pc \in {"clean", "commit"} => \A c \in n.dropped : c.source \in n.cur
       /\ n.pc = "commit" => n.mark = n.cur \cap n.flags

\* One that indexes inserts a row for every source that it marks or, but for a
\* sync, whose rows it deletes.
Replaces(n) ==
  /\ n.pc = "idle" => n.mark = {}
  /\ n.kind \in Indexing =>
       /\ n.pc # "commit"
       /\ n.pc = "mark" => \A s \in n.cur : \E c \in n.new : c.source = s
       /\ \A s \in n.mark : \E c \in n.new : c.source = s
       /\ \A d \in n.gone : \/ n.kind = "sync"
                            \/ n.pc = "clean" /\ d.source \in n.cur
                            \/ \E c \in n.new : c.source = d.source

\* A flag that was set after the snapshot has a row that came after it.
FlagsKnown(n) ==
  n.pc \in {"ready", "clean", "mark", "commit"} =>
    \A s \in indexed \ n.flags :
      GivenUp(s) \/ \E c \in rows \ n.view : c.source = s

InOrder(n) == NewHasPoint(n) /\ DropsFinish(n) /\ OneSource(n) /\ Replaces(n)

\* Of two snapshots one is the later.
ViewsNested ==
  \A o, p \in Ops : \/ op[o].view \cap rows \subseteq op[p].view
                    \/ op[p].view \cap rows \subseteq op[o].view

\* A deletion unindexes the documents that it has seen of its source, and they
\* do not come back.
DeletesAll(n) ==
  /\ n.pc = "delete" => n.kind = "delete"
  /\ n.kind = "delete" =>
       \A c \in n.view : c.source \in n.cur =>
         /\ n.pc = "commit" => c \in n.gone
         /\ n.pc \in {"delete", "over"} => c \notin rows

\* Sources go in no other way than the three of OrphansExplained.
GoneExplained ==
  \A s \in Sources \ (sources \cup replaced) :
    Purged \/ \E o \in Ops : /\ op[o].kind = "delete" /\ op[o].pc = "over"
                            /\ s \in op[o].cur

PurgedIsEmpty == Purged => rows = {} /\ \A o \in Ops : op[o].new = {}

OrphanInv == /\ OrphansExplained /\ GoneExplained /\ PurgedIsEmpty
             /\ \A o \in Ops : DeletesAll(op[o])

AgreeInv == /\ RowsExplained /\ IndexedHasRow /\ ViewsNested
            /\ \A o \in Ops : InOrder(op[o]) /\ FlagsKnown(op[o])
=============================================================================
