------------------------------ MODULE Metadata ------------------------------
(***************************************************************************)
(* The metadata of one datasource: synchronised from the remote database   *)
(* (services/metadata_sync.py, services/schema_introspector.py), edited by *)
(* the administrator and deleted with the datasource                       *)
(* (api/admin_graphql.py).  A session reads from the snapshot of its first *)
(* read, which a synchronisation takes before it asks the remote database; *)
(* the ORM writes the attributes that differ from what it loaded.  Of a    *)
(* table's columns the model says whether there are any.  What becomes of  *)
(* the documents in the retrieval index is in RagIndex.                    *)
(***************************************************************************)
EXTENDS Integers, FiniteSets

CONSTANTS NumNames,     \* tables of the remote database
          MaxId,        \* bound: rows of table_metadata ever
          Ops,          \* sessions that sync, update or delete the datasource
          MaxEdits,     \* bound: other edits
          RemoteFks     \* foreign keys the remote database may have

Names == 1..NumNames
Ids == 1..MaxId

ASSUME MetadataAssumption ==
  NumNames \in Nat /\ MaxId \in Nat /\ MaxEdits \in Nat /\ NumNames <= MaxId
  /\ RemoteFks \subseteq Names \X Names

VARIABLES
  ds,          \* the datasource exists
  referenced,  \* an evaluation case or run refers to it
  tables,      \* id -> row of table_metadata
  lastId,      \* AUTO_INCREMENT of table_metadata
  columns,     \* tables that have rows in column_metadata
  fks,         \* rows of fk_relationships
  op,          \* session -> its progress and its transaction
  edits,       \* number of edits
  asked        \* history: the last is_allowed that was asked for

db == <<ds, tables, columns, fks>>
vars == <<db, referenced, op, edits, asked, lastId>>

Rows == [name : Names, allowed : BOOLEAN, description : {"", "manual", "sync"}]
Fks == [from : Ids, to : Ids, by : Ops \cup {"manual"}]
NoTables == [i \in {} |-> 0]

\* A row, or its name, added to those that there are.
With(rows, i, row) ==
  [j \in DOMAIN rows \cup {i} |-> IF j = i THEN row ELSE rows[j]]

Idle == [pc |-> "idle", view |-> NoTables, seen |-> {},
         allow |-> {}, fks |-> {}, todo |-> {},
         ids |-> NoTables, new |-> NoTables, allows |-> {}, describes |-> {},
         newcols |-> {}, held |-> {}, gone |-> {}, newfks |-> {}]

Synced(o) == DOMAIN op[o].ids

-----------------------------------------------------------------------------
Init ==
  /\ ds = TRUE /\ referenced \in BOOLEAN
  /\ \E n \in {{}, Names} :
       tables = [i \in n |-> [name |-> i, allowed |-> TRUE, description |-> ""]]
  /\ columns = DOMAIN tables /\ lastId = Cardinality(columns)
  /\ fks = {}
  /\ op = [o \in Ops |-> Idle] /\ edits = 0
  /\ asked = [i \in Ids |-> [value |-> i \in DOMAIN tables /\ tables[i].allowed,
                             skipped |-> FALSE]]

\* Rows that the transaction has locked, and rows its inserts refer to.
Locked(o) == op[o].allows \cup op[o].describes \cup DOMAIN op[o].new
Shared(o) == op[o].newcols \cup { f.from : f \in op[o].newfks }
                           \cup { f.to : f \in op[o].newfks }

Free(o, ids) == \A p \in Ops \ {o} : ids \cap (Locked(p) \cup Shared(p)) = {}
Readable(o, ids) == \A p \in Ops \ {o} : ids \cap Locked(p) = {}
NameFree(o, n) == \A p \in Ops \ {o} : \A i \in DOMAIN op[p].new : op[p].new[i].name # n

FreshId == lastId + 1

Ends(o) == op' = [op EXCEPT ![o] = [Idle EXCEPT !.pc = "over"]]

\* Rolled back.
Failed(o) == Ends(o)

-----------------------------------------------------------------------------
(* Synchronisation. *)

\* session.get of the datasource takes the snapshot.
BeginSync(o) ==
  /\ op[o].pc = "idle" /\ ds
  /\ op' = [op EXCEPT ![o].pc = "introspect", ![o].view = tables, ![o].seen = columns]
  /\ UNCHANGED <<db, referenced, asked>>

\* introspect_mysql, over the network: found is what it finds of the selected
\* tables (the others are reported and left), f the foreign keys between these.
\* A connection that fails is Lose.
Introspect(o) ==
  /\ op[o].pc = "introspect"
  /\ \E found \in SUBSET Names : \E allow \in {{}, found}, f \in SUBSET RemoteFks :
       /\ f \subseteq found \X found
       /\ op' = [op EXCEPT ![o].pc = "merge", ![o].todo = found, ![o].fks = f,
                          ![o].allow = allow]
  /\ UNCHANGED <<db, referenced, asked>>

Existing(o, n) == { i \in DOMAIN op[o].view : op[o].view[i].name = n }

\* Mutant: a description that the administrator enters in the dialog wins.
DescribesAlways(o, i) == TRUE

\* _pick_description: what is there stays.  (Remote tables have a comment.)
Describes(o, i) == op[o].view[i].description = ""

\* Mutant: a table is allowed, and never forbidden.
MergesAllowing(o, i) ==
  [op EXCEPT ![o].todo = @ \ {op[o].view[i].name},
             ![o].ids = With(@, i, op[o].view[i].name),
             ![o].allows = @ \cup
                (IF ~op[o].view[i].allowed /\ op[o].view[i].name \in op[o].allow
                 THEN {i} ELSE {}),
             ![o].describes = @ \cup (IF Describes(o, i) THEN {i} ELSE {}),
             ![o].newcols = @ \cup ({i} \ op[o].seen)]

Merges(o, i) ==
  [op EXCEPT ![o].todo = @ \ {op[o].view[i].name},
             ![o].ids = With(@, i, op[o].view[i].name),
             ![o].allows = @ \cup
                (IF op[o].view[i].allowed # (op[o].view[i].name \in op[o].allow)
                 THEN {i} ELSE {}),
             ![o].describes = @ \cup (IF Describes(o, i) THEN {i} ELSE {}),
             ![o].newcols = @ \cup ({i} \ op[o].seen)]

\* A table that the snapshot knows: UPDATE of what differs, INSERT of columns.
\* If it has been deleted since, the UPDATE or the INSERT fails; a column that
\* another session inserted meanwhile collides.
MergeTable(o, i) ==
  LET n == op[o].view[i].name
  IN /\ op[o].pc = "merge" /\ n \in op[o].todo
     /\ LET touched == (Merges(o, i)[o].allows \cup Merges(o, i)[o].describes) \cap {i}
            added == {i} \ op[o].seen
        IN /\ touched = {} \/ Free(o, touched)
           /\ Readable(o, added)
           /\ \A p \in Ops \ {o} : added \cap op[p].newcols = {}
           /\ IF (touched \cup added) \subseteq DOMAIN tables /\ added \cap columns = {}
              THEN op' = Merges(o, i)
              ELSE Failed(o)
     /\ UNCHANGED <<db, referenced, asked>>

\* A table that it does not know: INSERT, which fails if it exists by now.
AddTable(o, n) ==
  /\ op[o].pc = "merge" /\ n \in op[o].todo
  /\ Existing(o, n) = {} /\ NameFree(o, n)
  /\ IF ~ds \/ \E i \in DOMAIN tables : tables[i].name = n
     THEN Failed(o) /\ UNCHANGED lastId
     ELSE LET row == [name |-> n, allowed |-> n \in op[o].allow, description |-> "sync"]
          IN /\ lastId < MaxId /\ lastId' = FreshId
             /\ op' = [op EXCEPT ![o].todo = @ \ {n},
                                ![o].ids = With(@, FreshId, n),
                                ![o].new = With(@, FreshId, row),
                                ![o].newcols = @ \cup {FreshId}]
  /\ UNCHANGED <<db, referenced, asked>>

\* Mutant: the foreign keys that the snapshot shows, one by one.
DeleteSeenFks(o) ==
  /\ op[o].pc = "merge" /\ op[o].todo = {} /\ Synced(o) # {}
  /\ op' = [op EXCEPT ![o].pc = "fks", ![o].gone = { f \in fks : f.from \in op[o].seen }]
  /\ UNCHANGED <<db, referenced, asked>>

\* DELETE of the foreign keys of the synced tables sees what is committed, and
\* locks them and the gap for new ones.
DeleteFks(o) ==
  /\ op[o].pc = "merge" /\ op[o].todo = {} /\ Synced(o) # {}
  /\ \A p \in Ops \ {o} :
       \A f \in op[p].gone \cup op[p].newfks : f.from \notin Synced(o)
  /\ op' = [op EXCEPT ![o].pc = "fks", ![o].held = Synced(o),
                      ![o].gone = { f \in fks : f.from \in Synced(o) }]
  /\ UNCHANGED <<db, referenced, asked>>

\* sync_fks is not asked for, or no table was found.
SkipFks(o) ==
  /\ op[o].pc = "merge" /\ op[o].todo = {}
  /\ op' = [op EXCEPT ![o].pc = "commit"]
  /\ UNCHANGED <<db, referenced, asked>>

IdOf(o, n) == { i \in Synced(o) : op[o].ids[i] = n }

\* The remote ones, between selected tables.
RemoteRows(o) ==
  UNION { { [from |-> i, to |-> j, by |-> o] :
              i \in IdOf(o, k[1]), j \in IdOf(o, k[2]) } : k \in op[o].fks }

\* INSERT of them.  A table that is gone by now makes it fail.
InsertFks(o) ==
  LET wanted == RemoteRows(o)
      ends == { f.from : f \in wanted } \cup { f.to : f \in wanted }
  IN /\ op[o].pc = "fks"
     /\ Readable(o, ends)
     /\ \A p \in Ops \ {o} : \A f \in wanted : f.from \notin op[p].held
     /\ IF ends \subseteq DOMAIN tables \cup DOMAIN op[o].new
        THEN op' = [op EXCEPT ![o].pc = "commit", ![o].newfks = wanted]
        ELSE Failed(o)
     /\ UNCHANGED <<db, referenced, asked>>

-----------------------------------------------------------------------------
(* Editing. *)

\* update_table: session.get, then the UPDATE of what differs.
BeginUpdate(o) ==
  /\ op[o].pc = "idle"
  /\ \E i \in DOMAIN tables, allow \in BOOLEAN :
       op' = [op EXCEPT ![o].pc = "update",
                        ![o].view = tables, ![o].ids = [j \in {i} |-> tables[i].name],
                        ![o].allow = IF allow THEN {tables[i].name} ELSE {}]
  /\ UNCHANGED <<db, referenced, asked>>

Update(o) ==
  /\ op[o].pc = "update"
  /\ \E i \in Synced(o) :
       LET touched == IF op[o].view[i].allowed # (op[o].allow # {}) THEN {i} ELSE {}
       IN /\ Free(o, touched)
          /\ IF touched \subseteq DOMAIN tables
             THEN op' = [op EXCEPT ![o].pc = "commit", ![o].allows = touched]
             ELSE Failed(o)
  /\ UNCHANGED <<db, referenced, asked>>

\* update_table with a description, in one step: nothing else reads it before
\* it writes.
Describe(i) ==
  /\ i \in DOMAIN tables /\ \A p \in Ops : i \notin Locked(p) \cup Shared(p)
  /\ tables' = [tables EXCEPT ![i].description = "manual"]
  /\ UNCHANGED <<ds, columns, fks, referenced, op, asked>>

\* The transaction of a sync or an update ends.
Commit(o) ==
  LET ids == (DOMAIN tables \cup DOMAIN op[o].new)
      Row(i) == IF i \in DOMAIN op[o].new THEN op[o].new[i]
                ELSE [tables[i] EXCEPT
                        !.allowed = IF i \in op[o].allows THEN ~op[o].view[i].allowed ELSE @,
                        !.description = IF i \in op[o].describes THEN "sync" ELSE @]
  IN /\ op[o].pc = "commit"
     /\ tables' = [i \in ids |-> Row(i)]
     /\ columns' = columns \cup op[o].newcols
     /\ fks' = (fks \ op[o].gone) \cup op[o].newfks
     /\ asked' = [i \in Ids |->
          IF i \notin Synced(o) THEN asked[i]
          ELSE [value |-> op[o].ids[i] \in op[o].allow,
                skipped |-> /\ i \in DOMAIN op[o].view
                            /\ op[o].view[i].allowed = (op[o].ids[i] \in op[o].allow)]]
     /\ Ends(o)
     /\ UNCHANGED <<ds, referenced>>

\* create_table; the name is unique.
CreateTable(n, allow) ==
  /\ ds /\ \A i \in DOMAIN tables : tables[i].name # n
  /\ \A p \in Ops : \A i \in DOMAIN op[p].new : op[p].new[i].name # n
  /\ lastId < MaxId /\ lastId' = FreshId
  /\ tables' = With(tables, FreshId, [name |-> n, allowed |-> allow, description |-> ""])
  /\ asked' = [asked EXCEPT ![FreshId] = [value |-> allow, skipped |-> FALSE]]
  /\ UNCHANGED <<ds, columns, fks, referenced, op>>

\* create_fk, any two tables
CreateFk(i, j) ==
  /\ {i, j} \subseteq DOMAIN tables
  /\ \A p \in Ops : {i, j} \cap Locked(p) = {} /\ i \notin op[p].held
  /\ fks' = fks \cup {[from |-> i, to |-> j, by |-> "manual"]}
  /\ UNCHANGED <<ds, tables, columns, referenced, op, asked>>

\* delete_fk, its second transaction.  (RagIndex has the first, which unindexes.)
DeleteFk(f) ==
  /\ f \in fks /\ \A p \in Ops : f \notin op[p].gone
  /\ fks' = fks \ {f}
  /\ UNCHANGED <<ds, tables, columns, referenced, op, asked>>

\* create_column, the first; another one changes nothing here.
CreateColumn(i) ==
  /\ i \in DOMAIN tables \ columns
  /\ \A p \in Ops : i \notin Locked(p) \cup op[p].newcols
  /\ columns' = columns \cup {i}
  /\ UNCHANGED <<ds, tables, fks, referenced, op, asked>>

\* delete_column, of the last column
DeleteColumn(i) ==
  /\ i \in columns /\ columns' = columns \ {i}
  /\ UNCHANGED <<ds, tables, fks, referenced, op, asked>>

\* delete_table.  It fails while columns or foreign keys refer to the table: the
\* ORM sets their table to NULL, which the schema does not allow.
DeleteTable(i) ==
  /\ i \in DOMAIN tables \ columns
  /\ \A f \in fks : i \notin {f.from, f.to}
  /\ \A p \in Ops : i \notin Locked(p) \cup Shared(p)
  /\ tables' = [j \in DOMAIN tables \ {i} |-> tables[j]]
  /\ UNCHANGED <<ds, columns, fks, referenced, op, asked>>

-----------------------------------------------------------------------------
(* Deleting the datasource. *)

\* delete_datasource_cascade: the snapshot.
BeginCascade(o) ==
  /\ op[o].pc = "idle" /\ ds
  /\ op' = [op EXCEPT ![o].pc = "cascade", ![o].view = tables]
  /\ UNCHANGED <<db, referenced, asked>>

\* The rows, in the end the datasource: all go, or, if something refers to it
\* that the snapshot does not show or the cascade does not know, none.  (For a
\* document in the index that is in RagIndex, and Lose here.)
Cascade(o) ==
  /\ op[o].pc = "cascade"
  /\ \A p \in Ops \ {o} : Locked(p) \cup Shared(p) \cup op[p].held = {}
  /\ IF ~referenced /\ DOMAIN tables \subseteq DOMAIN op[o].view
     THEN /\ ds' = FALSE /\ tables' = NoTables /\ columns' = {} /\ fks' = {}
          /\ Ends(o)
     ELSE Failed(o) /\ UNCHANGED db
  /\ UNCHANGED <<referenced, asked>>

\* A connection is lost, a deadlock has a victim, or the process dies.
Lose(o) ==
  /\ op[o].pc \notin {"idle", "over"} /\ Failed(o)
  /\ UNCHANGED <<db, referenced, asked>>

Step(o) ==
  \/ BeginSync(o) \/ Introspect(o) \/ DeleteFks(o) \/ SkipFks(o) \/ InsertFks(o)
  \/ \E i \in DOMAIN op[o].view : MergeTable(o, i)
  \/ BeginUpdate(o) \/ Update(o) \/ Commit(o)
  \/ BeginCascade(o) \/ Cascade(o) \/ Lose(o)

Edit ==
  \/ \E i \in Ids : Describe(i) \/ CreateColumn(i) \/ DeleteColumn(i) \/ DeleteTable(i)
  \/ \E i, j \in Ids : CreateFk(i, j)
  \/ \E f \in fks : DeleteFk(f)

Edited == edits < MaxEdits /\ edits' = edits + 1

Next ==
  \/ (\E o \in Ops : Step(o)) /\ UNCHANGED <<edits, lastId>>
  \/ (\E o \in Ops, n \in Names : AddTable(o, n)) /\ UNCHANGED edits
  \/ Edit /\ Edited /\ UNCHANGED lastId
  \/ (\E n \in Names, allow \in BOOLEAN : CreateTable(n, allow)) /\ Edited

Spec == Init /\ [][Next]_vars

-----------------------------------------------------------------------------
(* What holds. *)

\* The type of every variable, the references between rows, and that no two
\* tables of the datasource have one name.
TypeOK ==
  /\ ds \in BOOLEAN /\ referenced \in BOOLEAN
  /\ DOMAIN tables \subseteq Ids /\ \A i \in DOMAIN tables : tables[i] \in Rows
  /\ columns \subseteq DOMAIN tables
  /\ fks \subseteq Fks
  /\ \A f \in fks : {f.from, f.to} \subseteq DOMAIN tables
  /\ ds \/ tables = NoTables
  /\ \A i, j \in DOMAIN tables : tables[i].name = tables[j].name => i = j

\* Whether a table may be queried is what was asked for last, except that who
\* asked for what he had read before (the ORM writes no attribute that keeps
\* its value) is not heard if somebody else changed it meanwhile.
AllowedIsAsked ==
  \A i \in DOMAIN tables :
    tables[i].allowed = asked[i].value \/ asked[i].skipped

KeepsDescriptions ==
  \A i \in DOMAIN tables \cap DOMAIN tables' :
    tables[i].description = "manual" /\ tables'[i].description # "manual"
      => \E o \in Ops : /\ op[o].pc = "commit" /\ op'[o].pc = "over"
                        /\ op[o].view[i].description = ""

\* An administrator's description is replaced only by a synchronisation that
\* had read the table before it was described.
DescriptionStays == [][KeepsDescriptions]_vars

\* Through every session that fails on the way rows refer to rows that exist,
\* and synchronisations, however many at once, leave one row for a foreign key
\* of the remote database.  (A row of the administrator's can be its double:
\* the table has no unique key.)
ForeignKeysOnce ==
  /\ TypeOK
  /\ \A f, g \in fks :
       f.from = g.from /\ f.to = g.to /\ f # g => "manual" \in {f.by, g.by}

-----------------------------------------------------------------------------
(* What the proofs need besides. *)

Maps(R) == UNION { [s -> R] : s \in SUBSET Ids }
Sessions ==
  [pc : {"idle", "introspect", "merge", "fks", "update", "commit", "cascade",
         "over"},
   view : Maps(Rows), seen : SUBSET Ids, allow : SUBSET Names,
   fks : SUBSET (Names \X Names), todo : SUBSET Names,
   ids : Maps(Names), new : Maps(Rows),
   allows : SUBSET Ids, describes : SUBSET Ids, newcols : SUBSET Ids,
   held : SUBSET Ids, gone : SUBSET Fks, newfks : SUBSET Fks]

\* The types of what TypeOK leaves out, and that row ids are not used twice.
StateType ==
  /\ tables \in Maps(Rows) /\ lastId \in 0..MaxId
  /\ op \in [Ops -> Sessions]
  /\ asked \in [Ids -> [value : BOOLEAN, skipped : BOOLEAN]]
  /\ DOMAIN tables \subseteq 1..lastId
  /\ \A o \in Ops : DOMAIN op[o].view \cup DOMAIN op[o].new \subseteq 1..lastId

\* A transaction n of session o before its first write and after its end.
WritesNothing(n) ==
  /\ DOMAIN n.new = {} /\ n.allows = {} /\ n.describes = {} /\ n.newcols = {}
  /\ n.held = {} /\ n.gone = {} /\ n.newfks = {}

\* The rows that it adds are asked for, one for a name.
AddsWhatIsAsked(n) ==
  /\ DOMAIN n.new \cap DOMAIN n.view = {} /\ DOMAIN n.new \subseteq DOMAIN n.ids
  /\ \A i \in DOMAIN n.new :
       /\ n.new[i].name = n.ids[i] /\ n.new[i].name \notin n.todo
       /\ n.new[i].allowed = (n.ids[i] \in n.allow)
       /\ \A j \in DOMAIN n.new : n.new[i].name = n.new[j].name => i = j

\* Of the rows that it has read it writes whether they are allowed if it read
\* something else than was asked for, and a description if it read none.
ChangesWhatIsAsked(n) ==
  /\ \A i \in DOMAIN n.ids \ DOMAIN n.new :
       /\ i \in DOMAIN n.view /\ n.ids[i] = n.view[i].name
       /\ n.pc # "update" =>
            (i \in n.allows <=> n.view[i].allowed # (n.ids[i] \in n.allow))
  /\ n.pc = "update" =>
       \A i, j \in DOMAIN n.ids : i = j /\ (n.allow # {} <=> n.ids[i] \in n.allow)
  /\ n.allows \subseteq DOMAIN n.ids \cap DOMAIN n.view
  /\ n.describes \subseteq { i \in DOMAIN n.view : n.view[i].description = "" }

\* It adds foreign keys of the tables whose foreign keys it deletes.
ReplacesFks(n, o) ==
  /\ n.pc = "merge" => n.held = {} /\ n.gone = {} /\ n.newfks = {}
  /\ n.pc = "fks" => n.held = DOMAIN n.ids /\ n.newfks = {}
  /\ \A f \in n.newfks : f.by = o /\ f.from \in n.held

\* What the writes of a transaction have to do with what it read.
WritesWhatIsAsked(n, o) ==
  /\ n.pc \notin {"merge", "fks", "commit"} => WritesNothing(n)
  /\ n.pc \notin {"merge", "fks", "update", "commit"} => DOMAIN n.ids = {}
  /\ AddsWhatIsAsked(n) /\ ChangesWhatIsAsked(n) /\ ReplacesFks(n, o)

\* What it writes is still there to be written when it commits, and the foreign
\* keys of the tables it synchronised are those that it deletes.
Fits(n) ==
  /\ n.allows \cup n.describes \subseteq DOMAIN tables
  /\ n.newcols \subseteq DOMAIN tables \cup DOMAIN n.new
  /\ \A f \in n.newfks : {f.from, f.to} \subseteq DOMAIN tables \cup DOMAIN n.new
  /\ DOMAIN n.new \cap DOMAIN tables = {}
  /\ \A i \in DOMAIN n.new, j \in DOMAIN tables : n.new[i].name # tables[j].name
  /\ \A f \in fks : f.from \in n.held => f \in n.gone
  /\ ~ds => DOMAIN n.new = {} /\ n.newcols = {} /\ n.newfks = {}

\* Two transactions add different tables, and neither adds foreign keys of a
\* table whose foreign keys the other replaces.
Apart(n, m) ==
  /\ DOMAIN n.new \cap DOMAIN m.new = {}
  /\ \A i \in DOMAIN n.new, j \in DOMAIN m.new : n.new[i].name # m.new[j].name
  /\ \A f \in n.newfks : f.from \notin m.held
  /\ \A f \in m.newfks : f.from \notin n.held

IInv ==
  /\ StateType /\ ForeignKeysOnce /\ AllowedIsAsked
  /\ \A o \in Ops : WritesWhatIsAsked(op[o], o) /\ Fits(op[o])
  /\ \A o, p \in Ops : o # p => Apart(op[o], op[p])
=============================================================================
